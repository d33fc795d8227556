----------------------- MODULE MediaRelocationProofs -----------------------
(***************************************************************************)
(* Proofs about MediaRelocation.  The many passes of OpenListCopy and      *)
(* QbHandover are first reduced to what they do to the row (CopyDecides,   *)
(* QbDecides); the invariants are then shown kind of step by kind of step. *)
(* The last part adds what rows say about requests that may be out         *)
(* (RequestInv), shown step by step.                                       *)
(***************************************************************************)
EXTENDS MediaRelocation, TLAPS, WellFoundedInduction

-----------------------------------------------------------------------------
(* The shape of the state, as far as the proofs need it.                   *)

Rows ==
  [stage : Stages, planned : BOOLEAN,
   ck : [op : {"none", "CopyFile", "CreateDirectory", "RemoveFile", "ReviewExisting"},
         phase : {"none", "Prepared", "Uncertain"}],
   cursor : Nat, lock : BOOLEAN, tasks : Nat, exported : BOOLEAN, leased : BOOLEAN]

Pcs == {"idle", "claimed", "sending", "sent", "decided"}

Shape ==
  /\ setup \in [Jobs -> [kind : {"auto", "manual", "none"}, same : BOOLEAN,
                         hashed : BOOLEAN, files : AllFiles, shared : SUBSET AllFiles,
                         foreign : SUBSET AllFiles, dir : BOOLEAN]]
  /\ config \in [enabled : BOOLEAN, read : BOOLEAN]
  /\ job \in [Jobs -> Rows]
  /\ worker \in [pc : Pcs, job : {0} \cup Jobs, fresh : BOOLEAN, next : Rows]
  /\ worker.pc # "idle" => worker.job \in Jobs
  /\ source \in [Jobs -> SUBSET AllFiles]
  /\ target \in [Jobs -> [AllFiles -> Content]]
  /\ qb \in [Jobs -> [src : SourceStates, tgt : TargetStates]]
  /\ removal \in [Jobs -> [AllFiles -> {"none", "flying"}]]

AllSame(j) == \A f \in Files(j) : target[j][f] = "same"

(* A set of naturals with a member has a least one: ReconcileEnds looks    *)
(* for the first file that is not as it should be.                         *)
LEMMA LeastMember ==
  ASSUME NEW T \in SUBSET Nat, T # {}
  PROVE  \E m \in T : \A k \in T : ~(k < m)
<1>1. IsWellFoundedOn(OpToRel(<, Nat), Nat)
  BY NatLessThanWellFounded
<1>2. \E m \in T : \A k \in T : ~(<<k, m>> \in OpToRel(<, Nat))
  BY <1>1, WFMin
<1>3. QED
  BY <1>2 DEF OpToRel

(* When no file is the first open one, every file is accepted.             *)
LEMMA AllAccepted ==
  ASSUME Shape, NEW j \in Jobs, ~\E f \in Files(j) : Unverified(j, f)
  PROVE  \A f \in Files(j) : Accepted(j, f)
<1>1. SUFFICES ASSUME \E f \in Files(j) : ~Accepted(j, f) PROVE FALSE
  OBVIOUS
<1> DEFINE T == {f \in Files(j) : ~Accepted(j, f)}
<1>2. T \in SUBSET Nat /\ T # {}
  BY <1>1 DEF Files
<1>3. PICK m \in T : \A k \in T : ~(k < m)
  BY <1>2, LeastMember
<1>4. \A g \in Files(j) : g < m => Accepted(j, g)
  BY <1>3
<1>5. FirstOpen(j, Files(j), m)
  BY <1>3, <1>4 DEF FirstOpen
<1>6. QED
  BY <1>3, <1>5 DEF Unverified

(* An accepted file of an automatic job has the source's content.          *)
LEMMA AcceptedIsSame ==
  ASSUME NEW j \in Jobs, ~Manual(j), NEW f, Accepted(j, f)
  PROVE  target[j][f] = "same"
BY DEF Accepted, Observed

-----------------------------------------------------------------------------
(* What a pass of the copy makes of the row.                               *)

(* Stages in which the torrent's data is in the row.                       *)
ExportedStages == TargetQbStages \cup {"torrent_exported", "source_remove_manual_review"}

(* Stages in which the cursor tells how far the removal has come.          *)
RemovalStages == {"source_removing", "source_remove_manual_review", "source_removed", "completed"}

CopyRow(j, row) ==
  /\ row \in Rows
  /\ row.exported = job[j].exported
  /\ row.ck.op = "RemoveFile" => row.ck = job[j].ck
  /\ row.stage \notin ExportedStages
  /\ row.stage = "completed" => ~Manual(j) /\ AllSame(j)

CopyDecides(j) ==
  \E row \in Rows :
    /\ CopyRow(j, row)
    /\ worker.pc = "claimed" /\ worker.job = j
    /\ Decide(j, row)
    /\ UNCHANGED copyVars

(* A request that was answered, or turned out to be unneeded.              *)
CopyAnswered(j) ==
  /\ worker.pc \in {"sending", "sent"} /\ worker.job = j
  /\ \E row \in Rows :
       /\ row.ck = worker.next.ck /\ row.cursor = worker.next.cursor
       /\ row.exported = worker.next.exported
       /\ row.stage \in {worker.next.stage, "copying"}
       /\ worker' = [worker EXCEPT !.pc = "decided", !.next = row]
  /\ UNCHANGED <<setup, config, job, copyVars>>

LEMMA PlanningSteps ==
  ASSUME Shape, NEW j \in Jobs,
         Plan(j) \/ PlanCancelled(j) \/ PlanWaits(j) \/ PlanGivesUp(j)
           \/ Suspend(j) \/ Resume(j) \/ LockRefused(j)
  PROVE  CopyDecides(j)
<1> USE DEF CopyDecides, CopyRow, Moved, Without, NoCk, Rows, Working
<1> DEFINE stages == {"copy_reconcile", "cancelled", "planning_manual_review",
                      "qb_manual_review", "auto_copy_paused", "waiting_download"}
<1>0. /\ stages \cup CopyStages \subseteq Stages
      /\ (stages \cup CopyStages) \cap ExportedStages = {}
      /\ "completed" \notin stages \cup CopyStages
  BY DEF Stages, ExportedStages, TargetQbStages, Finished, Review, CopyStages
<1>a. job[j] \in Rows
  BY DEF Shape
<1>1. CASE Plan(j)
  <2> DEFINE row == [Without(Moved(job[j], "copy_reconcile"))
                       EXCEPT !.planned = TRUE, !.cursor = 0]
  <2>1. row \in Rows /\ CopyRow(j, row)
    BY <1>0, <1>a
  <2>2. QED
    BY <1>1, <2>1 DEF Plan
<1>2. CASE PlanCancelled(j)
  <2> DEFINE row == [job[j] EXCEPT !.stage = "cancelled"]
  <2>1. row \in Rows /\ CopyRow(j, row)
    BY <1>0, <1>a
  <2>2. QED
    BY <1>2, <2>1 DEF PlanCancelled
<1>3. CASE PlanWaits(j)
  <2>1. CopyRow(j, job[j])
    BY <1>0, <1>a, <1>3 DEF PlanWaits
  <2>2. QED
    BY <1>a, <1>3, <2>1 DEF PlanWaits
<1>4. CASE PlanGivesUp(j)
  <2> DEFINE row == [Without(job[j]) EXCEPT !.cursor = 0,
                       !.stage = IF Manual(j) THEN "qb_manual_review" ELSE "planning_manual_review"]
  <2>1. row \in Rows /\ CopyRow(j, row)
    BY <1>0, <1>a
  <2>2. QED
    BY <1>4, <2>1 DEF PlanGivesUp
<1>5. CASE Suspend(j)
  <2> DEFINE row == [Without(job[j]) EXCEPT !.stage = "auto_copy_paused"]
  <2>1. row \in Rows /\ CopyRow(j, row)
    BY <1>0, <1>a
  <2>2. QED
    BY <1>5, <2>1 DEF Suspend, CopyWork
<1>6. CASE Resume(j)
  <2> DEFINE row == [job[j] EXCEPT !.stage =
                       IF job[j].planned THEN "copy_reconcile" ELSE "waiting_download"]
  <2>1. row \in Rows /\ CopyRow(j, row)
    BY <1>0, <1>a
  <2>2. QED
    BY <1>6, <2>1 DEF Resume
<1>7. CASE LockRefused(j)
  <2>1. CopyRow(j, job[j])
    BY <1>0, <1>a, <1>7 DEF LockRefused, CopyWork
  <2>2. QED
    BY <1>a, <1>7, <2>1 DEF LockRefused, CopyWork
<1>8. QED
  BY <1>1, <1>2, <1>3, <1>4, <1>5, <1>6, <1>7

LEMMA CopyingSteps ==
  ASSUME Shape, NEW j \in Jobs,
         Reconcile(j) \/ ReconcileOn(j) \/ ReconcileEnds(j) \/ SubmissionArrived(j)
           \/ SubmissionDoubtful(j) \/ SubmissionNeedsDirectory(j)
           \/ SubmissionUncertain(j) \/ FollowTask(j)
  PROVE  CopyDecides(j)
<1> USE DEF CopyDecides, CopyRow, Moved, Without, NoCk, Prepared, Rows, Working, CopyWork, Copying
<1> DEFINE stages == CopyStages \cup {"copy_manual_review"}
<1>0. /\ stages \cup {"completed", "copy_verified"} \subseteq Stages
      /\ (stages \cup {"completed", "copy_verified"}) \cap ExportedStages = {}
      /\ "completed" \notin stages
      /\ {"copy_reconcile", "copy_legacy_reconcile", "copy_submitting", "copying"}
           \subseteq CopyStages
  BY DEF Stages, ExportedStages, TargetQbStages, Finished, Review, CopyStages
<1>a. job[j] \in Rows
  BY DEF Shape
<1>b. \A f \in Nat : f # 0 => f - 1 \in Nat
  OBVIOUS
<1>c. Files(j) \subseteq Nat \ {0}
  BY DEF Files
<1>d. \A f \in Files(j) : /\ ReviewExisting(job[j], f) \in Rows
                          /\ CopyRow(j, ReviewExisting(job[j], f))
  BY <1>0, <1>a, <1>b, <1>c DEF ReviewExisting
<1>e. /\ job[j].cursor + Batch \in Nat /\ job[j].cursor + 1 \in Nat
      /\ NextFile(j) - 1 \in Nat
  BY <1>a, BatchAssumption DEF NextFile
<1>1. CASE Reconcile(j)
  <2>1. PICK f \in Pass(j) : Decide(j, AtOpenFile(j, f))
    BY <1>1 DEF Reconcile
  <2>2. f \in Files(j)
    BY DEF Pass
  <2>3. AtOpenFile(j, f) \in Rows /\ CopyRow(j, AtOpenFile(j, f))
    BY <1>0, <1>a, <1>b, <1>c, <2>2 DEF AtOpenFile, ReviewExisting
  <2>4. QED
    BY <1>1, <2>1, <2>3 DEF Reconcile
<1>2. CASE ReconcileOn(j)
  <2> DEFINE row == [job[j] EXCEPT !.cursor = @ + Batch]
  <2>1. row \in Rows /\ CopyRow(j, row)
    BY <1>0, <1>a, <1>e, <1>2 DEF ReconcileOn
  <2>2. QED
    BY <1>2, <2>1 DEF ReconcileOn
<1>3. CASE ReconcileEnds(j)
  <2>1. CASE \E f \in Files(j) : Unverified(j, f)
    <3> DEFINE f == CHOOSE f \in Files(j) : Unverified(j, f)
    <3>1. f \in Files(j)
      BY <2>1
    <3>2. QED
      BY <1>3, <1>d, <2>1, <3>1 DEF ReconcileEnds
  <2>2. CASE ~\E f \in Files(j) : Unverified(j, f)
    <3> DEFINE row == [Without(Moved(job[j], IF Manual(j) THEN "copy_verified" ELSE "completed"))
                         EXCEPT !.cursor = setup[j].files]
    <3>1. ~Manual(j) => AllSame(j)
      BY <2>2, AllAccepted, AcceptedIsSame DEF AllSame
    <3>2. setup[j].files \in Nat
      BY DEF Shape, AllFiles
    <3>3. row \in Rows /\ CopyRow(j, row)
      BY <1>0, <1>a, <3>1, <3>2
    <3>4. QED
      BY <1>3, <2>2, <3>3 DEF ReconcileEnds
  <2>3. QED
    BY <2>1, <2>2
<1>4. CASE SubmissionArrived(j)
  <2> DEFINE row == [Moved(job[j], "copy_reconcile") EXCEPT !.ck = NoCk, !.tasks = 0,
                       !.cursor = IF job[j].ck.op = "CreateDirectory" THEN @ ELSE @ + 1]
  <2>a. CASE job[j].ck.op = "CreateDirectory"
    <3>1. row \in Rows /\ CopyRow(j, row)
      BY <1>0, <1>a, <2>a
    <3>2. QED
      BY <1>4, <3>1 DEF SubmissionArrived
  <2>b. CASE job[j].ck.op # "CreateDirectory"
    <3>1. row \in Rows /\ CopyRow(j, row)
      BY <1>0, <1>a, <1>e, <2>b
    <3>2. QED
      BY <1>4, <3>1 DEF SubmissionArrived
  <2>1. QED
    BY <2>a, <2>b
<1>5. CASE SubmissionDoubtful(j)
  <2> DEFINE row == IF job[j].ck.phase = "Prepared" THEN ReviewExisting(job[j], NextFile(j))
                                                    ELSE Moved(job[j], "copy_manual_review")
  <2>1. row \in Rows /\ CopyRow(j, row)
    BY <1>0, <1>a, <1>e DEF ReviewExisting
  <2>2. QED
    BY <1>5, <2>1 DEF SubmissionDoubtful
<1>6. CASE SubmissionNeedsDirectory(j)
  <2> DEFINE row == [job[j] EXCEPT !.ck = Prepared("CreateDirectory")]
  <2>1. row \in Rows /\ CopyRow(j, row)
    BY <1>0, <1>a, <1>6 DEF SubmissionNeedsDirectory
  <2>2. QED
    BY <1>6, <2>1 DEF SubmissionNeedsDirectory
<1>7. CASE SubmissionUncertain(j)
  <2>1. PICK stage \in {"copy_submitting", "copy_manual_review"} : Decide(j, Moved(job[j], stage))
    BY <1>7 DEF SubmissionUncertain
  <2>2. Moved(job[j], stage) \in Rows /\ CopyRow(j, Moved(job[j], stage))
    BY <1>0, <1>a
  <2>3. QED
    BY <1>7, <2>1, <2>2 DEF SubmissionUncertain
<1>8. CASE FollowTask(j)
  <2>1. PICK stage \in TaskDecisions(j) : Decide(j, Moved(job[j], stage))
    BY <1>8 DEF FollowTask
  <2>2. stage \in stages
    BY <1>0, <2>1 DEF TaskDecisions
  <2>3. Moved(job[j], stage) \in Rows /\ CopyRow(j, Moved(job[j], stage))
    BY <1>0, <1>a, <2>2
  <2>4. QED
    BY <1>8, <2>1, <2>3 DEF FollowTask
<1>9. QED
  BY <1>1, <1>2, <1>3, <1>4, <1>5, <1>6, <1>7, <1>8

LEMMA AnswerSteps ==
  ASSUME Shape, NEW j \in Jobs, SendUnneeded(j) \/ AnswerTask(j) \/ AnswerDone(j)
  PROVE  CopyAnswered(j)
<1> USE DEF CopyAnswered, InCopyCall, Moved, Rows
<1>a. worker.next \in Rows /\ "copying" \in Stages /\ InHand \in Nat
      /\ worker = [worker EXCEPT !.next = worker.next]
  BY DEF Shape, Stages, CopyStages, InHand
<1>1. CASE SendUnneeded(j)
  <2>1. worker' = [worker EXCEPT !.pc = "decided", !.next = worker.next]
    BY <1>1 DEF SendUnneeded, Shape
  <2>2. QED
    BY <1>1, <1>a, <2>1 DEF SendUnneeded
<1>2. CASE AnswerTask(j)
  <2> DEFINE row == [Moved(worker.next, "copying") EXCEPT !.tasks = InHand]
  <2>1. /\ row \in Rows /\ row.ck = worker.next.ck /\ row.cursor = worker.next.cursor
        /\ row.exported = worker.next.exported /\ row.stage = "copying"
    BY <1>a
  <2>2. worker' = [worker EXCEPT !.pc = "decided", !.next = row]
    BY <1>2 DEF AnswerTask
  <2> HIDE DEF row
  <2>3. QED
    BY <1>2, <2>1, <2>2 DEF AnswerTask
<1>3. CASE AnswerDone(j)
  <2> DEFINE row == [worker.next EXCEPT !.tasks = 0]
  <2>1. /\ row \in Rows /\ row.ck = worker.next.ck /\ row.cursor = worker.next.cursor
        /\ row.exported = worker.next.exported /\ row.stage = worker.next.stage
    BY <1>a
  <2>2. worker' = [worker EXCEPT !.pc = "decided", !.next = row]
    BY <1>3 DEF AnswerDone, Shape
  <2> HIDE DEF row
  <2>3. QED
    BY <1>3, <2>1, <2>2 DEF AnswerDone
<1>4. QED
  BY <1>1, <1>2, <1>3


-----------------------------------------------------------------------------
(* What a pass of the handover makes of the row and of the torrent.        *)

HasData(row) == row.stage \in ExportedStages => row.exported

QbRow(j, row) ==
  /\ row \in Rows
  /\ HasData(row)
  /\ job[j].exported => row.exported \/ row.stage = "completed"
  /\ row.ck.op = "RemoveFile" => row.ck = job[j].ck
  /\ row.stage \in {"source_removed", "completed"} => qb'[j].tgt # "none"

(* A torrent leaves the source only with its data in the row, and a pass   *)
(* never takes it from the target.                                         *)
QbFrame(j) ==
  /\ qb' \in [Jobs -> [src : SourceStates, tgt : TargetStates]]
  /\ \A k \in Jobs : qb'[k].src = qb[k].src \/ (k = j /\ job[j].exported)
  /\ \A k \in Jobs : qb[k].tgt # "none" => qb'[k].tgt # "none"
  /\ RemovalsUnchanged

QbDecides(j) ==
  \E row \in Rows :
    /\ QbRow(j, row)
    /\ worker.pc = "claimed" /\ worker.job = j
    /\ Manual(j)
    /\ Decide(j, row)
    /\ QbFrame(j)

(* What a pass may rely on.                                                *)
Founded(j) ==
  /\ HasData(job[j])
  /\ job[j].stage = "source_removed" => qb[j].tgt # "none"

LEMMA UnchangedFrame ==
  ASSUME Shape, NEW j \in Jobs, QbUnchanged
  PROVE  QbFrame(j)
BY DEF Shape, QbFrame, QbUnchanged, RemovalsUnchanged, qbVars

LEMMA SourceChanged ==
  ASSUME Shape, NEW j \in Jobs, NEW src \in SourceStates, job[j].exported,
         qb' = [qb EXCEPT ![j].src = src], RemovalsUnchanged
  PROVE  QbFrame(j)
<1>1. \A k \in Jobs : qb'[k] = IF k = j THEN [qb[k] EXCEPT !.src = src] ELSE qb[k]
  BY DEF Shape
<1>2. \A k \in Jobs : qb[k] \in [src : SourceStates, tgt : TargetStates]
  BY DEF Shape
<1>3. \A k \in Jobs : qb'[k].tgt = qb[k].tgt /\ (k # j => qb'[k] = qb[k])
  BY <1>1, <1>2
<1>4. \A k \in Jobs : qb'[k] \in [src : SourceStates, tgt : TargetStates]
  BY <1>1, <1>2
<1>5. qb' \in [Jobs -> [src : SourceStates, tgt : TargetStates]]
  BY <1>4 DEF Shape
<1>6. QED
  BY <1>3, <1>5 DEF QbFrame

LEMMA TargetChanged ==
  ASSUME Shape, NEW j \in Jobs, NEW tgt \in TargetStates \ {"none"},
         qb' = [qb EXCEPT ![j].tgt = tgt], RemovalsUnchanged
  PROVE  QbFrame(j)
<1>1. \A k \in Jobs : qb'[k] = IF k = j THEN [qb[k] EXCEPT !.tgt = tgt] ELSE qb[k]
  BY DEF Shape
<1>2. \A k \in Jobs : qb[k] \in [src : SourceStates, tgt : TargetStates]
  BY DEF Shape
<1>3. \A k \in Jobs : qb'[k].src = qb[k].src /\ qb'[k].tgt \in {tgt, qb[k].tgt}
  BY <1>1, <1>2
<1>4. \A k \in Jobs : qb'[k] \in [src : SourceStates, tgt : TargetStates]
  BY <1>1, <1>2
<1>5. qb' \in [Jobs -> [src : SourceStates, tgt : TargetStates]]
  BY <1>4 DEF Shape
<1>6. \A k \in Jobs : qb[k].tgt # "none" => qb'[k].tgt # "none"
  BY <1>3
<1>7. QED
  BY <1>3, <1>5, <1>6 DEF QbFrame

LEMMA HandoverSteps ==
  ASSUME Shape, NEW j \in Jobs, Founded(j),
         \/ Export(j) \/ QbReconcile(j) \/ DeleteAndAdd(j) \/ KeepSource(j)
         \/ TargetListed(j) \/ AddToTarget(j) \/ AskForCheck(j) \/ AwaitCheck(j)
         \/ CheckOpen(j) \/ CheckPassed(j) \/ AwaitSeeding(j) \/ Seeding(j)
         \/ TargetLost(j) \/ AllRemoved(j) \/ SharedFile(j) \/ FileGone(j)
         \/ RemovalUncertain(j) \/ Finish(j)
  PROVE  QbDecides(j)
<1> USE DEF QbDecides, QbRow, HasData, Moved, Without, Kept, NoCk, Rows, Working, At, Founded
<1> DEFINE reviews == {"qb_manual_review", "source_remove_manual_review"}
<1>0. /\ ExportedStages \cup reviews \cup {"completed", "copy_verified"} \subseteq Stages
      /\ {"torrent_exported", "qb_reconcile", "source_qb_removed", "target_qb_submitted",
           "target_qb_check_requested", "target_qb_checking", "target_qb_starting",
           "source_removing", "source_removed"} \subseteq ExportedStages
      /\ "completed" \notin ExportedStages /\ "qb_manual_review" \notin ExportedStages
      /\ "copy_verified" \notin ExportedStages
  BY DEF Stages, ExportedStages, TargetQbStages, Finished, Review, CopyStages
<1>a. job[j] \in Rows /\ job[j].cursor + 1 \in Nat
  BY DEF Shape
<1>b. qb[j] \in [src : SourceStates, tgt : TargetStates]
  BY DEF Shape
<1>c. QbUnchanged => qb' = qb
  BY DEF QbUnchanged, qbVars
<1>d. ASSUME NEW stage \in Stages, HasData(Moved(job[j], stage)),
             stage \notin {"source_removed", "completed"} \/ qb'[j].tgt # "none"
      PROVE  Moved(job[j], stage) \in Rows /\ QbRow(j, Moved(job[j], stage))
  BY <1>a, <1>d
<1>1. CASE Export(j)
  <2> DEFINE row == Kept(Moved(job[j], "qb_reconcile"))
  <2>1. row \in Rows /\ QbRow(j, row)
    BY <1>0, <1>a, <1>b, <1>c, <1>1 DEF Export
  <2>2. QED
    BY <1>1, <2>1, UnchangedFrame DEF Export
<1>2. CASE QbReconcile(j)
  <2>1. Classified(j) \in Stages
    BY <1>0 DEF Classified
  <2>2. Classified(j) \notin {"source_removed", "completed"}
    BY DEF Classified
  <2> DEFINE row ==
       IF Classified(j) = "source_qb_removed" /\ setup[j].same /\ ~job[j].exported
         THEN Moved(job[j], "qb_manual_review")
       ELSE IF Classified(j) \in {"torrent_exported", "source_qb_removed"}
         THEN Kept(Moved(job[j], Classified(j)))
       ELSE Moved(job[j], Classified(j))
  <2>3. row \in Rows /\ QbRow(j, row)
    BY <1>0, <1>a, <1>2, <2>1, <2>2 DEF QbReconcile
  <2>4. QED
    BY <1>2, <2>3, UnchangedFrame DEF QbReconcile
<1>3. CASE DeleteAndAdd(j)
  <2>1. PICK stage \in Stages : /\ Decide(j, Moved(job[j], stage))
                               /\ HasData(Moved(job[j], stage))
                               /\ stage \notin {"source_removed", "completed"}
    BY <1>0, <1>a, <1>3 DEF DeleteAndAdd, Becomes, Classified
  <2>2. QbFrame(j)
    <3>1. job[j].exported /\ "leaving" \in SourceStates
      BY <1>0, <1>3 DEF DeleteAndAdd, SourceStates
    <3>2. CASE Classified(j) = "torrent_exported"
      BY <1>3, <3>1, <3>2, SourceChanged DEF DeleteAndAdd
    <3>3. CASE Classified(j) # "torrent_exported"
      BY <1>3, <3>3 DEF DeleteAndAdd, QbFrame, Shape
    <3>4. QED
      BY <3>2, <3>3
  <2>3. QED
    BY <1>d, <1>3, <2>1, <2>2 DEF DeleteAndAdd, Classified
<1>4. CASE KeepSource(j)
  <2>1. PICK stage \in Stages : /\ Decide(j, Moved(job[j], stage))
                               /\ HasData(Moved(job[j], stage))
                               /\ stage \notin {"source_removed", "completed"}
    BY <1>0, <1>a, <1>4 DEF KeepSource, Becomes
  <2>2. QbFrame(j)
    BY <1>4, UnchangedFrame DEF KeepSource
  <2>3. QED
    BY <1>d, <1>4, <2>1, <2>2 DEF KeepSource
<1>5. CASE TargetListed(j)
  <2>1. PICK stage \in Stages : /\ Decide(j, Moved(job[j], stage))
                               /\ HasData(Moved(job[j], stage))
                               /\ stage \notin {"source_removed", "completed"}
    BY <1>0, <1>a, <1>5 DEF TargetListed, Becomes
  <2>2. QbFrame(j)
    BY <1>5, UnchangedFrame DEF TargetListed
  <2>3. QED
    BY <1>d, <1>5, <2>1, <2>2 DEF TargetListed
<1>6. CASE AddToTarget(j)
  <2>1. PICK stage \in Stages : /\ Decide(j, Moved(job[j], stage))
                               /\ HasData(Moved(job[j], stage))
                               /\ stage \notin {"source_removed", "completed"}
    BY <1>0, <1>a, <1>6 DEF AddToTarget, Becomes
  <2>2. QbFrame(j)
    <3>1. "paused" \in TargetStates \ {"none"}
      BY DEF TargetStates
    <3>2. QED
      BY <1>6, <3>1, TargetChanged DEF AddToTarget, Lists
  <2>3. QED
    BY <1>d, <1>6, <2>1, <2>2 DEF AddToTarget
<1>7. CASE AskForCheck(j)
  <2>1. PICK stage \in Stages : /\ Decide(j, Moved(job[j], stage))
                               /\ HasData(Moved(job[j], stage))
                               /\ stage \notin {"source_removed", "completed"}
    BY <1>0, <1>a, <1>7 DEF AskForCheck, Becomes
  <2>2. QbFrame(j)
    <3>1. "checking" \in TargetStates \ {"none"}
      BY DEF TargetStates
    <3>2. CASE qb' = qb
      BY <1>7, <3>2 DEF AskForCheck, QbFrame, Shape
    <3>3. CASE qb' = [qb EXCEPT ![j].tgt = "checking"]
      BY <1>7, <3>1, <3>3, TargetChanged DEF AskForCheck
    <3>4. QED
      BY <1>7, <3>2, <3>3 DEF AskForCheck
  <2>3. QED
    BY <1>d, <1>7, <2>1, <2>2 DEF AskForCheck
<1>8. CASE AwaitCheck(j)
  <2>1. PICK stage \in Stages : /\ Decide(j, Moved(job[j], stage))
                               /\ HasData(Moved(job[j], stage))
                               /\ stage \notin {"source_removed", "completed"}
    BY <1>0, <1>a, <1>8 DEF AwaitCheck, Becomes
  <2>2. QbFrame(j)
    BY <1>8, UnchangedFrame DEF AwaitCheck
  <2>3. QED
    BY <1>d, <1>8, <2>1, <2>2 DEF AwaitCheck
<1>9. CASE CheckOpen(j)
  <2>1. PICK stage \in Stages : /\ Decide(j, Moved(job[j], stage))
                               /\ HasData(Moved(job[j], stage))
                               /\ stage \notin {"source_removed", "completed"}
    BY <1>0, <1>a, <1>9 DEF CheckOpen, Becomes
  <2>2. QbFrame(j)
    BY <1>9, UnchangedFrame DEF CheckOpen
  <2>3. QED
    BY <1>d, <1>9, <2>1, <2>2 DEF CheckOpen
<1>10. CASE CheckPassed(j)
  <2>1. PICK stage \in Stages : /\ Decide(j, Moved(job[j], stage))
                               /\ HasData(Moved(job[j], stage))
                               /\ stage \notin {"source_removed", "completed"}
    BY <1>0, <1>a, <1>10 DEF CheckPassed, Becomes
  <2>2. QbFrame(j)
    <3>1. PICK tgt \in {qb[j].tgt, "seeding"} : qb' = [qb EXCEPT ![j].tgt = tgt]
      BY <1>10 DEF CheckPassed
    <3>2. tgt \in TargetStates \ {"none"}
      BY <1>b, <1>10, <3>1 DEF CheckPassed, Complete, Listed, TargetStates
    <3>3. QED
      BY <1>10, <3>1, <3>2, TargetChanged DEF CheckPassed
  <2>3. QED
    BY <1>d, <1>10, <2>1, <2>2 DEF CheckPassed
<1>11. CASE AwaitSeeding(j)
  <2>1. PICK stage \in Stages : /\ Decide(j, Moved(job[j], stage))
                               /\ HasData(Moved(job[j], stage))
                               /\ stage \notin {"source_removed", "completed"}
    BY <1>0, <1>a, <1>11 DEF AwaitSeeding, Becomes
  <2>2. QbFrame(j)
    BY <1>11, UnchangedFrame DEF AwaitSeeding
  <2>3. QED
    BY <1>d, <1>11, <2>1, <2>2 DEF AwaitSeeding
<1>12. CASE Seeding(j)
  <2> DEFINE row == [Without(Moved(job[j], "source_removing")) EXCEPT !.cursor = 0]
  <2>1. row \in Rows /\ QbRow(j, row)
    BY <1>0, <1>a, <1>b, <1>c, <1>12 DEF Seeding
  <2>2. QED
    BY <1>12, <2>1, UnchangedFrame DEF Seeding
<1>13. CASE TargetLost(j)
  <2>1. PICK stage \in Stages : /\ Decide(j, Moved(job[j], stage))
                               /\ HasData(Moved(job[j], stage))
                               /\ stage \notin {"source_removed", "completed"}
    BY <1>0, <1>a, <1>13 DEF TargetLost, Becomes
  <2>2. QbFrame(j)
    BY <1>13, UnchangedFrame DEF TargetLost
  <2>3. QED
    BY <1>d, <1>13, <2>1, <2>2 DEF TargetLost
<1>14. CASE AllRemoved(j)
  <2> DEFINE row == Without(Moved(job[j], "source_removed"))
  <2>1. row \in Rows /\ QbRow(j, row)
    BY <1>0, <1>a, <1>b, <1>c, <1>14 DEF AllRemoved, AllThere, Removing, Listed
  <2>2. QED
    BY <1>14, <2>1, UnchangedFrame DEF AllRemoved, AllThere, Removing, Listed
<1>15. CASE SharedFile(j)
  <2> DEFINE row == [job[j] EXCEPT !.ck = NoCk, !.cursor = @ + 1]
  <2>1. row \in Rows /\ QbRow(j, row)
    BY <1>0, <1>a, <1>b, <1>c, <1>15 DEF SharedFile, AllThere, Removing
  <2>2. QED
    BY <1>15, <2>1, UnchangedFrame DEF SharedFile, AllThere, Removing
<1>16. CASE FileGone(j)
  <2> DEFINE row == [job[j] EXCEPT !.ck = NoCk, !.cursor = @ + 1]
  <2>1. row \in Rows /\ QbRow(j, row)
    BY <1>0, <1>a, <1>b, <1>c, <1>16 DEF FileGone, OwnFile, AllThere, Removing
  <2>2. QED
    BY <1>16, <2>1, UnchangedFrame DEF FileGone, OwnFile, AllThere, Removing
<1>17. CASE RemovalUncertain(j)
  <2>1. PICK stage \in Stages : /\ Decide(j, Moved(job[j], stage))
                               /\ HasData(Moved(job[j], stage))
                               /\ stage \notin {"source_removed", "completed"}
    BY <1>0, <1>a, <1>17 DEF RemovalUncertain, Becomes, OwnFile, AllThere, Removing
  <2>2. QbFrame(j)
    BY <1>17, UnchangedFrame DEF RemovalUncertain
  <2>3. QED
    BY <1>d, <1>17, <2>1, <2>2 DEF RemovalUncertain, OwnFile, AllThere, Removing
<1>18. CASE Finish(j)
  <2> DEFINE row == [Moved(job[j], "completed") EXCEPT !.exported = FALSE]
  <2>1. row \in Rows /\ QbRow(j, row)
    BY <1>0, <1>a, <1>b, <1>c, <1>18 DEF Finish
  <2>2. QED
    BY <1>18, <2>1, UnchangedFrame DEF Finish
<1>19. QED
  BY <1>1, <1>2, <1>3, <1>4, <1>5, <1>6, <1>7, <1>8, <1>9, <1>10, <1>11, <1>12, <1>13, <1>14, <1>15, <1>16, <1>17, <1>18


-----------------------------------------------------------------------------
(* Everything else that touches rows: the loop's bookkeeping and people.   *)

(* Nobody else finishes a job, brings a finished one back, adds data to a  *)
(* row or takes it from a manual one, or forgets how far a removal is.     *)
RowKept(j) ==
  /\ HasData(job[j]) => HasData(job'[j])
  /\ job'[j].exported => job[j].exported
  /\ Manual(j) => job'[j].exported = job[j].exported
  /\ job'[j].stage \in {"source_removed", "completed"} => job'[j].stage = job[j].stage
  /\ job'[j].ck.op = "RemoveFile" => job'[j].ck = job[j].ck
  /\ job[j].stage \in Finished => job'[j].stage = job[j].stage
  /\ Manual(j) /\ job'[j].stage \in RemovalStages =>
       job[j].stage \in RemovalStages /\ job'[j].cursor = job[j].cursor

(* The pass in progress works on a row that has not ended.                 *)
FreshInv ==
  worker.pc # "idle" /\ worker.fresh => job[worker.job].stage \notin Finished

OtherStep ==
  /\ config' \in [enabled : BOOLEAN, read : BOOLEAN]
  /\ job' \in [Jobs -> Rows]
  /\ \A j \in Jobs : RowKept(j)
  /\ \/ worker' \in {worker, [worker EXCEPT !.fresh = FALSE], Idle}
     \/ \E j \in Jobs :
          worker' = [pc |-> "claimed", job |-> j, fresh |-> TRUE, next |-> NoRow]
  /\ FreshInv'
  /\ UNCHANGED setup

LEMMA UnchangedRow ==
  ASSUME NEW j \in Jobs, job'[j] = job[j]
  PROVE  RowKept(j)
BY DEF RowKept, HasData

LEMMA NoRowIsRow == NoRow \in Rows
BY DEF NoRow, NoCk, Rows, Stages

LEMMA EnqueueRows ==
  ASSUME Shape, NEW new \in SUBSET Jobs, Enqueue(new), FreshInv
  PROVE  /\ job' \in [Jobs -> Rows]
         /\ \A j \in Jobs : RowKept(j)
         /\ worker.pc # "idle" /\ worker.fresh => job'[worker.job].stage \notin Finished
<1>0. /\ {"waiting_download", "auto_copy_paused"} \subseteq Stages
      /\ "waiting_download" \notin ExportedStages \cup Finished
      /\ "auto_copy_paused" \notin ExportedStages \cup Finished
      /\ "none" \notin Finished
      /\ "waiting_download" \notin RemovalStages /\ "auto_copy_paused" \notin RemovalStages
  BY DEF RemovalStages, Stages, ExportedStages, TargetQbStages, Finished, Review, CopyStages
<1>1. ASSUME NEW j \in Jobs
      PROVE  /\ job'[j] \in Rows /\ RowKept(j)
             /\ job[j].stage \notin Finished => job'[j].stage \notin Finished
  <2>1. job[j] \in Rows
    BY DEF Shape
  <2>2. CASE j \in new
    <3>1. /\ job[j].stage = "none" /\ ~Manual(j)
          /\ job'[j] = [NoRow EXCEPT !.stage = IF config.enabled THEN "waiting_download"
                                                              ELSE "auto_copy_paused"]
      BY <2>2 DEF Enqueue, Manual
    <3>2. QED
      BY <1>0, <3>1, NoRowIsRow DEF RowKept, HasData, Rows, NoRow, NoCk
  <2>3. CASE j \notin new /\ PutAside(j)
    <3>1. job'[j] = [job[j] EXCEPT !.stage = "auto_copy_paused", !.leased = FALSE]
      BY <2>3 DEF Enqueue
    <3>2. job[j].stage = "waiting_download"
      BY <2>3 DEF PutAside
    <3>3. QED
      BY <1>0, <2>1, <3>1, <3>2 DEF RowKept, HasData, Rows
  <2>4. CASE j \notin new /\ ~PutAside(j)
    <3>1. job'[j] = job[j]
      BY <2>4 DEF Enqueue
    <3>2. QED
      BY <2>1, <3>1, UnchangedRow
  <2>5. QED
    BY <2>2, <2>3, <2>4
<1>2. job' \in [Jobs -> Rows]
  BY <1>1 DEF Enqueue
<1>3. QED
  BY <1>1, <1>2 DEF FreshInv, Shape

(* One row changes, and the pass that works on it learns that it did.      *)
LEMMA AnsweredStep ==
  ASSUME Shape, FreshInv, NEW j \in Jobs, NEW row \in Rows, Answered(j, row),
         HasData(job[j]) => HasData(row), row.exported = job[j].exported,
         row.stage \notin {"source_removed", "completed"},
         row.ck.op = "RemoveFile" => row.ck = job[j].ck,
         job[j].stage \notin Finished,
         Manual(j) /\ row.stage \in RemovalStages =>
           job[j].stage \in RemovalStages /\ row.cursor = job[j].cursor
  PROVE  OtherStep
<1>1. job' = [job EXCEPT ![j] = row] /\ worker' = Overwritten(j) /\ UNCHANGED <<setup, config>>
  BY DEF Answered
<1>2. job' \in [Jobs -> Rows]
  BY <1>1 DEF Shape
<1>3. \A k \in Jobs : RowKept(k)
  <2> TAKE k \in Jobs
  <2>1. CASE k = j
    BY <1>1, <2>1 DEF RowKept, Shape
  <2>2. CASE k # j
    BY <1>1, <2>2, UnchangedRow DEF Shape
  <2>3. QED
    BY <2>1, <2>2
<1>4. FreshInv'
  BY <1>1 DEF FreshInv, Overwritten, Shape
<1>5. QED
  BY <1>1, <1>2, <1>3, <1>4 DEF OtherStep, Overwritten, Shape

LEMMA AnswersSteps ==
  ASSUME Shape, FreshInv, NEW j \in Jobs,
         Recheck(j) \/ Cancel(j) \/ RetryMigration(j) \/ AbandonMigration(j)
  PROVE  OtherStep
<1> USE DEF Rows, HasData, Without, NoCk, RemovalStages
<1>0. /\ {"waiting_download", "copy_legacy_reconcile", "copy_submitting", "source_removing",
          "copy_verified", "qb_reconcile", "cancelled"} \subseteq Stages
      /\ {"waiting_download", "copy_legacy_reconcile", "copy_submitting",
          "copy_verified", "cancelled"} \cap ExportedStages = {}
      /\ {"source_removing", "source_remove_manual_review", "qb_reconcile"}
           \subseteq ExportedStages
      /\ Finished \cap ({"auto_copy_paused"} \cup Review) = {}
      /\ Review = {"planning_manual_review", "copy_manual_review", "qb_manual_review",
                   "source_remove_manual_review"}
  BY DEF Stages, ExportedStages, TargetQbStages, Finished, Review, CopyStages
<1>a. job[j] \in Rows
  BY DEF Shape
<1>1. CASE Recheck(j)
  <2>1. CASE job[j].stage = "planning_manual_review"
    <3> DEFINE row == [job[j] EXCEPT !.stage = "waiting_download"]
    <3>1. row \in Rows /\ Answered(j, row)
      BY <1>0, <1>a, <1>1, <2>1 DEF Recheck
    <3>2. /\ HasData(job[j]) => HasData(row)
          /\ row.exported = job[j].exported
          /\ row.stage \notin {"source_removed", "completed"}
          /\ row.ck.op = "RemoveFile" => row.ck = job[j].ck
          /\ job[j].stage \notin Finished
          /\ Manual(j) /\ row.stage \in RemovalStages =>
               job[j].stage \in RemovalStages /\ row.cursor = job[j].cursor
      BY <1>0, <1>a, <1>1, <2>1 DEF Recheck
    <3> HIDE DEF row
    <3>3. QED
      BY <3>1, <3>2, AnsweredStep
  <2>2. CASE job[j].stage = "copy_manual_review"
    <3> DEFINE row == [job[j] EXCEPT !.stage = IF job[j].ck = NoCk THEN "copy_legacy_reconcile"
                                                      ELSE "copy_submitting"]
    <3>1. row \in Rows /\ Answered(j, row)
      BY <1>0, <1>a, <1>1, <2>2 DEF Recheck
    <3>2. /\ HasData(job[j]) => HasData(row)
          /\ row.exported = job[j].exported
          /\ row.stage \notin {"source_removed", "completed"}
          /\ row.ck.op = "RemoveFile" => row.ck = job[j].ck
          /\ job[j].stage \notin Finished
          /\ Manual(j) /\ row.stage \in RemovalStages =>
               job[j].stage \in RemovalStages /\ row.cursor = job[j].cursor
      BY <1>0, <1>a, <1>1, <2>2 DEF Recheck
    <3> HIDE DEF row
    <3>3. QED
      BY <3>1, <3>2, AnsweredStep
  <2>3. QED
    BY <1>1, <2>1, <2>2 DEF Recheck
<1>2. CASE Cancel(j)
  <2>1. CASE TRUE
    <3> DEFINE row == CancelledRow(job[j])
    <3>1. row \in Rows /\ Answered(j, row)
      BY <1>0, <1>a, <1>2, <2>1 DEF Cancel, CancelledRow
    <3>2. /\ HasData(job[j]) => HasData(row)
          /\ row.exported = job[j].exported
          /\ row.stage \notin {"source_removed", "completed"}
          /\ row.ck.op = "RemoveFile" => row.ck = job[j].ck
          /\ job[j].stage \notin Finished
          /\ Manual(j) /\ row.stage \in RemovalStages =>
               job[j].stage \in RemovalStages /\ row.cursor = job[j].cursor
      BY <1>0, <1>a, <1>2, <2>1 DEF Cancel, CancelledRow
    <3> HIDE DEF row
    <3>3. QED
      BY <3>1, <3>2, AnsweredStep
  <2>2. QED
    BY <1>2, <2>1 DEF Cancel
<1>3. CASE RetryMigration(j)
  <2>1. CASE job[j].stage = "source_remove_manual_review"
    <3> DEFINE row == [job[j] EXCEPT !.stage = "source_removing", !.tasks = 0, !.lock = FALSE]
    <3>1. row \in Rows /\ Answered(j, row)
      BY <1>0, <1>a, <1>3, <2>1 DEF RetryMigration
    <3>2. /\ HasData(job[j]) => HasData(row)
          /\ row.exported = job[j].exported
          /\ row.stage \notin {"source_removed", "completed"}
          /\ row.ck.op = "RemoveFile" => row.ck = job[j].ck
          /\ job[j].stage \notin Finished
          /\ Manual(j) /\ row.stage \in RemovalStages =>
               job[j].stage \in RemovalStages /\ row.cursor = job[j].cursor
      BY <1>0, <1>a, <1>3, <2>1 DEF RetryMigration
    <3> HIDE DEF row
    <3>3. QED
      BY <3>1, <3>2, AnsweredStep
  <2>2. CASE job[j].stage = "qb_manual_review"
    <3> DEFINE row == [Without(job[j]) EXCEPT !.stage =
                         IF ~job[j].planned THEN "waiting_download"
                         ELSE IF ~job[j].exported THEN "copy_verified"
                         ELSE "qb_reconcile"]
    <3>1. row \in Rows /\ Answered(j, row)
      BY <1>0, <1>a, <1>3, <2>2 DEF RetryMigration
    <3>2. /\ HasData(job[j]) => HasData(row)
          /\ row.exported = job[j].exported
          /\ row.stage \notin {"source_removed", "completed"}
          /\ row.ck.op = "RemoveFile" => row.ck = job[j].ck
          /\ job[j].stage \notin Finished
          /\ Manual(j) /\ row.stage \in RemovalStages =>
               job[j].stage \in RemovalStages /\ row.cursor = job[j].cursor
      BY <1>0, <1>a, <1>3, <2>2 DEF RetryMigration
    <3> HIDE DEF row
    <3>3. QED
      BY <3>1, <3>2, AnsweredStep
  <2>3. QED
    BY <1>3, <2>1, <2>2 DEF RetryMigration
<1>4. CASE AbandonMigration(j)
  <2>1. CASE TRUE
    <3> DEFINE row == [job[j] EXCEPT !.stage = "cancelled", !.lock = FALSE]
    <3>1. row \in Rows /\ Answered(j, row)
      BY <1>0, <1>a, <1>4, <2>1 DEF AbandonMigration
    <3>2. /\ HasData(job[j]) => HasData(row)
          /\ row.exported = job[j].exported
          /\ row.stage \notin {"source_removed", "completed"}
          /\ row.ck.op = "RemoveFile" => row.ck = job[j].ck
          /\ job[j].stage \notin Finished
          /\ Manual(j) /\ row.stage \in RemovalStages =>
               job[j].stage \in RemovalStages /\ row.cursor = job[j].cursor
      BY <1>0, <1>a, <1>4, <2>1 DEF AbandonMigration
    <3> HIDE DEF row
    <3>3. QED
      BY <3>1, <3>2, AnsweredStep
  <2>2. QED
    BY <1>4, <2>1 DEF AbandonMigration
<1>5. QED
  BY <1>1, <1>2, <1>3, <1>4


LEMMA LoopSteps ==
  ASSUME Shape, FreshInv,
         \/ \E new \in SUBSET Jobs : Tick(new) \/ ScanNow(new)
         \/ \E j \in Jobs : Claim(j) \/ LeaseExpires(j)
         \/ Fail \/ Crash
  PROVE  OtherStep
<1> USE DEF Rows, HasData
<1>1. ASSUME NEW new \in SUBSET Jobs, Tick(new) PROVE OtherStep
  <2>1. Enqueue(new) /\ worker' = worker
    BY <1>1 DEF Tick
  <2>2. QED
    BY <1>1, <2>1, EnqueueRows DEF Tick, OtherStep, Shape, FreshInv
<1>2. ASSUME NEW new \in SUBSET Jobs, ScanNow(new) PROVE OtherStep
  <2>1. Enqueue(new) /\ worker' \in {worker, [worker EXCEPT !.fresh = FALSE]}
    BY <1>2 DEF ScanNow
  <2>2. /\ job' \in [Jobs -> Rows]
        /\ \A j \in Jobs : RowKept(j)
        /\ worker.pc # "idle" /\ worker.fresh => job'[worker.job].stage \notin Finished
    BY <2>1, EnqueueRows
  <2>3. FreshInv'
    BY <2>1, <2>2 DEF FreshInv, Shape
  <2>4. QED
    BY <1>2, <2>1, <2>2, <2>3 DEF ScanNow, OtherStep, Shape
<1>3. ASSUME NEW j \in Jobs, Claim(j) PROVE OtherStep
  <2>1. /\ job' = [job EXCEPT ![j].leased = TRUE]
        /\ job[j].stage \notin Finished
        /\ worker' = [pc |-> "claimed", job |-> j, fresh |-> TRUE, next |-> NoRow]
        /\ UNCHANGED <<setup, config>>
    BY <1>3 DEF Claim, Claimable
  <2>a. \A k \in Jobs : job'[k] = IF k = j THEN [job[k] EXCEPT !.leased = TRUE] ELSE job[k]
    BY <2>1 DEF Shape
  <2>b. \A k \in Jobs : job[k] \in Rows
    BY DEF Shape
  <2>c. ASSUME NEW row \in Rows, NEW leased \in BOOLEAN
        PROVE  LET new == [row EXCEPT !.leased = leased] IN
               /\ new \in Rows /\ new.stage = row.stage
               /\ new.exported = row.exported /\ new.ck = row.ck /\ new.cursor = row.cursor
    OBVIOUS
  <2>2. \A k \in Jobs : /\ job'[k] \in Rows /\ job'[k].stage = job[k].stage
                        /\ job'[k].exported = job[k].exported /\ job'[k].ck = job[k].ck
                        /\ job'[k].cursor = job[k].cursor
    <3> HIDE DEF Rows
    <3>1. QED
      BY <2>a, <2>b, <2>c
  <2>3. job' \in [Jobs -> Rows]
    BY <2>1, <2>2 DEF Shape
  <2>4. \A k \in Jobs : RowKept(k)
    BY <2>2 DEF RowKept
  <2>5. FreshInv'
    BY <2>1, <2>2 DEF FreshInv
  <2> HIDE DEF Rows
  <2>6. QED
    BY <2>1, <2>3, <2>4, <2>5 DEF OtherStep, Shape
<1>4. ASSUME NEW j \in Jobs, LeaseExpires(j) PROVE OtherStep
  <2>1. job' = [job EXCEPT ![j].leased = FALSE] /\ UNCHANGED <<setup, config, worker>>
    BY <1>4 DEF LeaseExpires
  <2>a. \A k \in Jobs : job'[k] = IF k = j THEN [job[k] EXCEPT !.leased = FALSE] ELSE job[k]
    BY <2>1 DEF Shape
  <2>b. \A k \in Jobs : job[k] \in Rows
    BY DEF Shape
  <2>c. ASSUME NEW row \in Rows, NEW leased \in BOOLEAN
        PROVE  LET new == [row EXCEPT !.leased = leased] IN
               /\ new \in Rows /\ new.stage = row.stage
               /\ new.exported = row.exported /\ new.ck = row.ck /\ new.cursor = row.cursor
    OBVIOUS
  <2>2. \A k \in Jobs : /\ job'[k] \in Rows /\ job'[k].stage = job[k].stage
                        /\ job'[k].exported = job[k].exported /\ job'[k].ck = job[k].ck
                        /\ job'[k].cursor = job[k].cursor
    <3> HIDE DEF Rows
    <3>1. QED
      BY <2>a, <2>b, <2>c
  <2>3. job' \in [Jobs -> Rows]
    BY <2>1, <2>2 DEF Shape
  <2>4. QED
    BY <2>1, <2>2, <2>3 DEF OtherStep, RowKept, FreshInv, Shape
<1>5. CASE Fail
  <2>1. CASE ~Owns(worker.job)
    BY <1>5, <2>1, UnchangedRow DEF Fail, OtherStep, Shape, FreshInv, Idle
  <2>2. CASE Owns(worker.job)
    <3> DEFINE j == worker.job
    <3>1. j \in Jobs /\ job[j].stage \notin Finished /\ job[j] \in Rows
      BY <1>5, <2>2 DEF Fail, Owns, FreshInv, Shape
    <3>2. PICK row \in Retried(j) : job' = [job EXCEPT ![j] = row]
      BY <1>5, <2>2 DEF Fail
    <3>3. /\ ReviewOf(j) \in Stages /\ ReviewOf(j) \notin Finished
          /\ ReviewOf(j) \notin {"source_removed", "completed"}
          /\ ReviewOf(j) \in ExportedStages => job[j].stage \in ExportedStages
          /\ ReviewOf(j) \in RemovalStages => job[j].stage \in RemovalStages
      BY DEF ReviewOf, Stages, Review, Finished, ExportedStages, TargetQbStages, RemovalStages
    <3>4. /\ row \in Rows /\ row.exported = job[j].exported /\ row.ck = job[j].ck
          /\ row.cursor = job[j].cursor
          /\ row.stage \in {job[j].stage, ReviewOf(j)}
      BY <3>1, <3>2, <3>3 DEF Retried
    <3> HIDE DEF j
    <3>5. \A k \in Jobs : RowKept(k)
      BY <3>1, <3>2, <3>3, <3>4, UnchangedRow DEF RowKept, Shape
    <3>6. job' \in [Jobs -> Rows]
      BY <3>2, <3>4 DEF Shape
    <3>7. QED
      BY <1>5, <3>5, <3>6 DEF Fail, OtherStep, Shape, FreshInv, Idle
  <2>3. QED
    BY <2>1, <2>2
<1>6. CASE Crash
  BY <1>6, UnchangedRow DEF Crash, OtherStep, Shape, FreshInv, Idle
<1>7. QED
  BY <1>1, <1>2, <1>3, <1>4, <1>5, <1>6

LEMMA PeopleSteps ==
  ASSUME Shape, FreshInv, PeopleStep
  PROVE  OtherStep /\ UNCHANGED <<copyVars, qbVars>>
<1> USE DEF Rows, HasData
<1>1. CASE SaveSettings
  BY <1>1, UnchangedRow DEF SaveSettings, OtherStep, Shape, FreshInv
<1>2. CASE StopAutomatic
  <2>0. /\ {"cancelled", "completed"} \subseteq Finished /\ Finished \subseteq Stages
        /\ Finished = {"cancelled", "completed"}
        /\ {"cancelled", "completed"} \cap ExportedStages = {}
    BY DEF Finished, Stages, ExportedStages, TargetQbStages
  <2>1. ASSUME NEW j \in Jobs PROVE job'[j] \in Rows /\ RowKept(j)
    <3>1. job[j] \in Rows
      BY DEF Shape
    <3>2. CASE j \in ToStop
      <4>0. ~Manual(j)
        BY <3>2 DEF ToStop, Manual
      <4>1. job'[j] = [CancelledRow(job[j]) EXCEPT !.leased = FALSE,
              !.stage = IF job[j].stage = "completed" THEN "completed" ELSE "cancelled"]
        BY <1>2, <3>2 DEF StopAutomatic
      <4> DEFINE row == CancelledRow(job[j])
      <4>2. /\ row \in Rows /\ row.exported = job[j].exported /\ row.ck = NoCk
        BY <2>0, <3>1 DEF CancelledRow, Without, NoCk
      <4> HIDE DEF row
      <4>3. /\ job'[j] \in Rows /\ job'[j].exported = job[j].exported /\ job'[j].ck = NoCk
            /\ job'[j].stage = IF job[j].stage = "completed" THEN "completed" ELSE "cancelled"
        BY <2>0, <4>1, <4>2 DEF row
      <4>4. job[j].stage \in Finished => job'[j].stage = job[j].stage
        BY <1>2, <2>0, <4>3
      <4>5. QED
        BY <2>0, <4>0, <4>3, <4>4 DEF RowKept, NoCk
    <3>3. CASE j \notin ToStop
      BY <1>2, <3>1, <3>3, UnchangedRow DEF StopAutomatic
    <3>4. QED
      BY <3>2, <3>3
  <2>2. job' \in [Jobs -> Rows]
    BY <1>2, <2>1 DEF StopAutomatic
  <2>3. FreshInv'
    BY <1>2 DEF StopAutomatic, FreshInv, Shape
  <2>4. QED
    BY <1>2, <2>1, <2>2, <2>3 DEF StopAutomatic, OtherStep, Shape
<1>3. ASSUME NEW j \in Jobs, EnqueueManual(j) PROVE OtherStep /\ UNCHANGED <<copyVars, qbVars>>
  <2>0. "waiting_download" \in Stages /\ "waiting_download" \notin ExportedStages \cup Finished
        /\ "none" \notin Finished /\ "waiting_download" \notin RemovalStages
    BY DEF RemovalStages, Finished, Stages, ExportedStages, TargetQbStages
  <2>1. /\ job[j].stage = "none" /\ job' = [job EXCEPT ![j].stage = "waiting_download"]
        /\ UNCHANGED <<setup, config, worker, copyVars, qbVars>>
    BY <1>3 DEF EnqueueManual
  <2>a. \A k \in Jobs :
          job'[k] = IF k = j THEN [job[k] EXCEPT !.stage = "waiting_download"] ELSE job[k]
    BY <2>1 DEF Shape
  <2>b. \A k \in Jobs : job[k] \in Rows
    BY DEF Shape
  <2>2. \A k \in Jobs : /\ job'[k] \in Rows /\ job'[k].exported = job[k].exported
                        /\ job'[k].ck = job[k].ck /\ job'[k].cursor = job[k].cursor
                        /\ job'[k].stage = job[k].stage
                             \/ (job[k].stage = "none" /\ job'[k].stage = "waiting_download")
    BY <2>0, <2>1, <2>a, <2>b
  <2>3. job' \in [Jobs -> Rows]
    BY <2>1, <2>2 DEF Shape
  <2>4. \A k \in Jobs : RowKept(k)
    BY <2>0, <2>2 DEF RowKept
  <2>5. FreshInv'
    BY <2>0, <2>1, <2>2 DEF FreshInv, Shape
  <2>6. QED
    BY <2>1, <2>3, <2>4, <2>5 DEF OtherStep, Shape
<1>4. ASSUME NEW j \in Jobs,
             Recheck(j) \/ Cancel(j) \/ RetryMigration(j) \/ AbandonMigration(j)
      PROVE  OtherStep /\ UNCHANGED <<copyVars, qbVars>>
  <2>1. OtherStep
    BY <1>4, AnswersSteps
  <2>2. UNCHANGED <<copyVars, qbVars>>
    BY <1>4 DEF Recheck, Cancel, RetryMigration, AbandonMigration, Answered
  <2>3. QED
    BY <2>1, <2>2
<1>5. ASSUME NEW new \in SUBSET Jobs, ScanNow(new) /\ UNCHANGED <<copyVars, qbVars, stopped>>
      PROVE  OtherStep /\ UNCHANGED <<copyVars, qbVars>>
  BY <1>5, LoopSteps
<1>6. ASSUME NEW j \in Jobs, DeleteAutomatic(j) PROVE OtherStep /\ UNCHANGED <<copyVars, qbVars>>
  <2>0. /\ "cancelled" \in Finished \cap Stages
        /\ "cancelled" \notin ExportedStages \cup {"source_removed", "completed"}
    BY DEF Finished, Stages, ExportedStages, TargetQbStages
  <2>1. /\ job[j].stage \notin Finished /\ job[j] \in Rows /\ ~Manual(j)
        /\ job' = [job EXCEPT ![j] = [CancelledRow(job[j]) EXCEPT !.leased = FALSE]]
        /\ UNCHANGED <<setup, config, copyVars, qbVars>>
        /\ worker' = Overwritten(j)
    BY <1>6 DEF DeleteAutomatic, Shape, Manual
  <2>2. \A k \in Jobs : k # j => job'[k] = job[k]
    BY <2>1 DEF Shape
  <2>3. /\ job'[j] \in Rows /\ job'[j].exported = job[j].exported /\ job'[j].ck = NoCk
        /\ job'[j].stage = "cancelled"
    <3> DEFINE row == CancelledRow(job[j])
    <3>1. row \in Rows /\ row.exported = job[j].exported /\ row.ck = NoCk /\ row.stage = "cancelled"
      BY <2>0, <2>1 DEF CancelledRow, Without, NoCk
    <3>2. job'[j] = [row EXCEPT !.leased = FALSE]
      BY <2>1 DEF Shape
    <3> HIDE DEF row
    <3>3. QED
      BY <3>1, <3>2
  <2>4. \A k \in Jobs : RowKept(k)
    <3>1. RowKept(j)
      BY <2>0, <2>1, <2>3 DEF RowKept, NoCk
    <3>2. QED
      BY <2>2, <3>1, UnchangedRow
  <2>5. job' \in [Jobs -> Rows]
    BY <2>1, <2>2, <2>3 DEF Shape
  <2>6. FreshInv'
    BY <2>1, <2>2 DEF FreshInv, Overwritten, Shape
  <2>7. QED
    BY <2>1, <2>4, <2>5, <2>6 DEF OtherStep, Overwritten, Shape
<1>7. QED
  BY <1>1, <1>2, <1>3, <1>4, <1>5, <1>6 DEF PeopleStep

-----------------------------------------------------------------------------
(* The kinds of steps there are.                                           *)

PassKinds(j) ==
  \/ /\ CopyDecides(j) \/ AcquireLock(j) \/ CheckpointSubmission(j) \/ Send(j) \/ CopyAnswered(j)
     /\ UNCHANGED qbVars
  \/ QbDecides(j) \/ DropFromSource(j) \/ CheckpointRemoval(j) \/ SendRemoval(j)
  \/ RemovalUnneeded(j)

Kinds ==
  \/ OtherStep /\ UNCHANGED <<copyVars, qbVars>>
  \/ Commit /\ UNCHANGED <<copyVars, qbVars>>
  \/ \E j \in Jobs : PassKinds(j)
  \/ OutsideStep

LEMMA NextKinds ==
  ASSUME Shape, FreshInv, \A j \in Jobs : Founded(j), Next
  PROVE  Kinds
<1>1. CASE LoopStep
  BY <1>1, LoopSteps DEF LoopStep, Kinds
<1>2. CASE PassStep
  <2>1. PICK j \in Jobs : \/ CopyPass(j) /\ UNCHANGED <<qbVars, stopped>>
                          \/ QbPass(j) /\ UNCHANGED stopped
    BY <1>2 DEF PassStep
  <2>2. CASE CopyPass(j) /\ UNCHANGED <<qbVars, stopped>>
    <3>1. CopyDecides(j) \/ AcquireLock(j) \/ CheckpointSubmission(j) \/ Send(j) \/ CopyAnswered(j)
      BY <2>2, PlanningSteps, CopyingSteps, AnswerSteps DEF CopyPass
    <3>2. QED
      BY <2>2, <3>1 DEF Kinds, PassKinds
  <2>3. CASE QbPass(j) /\ UNCHANGED stopped
    <3>1. Founded(j)
      OBVIOUS
    <3>2. PassKinds(j)
      BY <2>3, <3>1, HandoverSteps DEF QbPass, PassKinds
    <3>3. QED
      BY <3>2 DEF Kinds
  <2>4. QED
    BY <2>1, <2>2, <2>3
<1>3. CASE PeopleStep
  BY <1>3, PeopleSteps DEF Kinds
<1>4. CASE OutsideStep
  BY <1>4 DEF Kinds
<1>5. QED
  BY <1>1, <1>2, <1>3, <1>4 DEF Next


(* The two checkpoints: the row and the pass agree on what is about to be  *)
(* sent.                                                                   *)
Checkpointed(j, ck) ==
  /\ job[j].stage \in {"copy_submitting", "source_removing"}
  /\ job' \in [Jobs -> Rows]
  /\ \A k \in Jobs : k # j => job'[k] = job[k]
  /\ job'[j].stage = job[j].stage /\ job'[j].exported = job[j].exported
  /\ job'[j].ck = ck /\ job'[j].cursor = job[j].cursor
  /\ worker.pc = "claimed" /\ worker.job = j
  /\ \E row \in Rows :
       /\ row.stage = job[j].stage /\ row.exported = job[j].exported
       /\ row.ck = ck /\ row.cursor = job[j].cursor
       /\ worker' = [worker EXCEPT !.pc = "sending", !.next = row]
  /\ UNCHANGED <<setup, config, copyVars, qbVars>>

LEMMA CheckpointSteps ==
  ASSUME Shape, NEW j \in Jobs
  PROVE  /\ CheckpointSubmission(j) /\ UNCHANGED qbVars =>
              \E ck \in [op : {"none", "CopyFile", "CreateDirectory", "RemoveFile",
                               "ReviewExisting"}, phase : {"Uncertain"}] :
                Checkpointed(j, ck) /\ ck.op = job[j].ck.op /\ job[j].ck.phase = "Prepared"
         /\ CheckpointRemoval(j) =>
              /\ Checkpointed(j, [op |-> "RemoveFile", phase |-> "Uncertain"])
              /\ OwnFile(j)
<1>a. job[j] \in Rows
  BY DEF Shape
<1>1. ASSUME NEW ck \in [op : {"none", "CopyFile", "CreateDirectory", "RemoveFile",
                               "ReviewExisting"}, phase : {"none", "Prepared", "Uncertain"}],
             job' = [job EXCEPT ![j].ck = ck],
             worker' = [worker EXCEPT !.pc = "sending", !.next = [job'[j] EXCEPT !.leased = FALSE]],
             job[j].stage \in {"copy_submitting", "source_removing"},
             worker.pc = "claimed", worker.job = j,
             UNCHANGED <<setup, config, copyVars, qbVars>>
      PROVE  Checkpointed(j, ck)
  <2> DEFINE row == [job[j] EXCEPT !.ck = ck]
  <2> DEFINE next == [row EXCEPT !.leased = FALSE]
  <2>1. row \in Rows /\ row.stage = job[j].stage /\ row.exported = job[j].exported
        /\ row.ck = ck /\ row.cursor = job[j].cursor
    BY <1>a DEF Rows
  <2> HIDE DEF row
  <2>2. next \in Rows /\ next.stage = row.stage /\ next.exported = row.exported
        /\ next.ck = row.ck /\ next.cursor = row.cursor
    BY <2>1 DEF Rows
  <2>3. job' = [job EXCEPT ![j] = row]
    BY <1>1 DEF row, Shape
  <2>4. job'[j] = row /\ job' \in [Jobs -> Rows] /\ \A k \in Jobs : k # j => job'[k] = job[k]
    BY <2>1, <2>3 DEF Shape
  <2>5. worker' = [worker EXCEPT !.pc = "sending", !.next = next]
    BY <1>1, <2>4
  <2> HIDE DEF next
  <2>6. \E new \in Rows :
          /\ new.stage = job[j].stage /\ new.exported = job[j].exported
          /\ new.ck = ck /\ new.cursor = job[j].cursor
          /\ worker' = [worker EXCEPT !.pc = "sending", !.next = new]
    BY <2>1, <2>2, <2>5
  <2>7. job'[j].stage = job[j].stage /\ job'[j].exported = job[j].exported /\ job'[j].ck = ck
        /\ job'[j].cursor = job[j].cursor
    BY <2>1, <2>4
  <2>8. QED
    BY <1>1, <2>4, <2>6, <2>7 DEF Checkpointed
<1>2. ASSUME CheckpointSubmission(j), UNCHANGED qbVars
      PROVE  \E ck \in [op : {"none", "CopyFile", "CreateDirectory", "RemoveFile",
                               "ReviewExisting"}, phase : {"Uncertain"}] :
                Checkpointed(j, ck) /\ ck.op = job[j].ck.op /\ job[j].ck.phase = "Prepared"
  <2> DEFINE ck == [op |-> job[j].ck.op, phase |-> "Uncertain"]
  <2>1. ck \in [op : {"none", "CopyFile", "CreateDirectory", "RemoveFile",
                      "ReviewExisting"}, phase : {"Uncertain"}]
    BY <1>a DEF Rows
  <2>2. [job[j].ck EXCEPT !.phase = "Uncertain"] = ck
    BY <1>a DEF Rows
  <2>3. job' = [job EXCEPT ![j].ck = ck]
    BY <1>2, <2>2 DEF CheckpointSubmission, Shape
  <2>4. job[j].ck.phase = "Prepared" /\ job[j].stage = "copy_submitting"
        /\ worker.pc = "claimed" /\ worker.job = j
    BY <1>2 DEF CheckpointSubmission, Sendable, Copying, CopyWork, Working
  <2>5. Checkpointed(j, ck)
    BY <1>1, <1>2, <2>1, <2>3, <2>4 DEF CheckpointSubmission
  <2>6. QED
    BY <2>1, <2>4, <2>5
<1>3. ASSUME CheckpointRemoval(j)
      PROVE  /\ Checkpointed(j, [op |-> "RemoveFile", phase |-> "Uncertain"])
             /\ OwnFile(j)
  <2>1. job[j].stage = "source_removing" /\ worker.pc = "claimed" /\ worker.job = j
    BY <1>3 DEF CheckpointRemoval, OwnFile, AllThere, Removing, At, Working
  <2>2. QED
    BY <1>1, <1>3, <2>1 DEF CheckpointRemoval, QbUnchanged
<1>4. QED
  BY <1>2, <1>3

(* The decision of a pass.                                                 *)
LEMMA DecideFacts ==
  ASSUME Shape, NEW j \in Jobs, NEW row \in Rows, Decide(j, row)
  PROVE  /\ worker'.pc = "decided" /\ worker'.job = worker.job
         /\ worker'.fresh = worker.fresh
         /\ worker'.next \in Rows
         /\ worker'.next.stage = row.stage /\ worker'.next.exported = row.exported
         /\ worker'.next.ck = row.ck /\ worker'.next.cursor = row.cursor
         /\ worker' \in [pc : Pcs, job : {0} \cup Jobs, fresh : BOOLEAN, next : Rows]
         /\ UNCHANGED <<setup, config, job>>
<1> DEFINE next == [row EXCEPT !.leased = FALSE]
<1>1. next \in Rows /\ next.stage = row.stage /\ next.exported = row.exported
      /\ next.ck = row.ck /\ next.cursor = row.cursor
  BY DEF Rows
<1> HIDE DEF next
<1>2. worker' = [worker EXCEPT !.pc = "decided", !.next = next]
      /\ UNCHANGED <<setup, config, job>>
  BY DEF Decide, next
<1>3. worker' \in [pc : Pcs, job : {0} \cup Jobs, fresh : BOOLEAN, next : Rows]
  BY <1>1, <1>2 DEF Shape, Pcs
<1>4. worker'.next = next /\ worker'.pc = "decided" /\ worker'.job = worker.job
      /\ worker'.fresh = worker.fresh
  BY <1>2 DEF Shape
<1>5. QED
  BY <1>1, <1>2, <1>3, <1>4

LEMMA LockFacts ==
  ASSUME Shape, NEW j \in Jobs, AcquireLock(j)
  PROVE  /\ job' \in [Jobs -> Rows]
         /\ \A k \in Jobs : /\ job'[k].stage = job[k].stage /\ job'[k].ck = job[k].ck
                            /\ job'[k].exported = job[k].exported
                            /\ job'[k].cursor = job[k].cursor
         /\ UNCHANGED <<setup, config, worker, copyVars>>
<1>1. ASSUME NEW row \in Rows
      PROVE  LET new == [row EXCEPT !.lock = TRUE] IN
             /\ new \in Rows /\ new.stage = row.stage
             /\ new.exported = row.exported /\ new.ck = row.ck /\ new.cursor = row.cursor
  BY DEF Rows
<1>2. \A k \in Jobs : job[k] \in Rows
  BY DEF Shape
<1>3. \A k \in Jobs : job'[k] = IF k = j THEN [job[k] EXCEPT !.lock = TRUE] ELSE job[k]
  BY DEF AcquireLock, Shape
<1>4. \A k \in Jobs : /\ job'[k] \in Rows /\ job'[k].stage = job[k].stage
                      /\ job'[k].ck = job[k].ck /\ job'[k].exported = job[k].exported
                      /\ job'[k].cursor = job[k].cursor
  BY <1>1, <1>2, <1>3
<1>5. job' \in [Jobs -> Rows]
  BY <1>4 DEF AcquireLock, Shape
<1>6. QED
  BY <1>4, <1>5 DEF AcquireLock


-----------------------------------------------------------------------------
(* The invariants.                                                         *)

(* What is at the target, at the source and in the way of removal.         *)
AskedToRemove == worker.pc = "sending" /\ worker.next.ck.op = "RemoveFile"

UncertainRemoval(row) == row.ck.op = "RemoveFile" => row.ck.phase = "Uncertain"

AskedForOwn ==
  AskedToRemove => worker.next.cursor + 1 \in Files(worker.job) \ setup[worker.job].shared

Placed(j) ==
  \A f \in Files(j) :
    /\ removal[j][f] = "flying" => target[j][f] = "same" /\ f \notin setup[j].shared
    /\ f \in source[j] \/ (target[j][f] = "same" /\ f \notin setup[j].shared)

RemovalInv ==
  /\ \A j \in Jobs : UncertainRemoval(job[j])
  /\ UncertainRemoval(worker.next)
  /\ AskedForOwn
  /\ \A j \in Jobs : Placed(j)

(* An automatic job that is, or is about to be, completed.                 *)
CopyInv ==
  /\ \A j \in Jobs : ~Manual(j) /\ job[j].stage = "completed" => AllSame(j)
  /\ worker.pc # "idle" /\ ~Manual(worker.job) /\ worker.next.stage = "completed"
       => AllSame(worker.job)

(* Where the torrent and its data are.                                     *)
DataInv ==
  /\ \A j \in Jobs :
       /\ Founded(j)
       /\ Manual(j) /\ job[j].stage = "completed" => qb[j].tgt # "none"
       /\ Manual(j) /\ qb[j].src # "listed" => job[j].exported \/ job[j].stage = "completed"
  /\ worker.pc \in {"sending", "sent"} => worker.next.stage # "completed"
  /\ worker.pc \in {"sending", "sent", "decided"} =>
       /\ HasData(worker.next)
       /\ worker.next.stage = "source_removed" => qb[worker.job].tgt # "none"
       /\ Manual(worker.job) /\ worker.next.stage = "completed" => qb[worker.job].tgt # "none"
       /\ worker.fresh /\ job[worker.job].exported
            => worker.next.exported \/ worker.next.stage = "completed"

Inv == Shape /\ FreshInv /\ RemovalInv /\ CopyInv /\ DataInv

WorkerRecord == [pc : Pcs, job : {0} \cup Jobs, fresh : BOOLEAN, next : Rows]

LEMMA InitInv == Init => Inv
<1> SUFFICES ASSUME Init PROVE Inv
  OBVIOUS
<1> USE DEF Init, JobsInit, CopyInit, QbInit
<1>1. setup \in [Jobs -> [kind : {"auto", "manual", "none"}, same : BOOLEAN,
                         hashed : BOOLEAN, files : AllFiles, shared : SUBSET AllFiles,
                         foreign : SUBSET AllFiles, dir : BOOLEAN]]
  BY SetupsAssumption
<1>2. Shape
  <2>1. \A j \in Jobs : Files(j) \in SUBSET AllFiles
    BY <1>1, JobsAssumption DEF Files, AllFiles
  <2>2. worker \in WorkerRecord /\ job \in [Jobs -> Rows]
    BY NoRowIsRow DEF Idle, Pcs, WorkerRecord
  <2>3. source \in [Jobs -> SUBSET AllFiles]
    BY <2>1
  <2>4. QED
    BY <1>1, <2>2, <2>3 DEF Shape, Idle, Content, SourceStates, TargetStates, WorkerRecord
<1>3. \A j \in Jobs : job[j].stage = "none" /\ job[j].ck.op = "none" /\ Founded(j)
  BY DEF NoRow, NoCk, Founded, HasData, ExportedStages, TargetQbStages
<1>4. FreshInv
  BY DEF FreshInv, Idle
<1>5. RemovalInv
  <2>1. \A j \in Jobs : Files(j) \subseteq AllFiles
    BY <1>1, JobsAssumption DEF Files, AllFiles
  <2>2. \A j \in Jobs : \A f \in Files(j) : removal[j][f] = "none" /\ f \in source[j]
    BY <2>1
  <2>3. worker.pc = "idle"
    BY DEF Idle
  <2>4. QED
    BY <1>3, <2>2, <2>3 DEF RemovalInv, UncertainRemoval, AskedForOwn, AskedToRemove, Placed,
                             Idle, NoRow, NoCk
<1>6. CopyInv
  BY <1>3 DEF CopyInv, Idle
<1>7. DataInv
  BY <1>3 DEF DataInv, Idle
<1>8. QED
  BY <1>2, <1>4, <1>5, <1>6, <1>7 DEF Inv

(* What OpenList and other people do leaves rows and the pass alone.       *)
LEMMA OutsideShape ==
  ASSUME Shape, OutsideStep
  PROVE  /\ UNCHANGED jobVars
         /\ source' \in [Jobs -> SUBSET AllFiles]
         /\ target' \in [Jobs -> [AllFiles -> Content]]
         /\ qb' \in [Jobs -> [src : SourceStates, tgt : TargetStates]]
         /\ removal' \in [Jobs -> [AllFiles -> {"none", "flying"}]]
<1> USE DEF EnvUnchanged, RemovalsUnchanged, QbUnchanged, copyVars, qbVars
<1>a. \A j \in Jobs : Files(j) \subseteq AllFiles
  BY JobsAssumption DEF Shape, Files, AllFiles
<1>b. ASSUME NEW j \in Jobs, NEW f \in AllFiles, NEW content \in Content
      PROVE  [target EXCEPT ![j][f] = content] \in [Jobs -> [AllFiles -> Content]]
  BY DEF Shape
<1>c. ASSUME NEW j \in Jobs, NEW src \in SourceStates
      PROVE  [qb EXCEPT ![j].src = src] \in [Jobs -> [src : SourceStates, tgt : TargetStates]]
  BY DEF Shape
<1>d. ASSUME NEW j \in Jobs, NEW tgt \in TargetStates
      PROVE  [qb EXCEPT ![j].tgt = tgt] \in [Jobs -> [src : SourceStates, tgt : TargetStates]]
  BY DEF Shape
<1>1. CASE OpenListStep /\ UNCHANGED <<qbVars, stopped>>
  <2>1. PICK j \in Jobs :
         \/ TakeDirectory(j)
         \/ \E i \in Items : Arrive(j, i) \/ Lose(j, i)
         \/ \E f \in Files(j) : Write(j, f) \/ EndWell(j, f) \/ EndBadly(j, f)
                                \/ PutForeign(j, f, "same") \/ PutForeign(j, f, "other")
    BY <1>1 DEF OpenListStep
  <2>2. CASE TakeDirectory(j) \/ \E i \in Items : Arrive(j, i) \/ Lose(j, i)
    BY <1>1, <2>2 DEF TakeDirectory, Arrive, Lose, Shape
  <2>3. ASSUME NEW f \in Files(j),
               Write(j, f) \/ EndWell(j, f) \/ EndBadly(j, f)
                 \/ PutForeign(j, f, "same") \/ PutForeign(j, f, "other")
        PROVE  /\ UNCHANGED <<jobVars, source>>
               /\ \E content \in Content : target' = [target EXCEPT ![j][f] = content]
    <3>1. target[j][f] \in Content /\ target = [target EXCEPT ![j][f] = target[j][f]]
      BY <1>a DEF Shape
    <3>2. {"partial", "same", "other", Copied(target[j][f]), target[j][f]} \subseteq Content
      BY <3>1 DEF Content, Copied
    <3>3. QED
      BY <2>3, <3>1, <3>2 DEF Write, EndWell, EndBadly, PutForeign
  <2>4. ASSUME NEW f \in Files(j),
               Write(j, f) \/ EndWell(j, f) \/ EndBadly(j, f)
                 \/ PutForeign(j, f, "same") \/ PutForeign(j, f, "other")
        PROVE  UNCHANGED <<jobVars, source>> /\ target' \in [Jobs -> [AllFiles -> Content]]
    BY <1>a, <1>b, <2>3, <2>4
  <2>5. QED
    BY <1>1, <2>1, <2>2, <2>4 DEF Shape
<1>2. CASE QbStep /\ UNCHANGED stopped
  <2>1. PICK j \in Jobs :
         \/ Leaves(j) \/ Checked(j) \/ StartsSeeding(j) \/ AddElsewhere(j) \/ Mislay(j)
         \/ \E f \in Files(j) : Remove(j, f) \/ LoseRemoval(j, f) \/ Replace(j, f)
                                \/ TakeSource(j, f)
    BY <1>2 DEF QbStep
  <2>2. CASE Leaves(j)
    BY <1>c, <2>2 DEF Leaves, Shape, SourceStates
  <2>3. CASE Checked(j) \/ StartsSeeding(j) \/ AddElsewhere(j) \/ Mislay(j)
    <3>1. {"complete", "incomplete", "seeding", "astray", "none"} \subseteq TargetStates
      BY DEF TargetStates
    <3>2. UNCHANGED jobVars /\ RemovalsUnchanged
      BY <2>3 DEF Checked, StartsSeeding, AddElsewhere, Mislay
    <3>3. \E tgt \in TargetStates : qb' = [qb EXCEPT ![j].tgt = tgt]
      BY <2>3, <3>1 DEF Checked, StartsSeeding, AddElsewhere, Mislay
    <3>4. QED
      BY <1>d, <3>2, <3>3 DEF Shape
  <2>4. ASSUME NEW f \in Files(j),
               Remove(j, f) \/ LoseRemoval(j, f) \/ Replace(j, f) \/ TakeSource(j, f)
        PROVE  /\ UNCHANGED <<jobVars, qb>>
               /\ source' \in [Jobs -> SUBSET AllFiles]
               /\ target' \in [Jobs -> [AllFiles -> Content]]
               /\ removal' \in [Jobs -> [AllFiles -> {"none", "flying"}]]
    <3>1. f \in AllFiles /\ "other" \in Content
      BY <1>a DEF Content
    <3>2. [removal EXCEPT ![j][f] = "none"] \in [Jobs -> [AllFiles -> {"none", "flying"}]]
      BY <3>1 DEF Shape
    <3>3. [source EXCEPT ![j] = @ \ {f}] \in [Jobs -> SUBSET AllFiles]
      BY DEF Shape
    <3>4. [target EXCEPT ![j][f] = "other"] \in [Jobs -> [AllFiles -> Content]]
      BY <1>b, <3>1
    <3>5. CASE Remove(j, f) \/ LoseRemoval(j, f)
      BY <3>2, <3>3, <3>5 DEF Remove, LoseRemoval, Shape
    <3>6. CASE Replace(j, f) \/ TakeSource(j, f)
      BY <3>3, <3>4, <3>6 DEF Replace, TakeSource, Shape
    <3>7. QED
      BY <2>4, <3>5, <3>6
  <2>5. QED
    BY <2>1, <2>2, <2>3, <2>4 DEF Shape
<1>3. QED
  BY <1>1, <1>2 DEF OutsideStep

LEMMA ShapeStep ==
  ASSUME Shape, Kinds
  PROVE  Shape'
<1>1. CASE OtherStep /\ UNCHANGED <<copyVars, qbVars>>
  <2>1. worker' \in WorkerRecord /\ (worker'.pc # "idle" => worker'.job \in Jobs)
    <3>1. CASE worker' \in {worker, [worker EXCEPT !.fresh = FALSE]}
      BY <3>1 DEF Shape, WorkerRecord
    <3>2. CASE worker' = Idle
      BY <3>2, NoRowIsRow DEF Idle, Pcs, WorkerRecord
    <3>3. ASSUME NEW j \in Jobs,
                 worker' = [pc |-> "claimed", job |-> j, fresh |-> TRUE, next |-> NoRow]
          PROVE  worker' \in WorkerRecord /\ worker'.job \in Jobs
      BY <3>3, NoRowIsRow DEF Pcs, WorkerRecord
    <3>4. QED
      BY <1>1, <3>1, <3>2, <3>3 DEF OtherStep
  <2>2. QED
    BY <1>1, <2>1 DEF OtherStep, Shape, WorkerRecord, copyVars, qbVars
<1>2. CASE Commit /\ UNCHANGED <<copyVars, qbVars>>
  <2>1. worker.job \in Jobs /\ worker.next \in Rows
    BY <1>2 DEF Commit, Shape
  <2>2. worker' \in WorkerRecord /\ worker'.pc = "idle"
    BY <1>2, NoRowIsRow DEF Commit, Idle, Pcs, WorkerRecord
  <2>3. QED
    BY <1>2, <2>1, <2>2 DEF Commit, Shape, WorkerRecord, copyVars, qbVars
<1>3. ASSUME NEW j \in Jobs, PassKinds(j) PROVE Shape'
  <2>1. CASE CopyDecides(j) /\ UNCHANGED qbVars
    <3>1. PICK row \in Rows : Decide(j, row) /\ worker.job = j /\ UNCHANGED copyVars
      BY <2>1 DEF CopyDecides
    <3>2. QED
      BY <2>1, <3>1, DecideFacts DEF Shape, copyVars, qbVars
  <2>2. CASE AcquireLock(j) /\ UNCHANGED qbVars
    BY <2>2, LockFacts DEF Shape, copyVars, qbVars
  <2>3. ASSUME NEW ck, Checkpointed(j, ck) PROVE Shape'
    <3>1. worker' \in WorkerRecord /\ worker'.job = j
      BY <2>3 DEF Checkpointed, Shape, WorkerRecord, Pcs
    <3>2. QED
      BY <2>3, <3>1 DEF Checkpointed, Shape, WorkerRecord, copyVars, qbVars
  <2>4. CASE (CheckpointSubmission(j) /\ UNCHANGED qbVars) \/ CheckpointRemoval(j)
    BY <2>3, <2>4, CheckpointSteps
  <2>5. CASE Send(j) /\ UNCHANGED qbVars
    <3>1. worker' \in WorkerRecord /\ worker'.job = j
      BY <2>5 DEF Send, InCopyCall, Shape, WorkerRecord, Pcs
    <3>2. QED
      BY <2>5, <3>1 DEF Send, Shape, WorkerRecord, qbVars
  <2>6. CASE CopyAnswered(j) /\ UNCHANGED qbVars
    <3>1. worker' \in WorkerRecord /\ worker'.job = j
      BY <2>6 DEF CopyAnswered, Shape, WorkerRecord, Pcs
    <3>2. QED
      BY <2>6, <3>1 DEF CopyAnswered, Shape, WorkerRecord, copyVars, qbVars
  <2>7. CASE QbDecides(j)
    <3>1. PICK row \in Rows : Decide(j, row) /\ worker.job = j /\ QbFrame(j)
      BY <2>7 DEF QbDecides
    <3>2. QED
      BY <3>1, DecideFacts DEF Shape, copyVars, QbFrame, RemovalsUnchanged
  <2>8. CASE DropFromSource(j)
    <3>1. [qb EXCEPT ![j].src = "leaving"] \in [Jobs -> [src : SourceStates, tgt : TargetStates]]
      BY DEF Shape, SourceStates
    <3>2. QED
      BY <2>8, <3>1 DEF DropFromSource, Shape, jobVars, copyVars, RemovalsUnchanged
  <2>9. CASE SendRemoval(j)
    <3>1. [removal EXCEPT ![j][InHand] = "flying"] \in [Jobs -> [AllFiles -> {"none", "flying"}]]
      BY DEF Shape
    <3>2. worker' \in WorkerRecord /\ worker'.job = j
      BY <2>9 DEF SendRemoval, InRemoval, Shape, WorkerRecord, Pcs
    <3>3. QED
      BY <2>9, <3>1, <3>2 DEF SendRemoval, Shape, WorkerRecord, copyVars
  <2>10. CASE RemovalUnneeded(j)
    <3>1. worker' \in WorkerRecord /\ worker'.job = j
      BY <2>10 DEF RemovalUnneeded, InRemoval, Shape, WorkerRecord, Pcs
    <3>2. QED
      BY <2>10, <3>1 DEF RemovalUnneeded, Shape, WorkerRecord, copyVars, qbVars, QbUnchanged
  <2>11. QED
    BY <1>3, <2>1, <2>2, <2>4, <2>5, <2>6, <2>7, <2>8, <2>9, <2>10 DEF PassKinds
<1>4. CASE OutsideStep
  BY <1>4, OutsideShape DEF Shape, jobVars
<1>5. QED
  BY <1>1, <1>2, <1>3, <1>4 DEF Kinds


LEMMA FreshStep ==
  ASSUME Shape, FreshInv, Kinds
  PROVE  FreshInv'
<1>1. CASE OtherStep
  BY <1>1 DEF OtherStep
<1>2. CASE Commit
  BY <1>2 DEF Commit, FreshInv, Idle
<1>3. ASSUME NEW j \in Jobs, PassKinds(j) PROVE FreshInv'
  <2>1. CASE CopyDecides(j) \/ QbDecides(j)
    <3>1. PICK row \in Rows : Decide(j, row) /\ worker.pc = "claimed"
      BY <2>1 DEF CopyDecides, QbDecides
    <3>2. QED
      BY <3>1, DecideFacts DEF FreshInv
  <2>2. CASE AcquireLock(j)
    BY <2>2, LockFacts DEF FreshInv, Shape
  <2>3. ASSUME NEW ck, Checkpointed(j, ck) PROVE FreshInv'
    <3>1. job'[j].stage \notin Finished /\ worker'.job = j
      BY <2>3 DEF Checkpointed, Finished, Shape
    <3>2. QED
      BY <3>1 DEF FreshInv
  <2>4. CASE (CheckpointSubmission(j) /\ UNCHANGED qbVars) \/ CheckpointRemoval(j)
    BY <2>3, <2>4, CheckpointSteps
  <2>5. CASE Send(j) \/ CopyAnswered(j) \/ SendRemoval(j) \/ RemovalUnneeded(j)
    <3>1. /\ worker'.job = worker.job /\ worker'.fresh = worker.fresh /\ worker.pc # "idle"
          /\ UNCHANGED job
      BY <2>5 DEF Send, InCopyCall, CopyAnswered, SendRemoval, InRemoval, RemovalUnneeded, Shape
    <3>2. QED
      BY <3>1 DEF FreshInv
  <2>6. CASE DropFromSource(j)
    BY <2>6 DEF DropFromSource, FreshInv, jobVars
  <2>7. QED
    BY <1>3, <2>1, <2>2, <2>4, <2>5, <2>6 DEF PassKinds
<1>4. CASE OutsideStep
  BY <1>4, OutsideShape DEF FreshInv, jobVars
<1>5. QED
  BY <1>1, <1>2, <1>3, <1>4 DEF Kinds

(* OpenList and whoever puts files at the target replace nothing.          *)
LEMMA SameStays ==
  ASSUME Shape, OpenListStep, NEW j \in Jobs, NEW f \in Files(j), target[j][f] = "same"
  PROVE  target'[j][f] = "same"
<1>a. f \in AllFiles
  BY JobsAssumption DEF Files, Shape, AllFiles
<1>1. PICK k \in Jobs :
       \/ TakeDirectory(k)
       \/ \E i \in Items : Arrive(k, i) \/ Lose(k, i)
       \/ \E g \in Files(k) : Write(k, g) \/ EndWell(k, g) \/ EndBadly(k, g)
                              \/ PutForeign(k, g, "same") \/ PutForeign(k, g, "other")
  BY DEF OpenListStep
<1>2. CASE target' = target
  BY <1>2
<1>3. ASSUME NEW g \in Files(k), NEW content,
             target' = [target EXCEPT ![k][g] = content],
             target[k][g] = "absent" \/ content = Copied(target[k][g])
      PROVE  target'[j][f] = "same"
  <2>1. CASE k = j /\ g = f
    BY <1>a, <1>3, <2>1 DEF Shape, Copied
  <2>2. CASE ~(k = j /\ g = f)
    BY <1>a, <1>3, <2>2 DEF Shape
  <2>3. QED
    BY <2>1, <2>2
<1>4. QED
  BY <1>1, <1>2, <1>3 DEF TakeDirectory, Arrive, Lose, Write, EndWell, EndBadly, PutForeign

(* What is at the target stays there while a pass works on a row.          *)
LEMMA CopyStep ==
  ASSUME Shape, CopyInv, Kinds
  PROVE  CopyInv'
<1> USE DEF Manual, AllSame, Files
<1>1. CASE OtherStep /\ UNCHANGED <<copyVars, qbVars>>
  <2>1. UNCHANGED <<setup, target>> /\ \A j \in Jobs :
          job'[j].stage = "completed" => job[j].stage = "completed"
    BY <1>1 DEF OtherStep, RowKept, copyVars
  <2>2. CASE worker' = worker \/ worker' = [worker EXCEPT !.fresh = FALSE]
    <3>1. worker'.pc = worker.pc /\ worker'.job = worker.job /\ worker'.next = worker.next
      BY <2>2 DEF Shape
    <3>2. QED
      BY <2>1, <3>1 DEF CopyInv
  <2>3. CASE worker'.pc = "idle" \/ worker'.next = NoRow
    BY <2>1, <2>3 DEF CopyInv, NoRow
  <2>4. QED
    BY <1>1, <2>2, <2>3 DEF OtherStep, Idle
<1>2. CASE Commit /\ UNCHANGED <<copyVars, qbVars>>
  <2>1. /\ worker.pc # "idle" /\ worker.job \in Jobs
        /\ \A j \in Jobs : job'[j] = IF j = worker.job THEN worker.next ELSE job[j]
        /\ worker'.pc = "idle" /\ UNCHANGED <<setup, target>>
    BY <1>2 DEF Commit, Shape, Idle, copyVars
  <2>2. QED
    BY <2>1 DEF CopyInv
<1>3. ASSUME NEW j \in Jobs, PassKinds(j) PROVE CopyInv'
  <2>1. CASE CopyDecides(j) /\ UNCHANGED qbVars
    <3>1. PICK row \in Rows : CopyRow(j, row) /\ Decide(j, row) /\ worker.job = j /\ UNCHANGED copyVars
      BY <2>1 DEF CopyDecides
    <3>2. /\ UNCHANGED <<setup, job, target>> /\ worker'.job = j
          /\ worker'.next.stage = "completed" => AllSame(j)
      BY <3>1, DecideFacts DEF CopyRow, copyVars
    <3>3. QED
      BY <3>2 DEF CopyInv
  <2>2. CASE AcquireLock(j) /\ UNCHANGED qbVars
    BY <2>2, LockFacts DEF CopyInv, copyVars
  <2>3. ASSUME NEW ck, Checkpointed(j, ck) PROVE CopyInv'
    <3>1. /\ UNCHANGED <<setup, target>> /\ worker'.job = j
          /\ worker'.next.stage # "completed"
          /\ \A k \in Jobs : job'[k].stage = job[k].stage
      BY <2>3 DEF Checkpointed, Shape, copyVars
    <3>2. QED
      BY <3>1 DEF CopyInv
  <2>4. CASE (CheckpointSubmission(j) /\ UNCHANGED qbVars) \/ CheckpointRemoval(j)
    BY <2>3, <2>4, CheckpointSteps
  <2>5. CASE Send(j) \/ CopyAnswered(j) \/ SendRemoval(j) \/ RemovalUnneeded(j)
    <3>1. /\ worker'.job = worker.job /\ worker.pc # "idle"
          /\ worker'.next.stage \in {worker.next.stage, "copying"}
          /\ UNCHANGED <<setup, job, target>>
      BY <2>5 DEF Send, InCopyCall, CopyAnswered, SendRemoval, InRemoval, RemovalUnneeded,
                  QbUnchanged, copyVars, Shape
    <3>2. QED
      BY <3>1 DEF CopyInv
  <2>6. CASE DropFromSource(j)
    BY <2>6 DEF DropFromSource, CopyInv, jobVars, RemovalsUnchanged, copyVars
  <2>7. CASE QbDecides(j)
    <3>1. PICK row \in Rows : Decide(j, row) /\ worker.job = j /\ QbFrame(j) /\ Manual(j)
      BY <2>7 DEF QbDecides
    <3>2. UNCHANGED <<setup, job, target>> /\ worker'.job = j
      BY <3>1, DecideFacts DEF QbFrame, RemovalsUnchanged, copyVars
    <3>3. QED
      BY <3>1, <3>2 DEF CopyInv
  <2>8. QED
    BY <1>3, <2>1, <2>2, <2>4, <2>5, <2>6, <2>7 DEF PassKinds
<1>4. CASE OutsideStep
  <2>1. UNCHANGED <<setup, job, worker>>
    BY <1>4, OutsideShape DEF jobVars
  <2>2. ASSUME NEW j \in Jobs, ~Manual(j), NEW f \in Files(j), target[j][f] = "same"
        PROVE  target'[j][f] = "same"
    <3>1. CASE OpenListStep
      BY <2>2, <3>1, SameStays
    <3>2. CASE QbStep
      <4>1. PICK k \in Jobs :
             /\ Manual(k)
             /\ \/ Leaves(k) \/ Checked(k) \/ StartsSeeding(k) \/ AddElsewhere(k) \/ Mislay(k)
                \/ \E g \in Files(k) : Remove(k, g) \/ LoseRemoval(k, g) \/ Replace(k, g)
                                       \/ TakeSource(k, g)
        BY <3>2 DEF QbStep
      <4>2. target'[j] = target[j]
        BY <2>2, <4>1 DEF Leaves, Checked, StartsSeeding, AddElsewhere, Mislay, Remove, LoseRemoval,
                          Replace, TakeSource, RemovalsUnchanged, copyVars, Shape
      <4>3. QED
        BY <2>2, <4>2
    <3>3. QED
      BY <1>4, <3>1, <3>2 DEF OutsideStep
  <2>3. ASSUME NEW j \in Jobs, ~Manual(j), AllSame(j) PROVE AllSame(j)'
    BY <2>1, <2>2, <2>3
  <2>4. worker.pc # "idle" => worker.job \in Jobs
    BY DEF Shape
  <2> HIDE DEF AllSame
  <2>5. QED
    BY <2>1, <2>3, <2>4 DEF CopyInv
<1>5. QED
  BY <1>1, <1>2, <1>3, <1>4 DEF Kinds


(* The torrent's data stays in the row until the torrent is at the target. *)
LEMMA DataStep ==
  ASSUME Shape, FreshInv, DataInv, Kinds
  PROVE  DataInv'
<1> USE DEF Manual, HasData, Founded
<1>a. worker.pc # "idle" => worker.job \in Jobs
  BY DEF Shape
<1>1. CASE OtherStep /\ UNCHANGED <<copyVars, qbVars>>
  <2>1. UNCHANGED <<setup, qb>> /\ \A j \in Jobs : RowKept(j)
    BY <1>1 DEF OtherStep, qbVars
  <2>2. \A j \in Jobs : job'[j].stage = "completed" \/ job[j].stage # "completed"
    BY <2>1 DEF RowKept, Finished
  <2>3. \A j \in Jobs :
          /\ Founded(j)'
          /\ (Manual(j) /\ job[j].stage = "completed" => qb[j].tgt # "none")'
          /\ (Manual(j) /\ qb[j].src # "listed" => job[j].exported \/ job[j].stage = "completed")'
    BY <2>1, <2>2 DEF DataInv, RowKept
  <2>4. CASE worker' = worker \/ worker' = [worker EXCEPT !.fresh = FALSE]
    <3>1. /\ worker'.pc = worker.pc /\ worker'.job = worker.job /\ worker'.next = worker.next
          /\ worker'.fresh => worker.fresh
      BY <2>4 DEF Shape
    <3>2. worker.pc # "idle" /\ job'[worker.job].exported => job[worker.job].exported
      BY <1>a, <2>1 DEF RowKept
    <3>3. QED
      BY <1>a, <2>1, <2>3, <3>1, <3>2 DEF DataInv
  <2>5. CASE worker'.pc \in {"idle", "claimed"}
    BY <2>3, <2>5 DEF DataInv
  <2>6. QED
    BY <1>1, <2>4, <2>5 DEF OtherStep, Idle
<1>2. CASE Commit /\ UNCHANGED <<copyVars, qbVars>>
  <2>1. /\ worker.pc = "decided" /\ worker.fresh /\ worker.job \in Jobs
        /\ \A j \in Jobs : job'[j] = IF j = worker.job THEN worker.next ELSE job[j]
        /\ worker'.pc = "idle" /\ UNCHANGED <<setup, qb>>
    BY <1>2 DEF Commit, CommitAllowed, Owns, Shape, Idle, qbVars
  <2>2. job[worker.job].stage # "completed"
    BY <2>1 DEF FreshInv, Finished
  <2>3. QED
    BY <2>1, <2>2 DEF DataInv
<1>3. ASSUME NEW j \in Jobs, PassKinds(j) PROVE DataInv'
  <2>1. CASE CopyDecides(j) /\ UNCHANGED qbVars
    <3>1. PICK row \in Rows : CopyRow(j, row) /\ Decide(j, row) /\ worker.job = j /\ UNCHANGED copyVars
      BY <2>1 DEF CopyDecides
    <3>2. /\ UNCHANGED <<setup, job, qb>> /\ worker'.job = j /\ worker'.pc = "decided"
          /\ worker'.next.stage \notin ExportedStages
          /\ worker'.next.exported = job[j].exported
          /\ worker'.next.stage = "completed" => ~Manual(j)
      BY <2>1, <3>1, DecideFacts DEF CopyRow, qbVars
    <3>3. "source_removed" \in ExportedStages
      BY DEF ExportedStages, TargetQbStages
    <3>4. QED
      BY <3>2, <3>3 DEF DataInv
  <2>2. CASE AcquireLock(j) /\ UNCHANGED qbVars
    <3>1. /\ UNCHANGED <<setup, worker, qb>> /\ worker.pc = "claimed"
          /\ \A k \in Jobs : job'[k].stage = job[k].stage /\ job'[k].exported = job[k].exported
      BY <2>2, LockFacts DEF qbVars, AcquireLock, CopyWork, Working
    <3>2. QED
      BY <3>1 DEF DataInv
  <2>3. ASSUME NEW ck, Checkpointed(j, ck) PROVE DataInv'
    <3>1. /\ UNCHANGED <<setup, qb>> /\ worker'.job = j /\ worker'.pc = "sending"
          /\ worker'.next.stage = job[j].stage /\ worker'.next.exported = job[j].exported
          /\ job[j].stage \in {"copy_submitting", "source_removing"}
          /\ \A k \in Jobs : job'[k].stage = job[k].stage /\ job'[k].exported = job[k].exported
      BY <2>3 DEF Checkpointed, Shape, qbVars
    <3>2. QED
      BY <3>1 DEF DataInv
  <2>4. CASE (CheckpointSubmission(j) /\ UNCHANGED qbVars) \/ CheckpointRemoval(j)
    BY <2>3, <2>4, CheckpointSteps
  <2>5. CASE \/ (Send(j) \/ CopyAnswered(j)) /\ UNCHANGED qbVars
             \/ SendRemoval(j) \/ RemovalUnneeded(j)
    <3>1. /\ worker'.job = worker.job /\ worker.pc \in {"sending", "sent"}
          /\ worker'.fresh = worker.fresh
          /\ worker'.next.stage \in {worker.next.stage, "copying"}
          /\ worker'.next.exported = worker.next.exported
          /\ UNCHANGED <<setup, job, qb>>
      BY <2>5 DEF Send, InCopyCall, CopyAnswered, SendRemoval, InRemoval, RemovalUnneeded,
                  QbUnchanged, qbVars, Shape
    <3>2. "copying" \notin ExportedStages
      BY DEF ExportedStages, TargetQbStages
    <3>3. QED
      BY <3>1, <3>2 DEF DataInv
  <2>6. CASE DropFromSource(j)
    <3>1. /\ job[j].stage = "source_removing" /\ worker.pc = "claimed"
          /\ qb' = [qb EXCEPT ![j].src = "leaving"] /\ UNCHANGED <<setup, job, worker>>
      BY <2>6 DEF DropFromSource, Removing, At, Working, jobVars
    <3>2. job[j].exported
      BY <3>1 DEF DataInv, ExportedStages, TargetQbStages
    <3>3. \A k \in Jobs : qb'[k].tgt = qb[k].tgt /\ (k # j => qb'[k] = qb[k])
      BY <3>1 DEF Shape
    <3>4. QED
      BY <3>1, <3>2, <3>3 DEF DataInv
  <2>7. CASE QbDecides(j)
    <3>1. PICK row \in Rows : QbRow(j, row) /\ Decide(j, row) /\ worker.job = j /\ QbFrame(j)
      BY <2>7 DEF QbDecides
    <3>2. /\ UNCHANGED <<setup, job>> /\ worker'.job = j /\ worker'.pc = "decided"
          /\ HasData(worker'.next)
          /\ job[j].exported => worker'.next.exported \/ worker'.next.stage = "completed"
          /\ worker'.next.stage \in {"source_removed", "completed"} => qb'[j].tgt # "none"
      BY <3>1, DecideFacts DEF QbRow
    <3>3. /\ \A k \in Jobs : qb[k].tgt # "none" => qb'[k].tgt # "none"
          /\ \A k \in Jobs : qb'[k].src = qb[k].src \/ (k = j /\ job[j].exported)
      BY <3>1 DEF QbFrame
    <3>4. QED
      BY <3>2, <3>3 DEF DataInv
  <2>8. QED
    BY <1>3, <2>1, <2>2, <2>4, <2>5, <2>6, <2>7 DEF PassKinds
<1>4. CASE OutsideStep
  <2>1. UNCHANGED <<setup, job, worker>>
    BY <1>4, OutsideShape DEF jobVars
  <2>2. CASE UNCHANGED qb
    BY <2>1, <2>2 DEF DataInv
  <2>3. ASSUME NEW j \in Jobs, NEW src, qb' = [qb EXCEPT ![j].src = src], qb[j].src # "listed"
        PROVE  DataInv'
    <3>1. \A k \in Jobs : qb'[k].tgt = qb[k].tgt /\ (k # j => qb'[k] = qb[k])
      BY <2>3 DEF Shape
    <3>2. QED
      BY <2>1, <2>3, <3>1 DEF DataInv
  <2>4. ASSUME NEW j \in Jobs, NEW tgt, qb' = [qb EXCEPT ![j].tgt = tgt],
               \/ tgt # "none"
               \/ worker.pc = "idle" /\ job[j].stage \notin {"source_removed", "completed"}
        PROVE  DataInv'
    <3>1. \A k \in Jobs : qb'[k].src = qb[k].src /\ (k # j => qb'[k] = qb[k]) /\ qb'[j].tgt = tgt
      BY <2>4 DEF Shape
    <3>2. QED
      BY <1>a, <2>1, <2>4, <3>1 DEF DataInv
  <2>5. CASE OpenListStep /\ UNCHANGED <<qbVars, stopped>>
    BY <2>2, <2>5 DEF qbVars
  <2>6. CASE QbStep
    <3>1. PICK j \in Jobs :
           \/ Leaves(j) \/ Checked(j) \/ StartsSeeding(j) \/ AddElsewhere(j) \/ Mislay(j)
           \/ \E f \in Files(j) : Remove(j, f) \/ LoseRemoval(j, f) \/ Replace(j, f)
                                  \/ TakeSource(j, f)
      BY <2>6 DEF QbStep
    <3>2. CASE Leaves(j)
      BY <2>3, <3>2 DEF Leaves
    <3>3. CASE Checked(j) \/ StartsSeeding(j) \/ AddElsewhere(j)
      <4>1. \E tgt : tgt # "none" /\ qb' = [qb EXCEPT ![j].tgt = tgt]
        BY <3>3 DEF Checked, StartsSeeding, AddElsewhere
      <4>2. QED
        BY <2>4, <4>1
    <3>4. CASE Mislay(j)
      <4>1. job[j].stage \notin {"source_removed", "completed"}
        BY <3>4 DEF Mislay, TargetQbStages
      <4>2. QED
        BY <2>4, <3>4, <4>1 DEF Mislay
    <3>5. CASE \E f \in Files(j) : Remove(j, f) \/ LoseRemoval(j, f) \/ Replace(j, f)
                                   \/ TakeSource(j, f)
      BY <2>2, <3>5 DEF Remove, LoseRemoval, Replace, TakeSource, qbVars
    <3>6. QED
      BY <3>1, <3>2, <3>3, <3>4, <3>5
  <2>7. QED
    BY <1>4, <2>5, <2>6 DEF OutsideStep
<1>5. QED
  BY <1>1, <1>2, <1>3, <1>4 DEF Kinds

(* Only what is known to be at the target is removed from the source.      *)
LEMMA PlacesKept ==
  ASSUME \A j \in Jobs : Placed(j), UNCHANGED <<setup, source, target, removal>>
  PROVE  \A j \in Jobs : Placed(j)'
BY DEF Placed, Files

LEMMA RemovalPassStep ==
  ASSUME Shape, RemovalInv, NEW j \in Jobs, PassKinds(j)
  PROVE  RemovalInv'
<1> USE DEF UncertainRemoval
<1>1. ASSUME NEW row \in Rows, Decide(j, row), UNCHANGED <<source, target, removal>>,
             row.ck.op = "RemoveFile" => row.ck = job[j].ck
      PROVE  RemovalInv'
  <2>1. /\ UNCHANGED <<setup, job>> /\ worker'.pc = "decided" /\ worker'.next.ck = row.ck
    BY <1>1, DecideFacts
  <2>2. UncertainRemoval(worker.next)' /\ \A k \in Jobs : UncertainRemoval(job[k])'
    BY <1>1, <2>1 DEF RemovalInv
  <2>3. QED
    BY <1>1, <2>1, <2>2, PlacesKept DEF RemovalInv, AskedForOwn, AskedToRemove
<1>2. ASSUME UNCHANGED <<setup, source, target, removal>>,
             \A k \in Jobs : job'[k].ck = job[k].ck,
             worker'.pc # "sending" \/ worker' = worker,
             worker'.next.ck = worker.next.ck
      PROVE  RemovalInv'
  <2>1. UncertainRemoval(worker.next)' /\ \A k \in Jobs : UncertainRemoval(job[k])'
    BY <1>2 DEF RemovalInv
  <2>2. AskedForOwn'
    BY <1>2 DEF RemovalInv, AskedForOwn, AskedToRemove, Files
  <2>3. QED
    BY <1>2, <2>1, <2>2, PlacesKept DEF RemovalInv
<1>3. ASSUME NEW ck, Checkpointed(j, ck), ck.phase = "Uncertain",
             ck.op = "RemoveFile" => job[j].cursor + 1 \in Files(j) \ setup[j].shared
      PROVE  RemovalInv'
  <2>1. /\ UNCHANGED <<setup, source, target, removal>> /\ worker'.job = j
        /\ worker'.next.ck = ck /\ worker'.next.cursor = job[j].cursor
        /\ job'[j].ck = ck /\ \A k \in Jobs : k # j => job'[k] = job[k]
    BY <1>3 DEF Checkpointed, Shape, copyVars, qbVars
  <2>2. UncertainRemoval(worker.next)' /\ \A k \in Jobs : UncertainRemoval(job[k])'
    BY <1>3, <2>1 DEF RemovalInv
  <2>3. AskedForOwn'
    BY <1>3, <2>1 DEF AskedForOwn, AskedToRemove, Files
  <2>4. QED
    BY <2>1, <2>2, <2>3, PlacesKept DEF RemovalInv
<1>4. CASE CopyDecides(j) /\ UNCHANGED qbVars
  BY <1>1, <1>4 DEF CopyDecides, CopyRow, copyVars, qbVars
<1>5. CASE AcquireLock(j) /\ UNCHANGED qbVars
  BY <1>2, <1>5, LockFacts DEF copyVars, qbVars
<1>6. CASE CheckpointSubmission(j) /\ UNCHANGED qbVars
  <2>1. PICK ck \in [op : {"none", "CopyFile", "CreateDirectory", "RemoveFile",
                           "ReviewExisting"}, phase : {"Uncertain"}] :
           Checkpointed(j, ck) /\ ck.op = job[j].ck.op /\ job[j].ck.phase = "Prepared"
    BY <1>6, CheckpointSteps
  <2>2. ck.op # "RemoveFile" /\ ck.phase = "Uncertain"
    BY <2>1 DEF RemovalInv
  <2>3. QED
    BY <1>3, <2>1, <2>2
<1>7. CASE CheckpointRemoval(j)
  <2>1. /\ Checkpointed(j, [op |-> "RemoveFile", phase |-> "Uncertain"])
        /\ job[j].cursor + 1 \in Files(j) \ setup[j].shared
    BY <1>7, CheckpointSteps DEF OwnFile, NextFile
  <2>2. QED
    BY <1>3, <2>1
<1>8. CASE (Send(j) \/ CopyAnswered(j)) /\ UNCHANGED qbVars
  <2>1. worker'.pc # "sending" /\ worker'.next.ck = worker.next.ck
    BY <1>8 DEF Send, CopyAnswered, Shape
  <2>2. QED
    BY <1>2, <1>8, <2>1 DEF Send, CopyAnswered, copyVars, qbVars
<1>9. CASE DropFromSource(j)
  BY <1>2, <1>9 DEF DropFromSource, jobVars, RemovalsUnchanged, copyVars
<1>10. CASE QbDecides(j)
  BY <1>1, <1>10 DEF QbDecides, QbRow, QbFrame, RemovalsUnchanged, copyVars
<1>11. CASE RemovalUnneeded(j)
  <2>1. worker'.pc # "sending" /\ worker'.next.ck = worker.next.ck
    BY <1>11 DEF RemovalUnneeded, Shape
  <2>2. QED
    BY <1>2, <1>11, <2>1 DEF RemovalUnneeded, QbUnchanged, copyVars, qbVars
<1>12. CASE SendRemoval(j)
  <2>1. /\ worker.pc = "sending" /\ worker.job = j /\ worker.next.ck.op = "RemoveFile"
        /\ InHand = worker.next.cursor + 1
        /\ target[j][InHand] = "same"
        /\ removal' = [removal EXCEPT ![j][InHand] = "flying"]
        /\ UNCHANGED <<setup, job, source, target>>
        /\ worker'.pc = "decided" /\ worker'.next = worker.next
    BY <1>12 DEF SendRemoval, InRemoval, InHand, Proven, copyVars, Shape
  <2>2. InHand \in Files(j) \ setup[j].shared
    BY <2>1 DEF RemovalInv, AskedForOwn, AskedToRemove
  <2>3. \A k \in Jobs : \A f \in AllFiles :
          removal'[k][f] = "flying" => removal[k][f] = "flying" \/ (k = j /\ f = InHand)
    BY <2>1 DEF Shape
  <2>4. \A k \in Jobs : Files(k) \subseteq AllFiles /\ Files(k)' = Files(k)
    BY <2>1, JobsAssumption DEF Shape, AllFiles, Files
  <2>5. \A k \in Jobs : Placed(k)'
    BY <2>1, <2>2, <2>3, <2>4 DEF RemovalInv, Placed
  <2>6. QED
    BY <2>1, <2>5 DEF RemovalInv, AskedForOwn, AskedToRemove
<1>13. QED
  BY <1>4, <1>5, <1>6, <1>7, <1>8, <1>9, <1>10, <1>11, <1>12 DEF PassKinds

LEMMA RemovalOutsideStep ==
  ASSUME Shape, RemovalInv, OutsideStep
  PROVE  RemovalInv'
<1>1. UNCHANGED <<setup, job, worker>>
  BY OutsideShape DEF jobVars
<1>2. \A j \in Jobs : Files(j) \subseteq AllFiles /\ Files(j)' = Files(j)
  BY <1>1, JobsAssumption DEF Shape, AllFiles, Files
<1>3. SUFFICES \A j \in Jobs : Placed(j)'
  BY <1>1, <1>2 DEF RemovalInv, UncertainRemoval, AskedForOwn, AskedToRemove, Files
<1>4. CASE OpenListStep /\ UNCHANGED <<qbVars, stopped>>
  <2>1. UNCHANGED <<source, removal>>
    BY <1>4 DEF OpenListStep, TakeDirectory, Arrive, Lose, Write, EndWell, EndBadly, PutForeign,
                EnvUnchanged, qbVars
  <2>2. QED
    BY <1>1, <1>2, <1>4, <2>1, SameStays DEF RemovalInv, Placed
<1>5. CASE QbStep
  <2>1. PICK k \in Jobs :
         \/ Leaves(k) \/ Checked(k) \/ StartsSeeding(k) \/ AddElsewhere(k) \/ Mislay(k)
         \/ \E g \in Files(k) : Remove(k, g) \/ LoseRemoval(k, g) \/ Replace(k, g)
                                \/ TakeSource(k, g)
    BY <1>5 DEF QbStep
  <2>2. CASE Leaves(k) \/ Checked(k) \/ StartsSeeding(k) \/ AddElsewhere(k) \/ Mislay(k)
    <3>1. UNCHANGED <<source, target, removal>>
      BY <2>2 DEF Leaves, Checked, StartsSeeding, AddElsewhere, Mislay, RemovalsUnchanged, copyVars
    <3>2. QED
      BY <1>1, <3>1, PlacesKept DEF RemovalInv
  <2>3. ASSUME NEW g \in Files(k), Remove(k, g) PROVE \A j \in Jobs : Placed(j)'
    <3>1. /\ removal[k][g] = "flying" /\ removal' = [removal EXCEPT ![k][g] = "none"]
          /\ source' = [source EXCEPT ![k] = @ \ {g}] /\ UNCHANGED target
      BY <2>3 DEF Remove
    <3>2. target[k][g] = "same" /\ g \notin setup[k].shared
      BY <2>3, <3>1 DEF RemovalInv, Placed
    <3>3. \A j \in Jobs : \A f \in Files(j) :
            /\ removal'[j][f] = "flying" => removal[j][f] = "flying"
            /\ f \in source[j] => f \in source'[j] \/ (j = k /\ f = g)
      BY <1>2, <3>1 DEF Shape
    <3>4. QED
      BY <1>1, <1>2, <3>1, <3>2, <3>3 DEF RemovalInv, Placed
  <2>4. ASSUME NEW g \in Files(k), LoseRemoval(k, g) PROVE \A j \in Jobs : Placed(j)'
    <3>1. removal' = [removal EXCEPT ![k][g] = "none"] /\ UNCHANGED <<source, target>>
      BY <2>4 DEF LoseRemoval, copyVars
    <3>2. \A j \in Jobs : \A f \in Files(j) :
            removal'[j][f] = "flying" => removal[j][f] = "flying"
      BY <1>2, <3>1 DEF Shape
    <3>3. QED
      BY <1>1, <1>2, <3>1, <3>2 DEF RemovalInv, Placed
  <2>5. ASSUME NEW g \in Files(k), Replace(k, g) PROVE \A j \in Jobs : Placed(j)'
    <3>1. /\ g \in source[k] /\ removal[k][g] # "flying"
          /\ target' = [target EXCEPT ![k][g] = "other"] /\ UNCHANGED <<source, removal>>
      BY <2>5 DEF Replace, qbVars
    <3>2. \A j \in Jobs : \A f \in Files(j) :
            target'[j][f] = target[j][f] \/ (j = k /\ f = g)
      BY <1>2, <3>1 DEF Shape
    <3>3. QED
      BY <1>1, <1>2, <3>1, <3>2 DEF RemovalInv, Placed
  <2>6. ASSUME NEW g \in Files(k), TakeSource(k, g) PROVE \A j \in Jobs : Placed(j)'
    <3>1. /\ g \notin setup[k].shared /\ target[k][g] = "same"
          /\ source' = [source EXCEPT ![k] = @ \ {g}] /\ UNCHANGED <<target, removal>>
      BY <2>6 DEF TakeSource, qbVars
    <3>2. \A j \in Jobs : \A f \in Files(j) :
            f \in source[j] => f \in source'[j] \/ (j = k /\ f = g)
      BY <1>2, <3>1 DEF Shape
    <3>3. QED
      BY <1>1, <1>2, <3>1, <3>2 DEF RemovalInv, Placed
  <2>7. QED
    BY <2>1, <2>2, <2>3, <2>4, <2>5, <2>6
<1>6. QED
  BY <1>4, <1>5 DEF OutsideStep

LEMMA RemovalStep ==
  ASSUME Shape, RemovalInv, Kinds
  PROVE  RemovalInv'
<1>1. CASE OtherStep /\ UNCHANGED <<copyVars, qbVars>>
  <2>1. /\ UNCHANGED <<setup, source, target, removal>>
        /\ \A j \in Jobs : job'[j].ck.op = "RemoveFile" => job'[j].ck = job[j].ck
    BY <1>1 DEF OtherStep, RowKept, copyVars, qbVars
  <2>2. AskedForOwn' /\ UncertainRemoval(worker.next)'
    <3>1. CASE worker' = worker \/ worker' = [worker EXCEPT !.fresh = FALSE]
      <4>1. worker'.pc = worker.pc /\ worker'.job = worker.job /\ worker'.next = worker.next
        BY <3>1 DEF Shape
      <4>2. QED
        BY <2>1, <4>1 DEF RemovalInv, AskedForOwn, AskedToRemove, UncertainRemoval, Files
    <3>2. CASE worker'.pc \in {"idle", "claimed"} /\ worker'.next = NoRow
      BY <3>2 DEF AskedForOwn, AskedToRemove, UncertainRemoval, NoRow, NoCk
    <3>3. QED
      BY <1>1, <3>1, <3>2 DEF OtherStep, Idle
  <2>3. \A j \in Jobs : UncertainRemoval(job[j])'
    BY <2>1 DEF RemovalInv, UncertainRemoval
  <2>4. QED
    BY <2>1, <2>2, <2>3, PlacesKept DEF RemovalInv
<1>2. CASE Commit /\ UNCHANGED <<copyVars, qbVars>>
  <2>1. /\ UNCHANGED <<setup, source, target, removal>> /\ worker.job \in Jobs
        /\ \A j \in Jobs : job'[j] = IF j = worker.job THEN worker.next ELSE job[j]
        /\ worker'.pc = "idle" /\ worker'.next = NoRow
    BY <1>2 DEF Commit, Shape, Idle, copyVars, qbVars
  <2>2. \A j \in Jobs : UncertainRemoval(job[j])'
    BY <2>1 DEF RemovalInv, UncertainRemoval
  <2>3. AskedForOwn' /\ UncertainRemoval(worker.next)'
    BY <2>1 DEF AskedForOwn, AskedToRemove, UncertainRemoval, NoRow, NoCk
  <2>4. QED
    BY <2>1, <2>2, <2>3, PlacesKept DEF RemovalInv
<1>3. CASE \E j \in Jobs : PassKinds(j)
  BY <1>3, RemovalPassStep
<1>4. CASE OutsideStep
  BY <1>4, RemovalOutsideStep
<1>5. QED
  BY <1>1, <1>2, <1>3, <1>4 DEF Kinds

-----------------------------------------------------------------------------
LEMMA InvStep == Inv /\ [Next]_vars => Inv'
<1> SUFFICES ASSUME Inv, [Next]_vars PROVE Inv'
  OBVIOUS
<1>1. CASE Next
  <2>1. Kinds
    BY <1>1, NextKinds DEF Inv, DataInv
  <2>2. QED
    BY <2>1, ShapeStep, FreshStep, RemovalStep, CopyStep, DataStep DEF Inv
<1>2. CASE UNCHANGED vars
  BY <1>2 DEF Inv, vars, jobVars, copyVars, qbVars, Shape, FreshInv, RemovalInv, UncertainRemoval,
       AskedForOwn, AskedToRemove, Placed, CopyInv, AllSame, DataInv, Founded, HasData, Files, Manual
<1>3. QED
  BY <1>1, <1>2

LEMMA InvAlways == Spec => []Inv
BY InitInv, InvStep, PTL DEF Spec

(* A file of a manual job is at the source unless its content is at the    *)
(* target, whatever was lost, answered late or done by people.             *)
THEOREM SpecNothingLost == Spec => []NothingLost
<1>1. Inv => NothingLost
  BY DEF Inv, RemovalInv, Placed, NothingLost
<1>2. QED
  BY <1>1, InvAlways, PTL

(* An automatic job that is completed left every file's content at the     *)
(* target.                                                                 *)
THEOREM SpecCopyProven == Spec => []CopyProven
<1>1. Inv => CopyProven
  BY DEF Inv, CopyInv, AllSame, CopyProven, Manual
<1>2. QED
  BY <1>1, InvAlways, PTL

(* The torrent of a manual job is in one of the two qBittorrents or in the *)
(* row.                                                                    *)
THEOREM SpecTorrentKept == Spec => []TorrentKept
<1>1. Inv => TorrentKept
  BY DEF Inv, DataInv, TorrentKept
<1>2. QED
  BY <1>1, InvAlways, PTL

(* A job that has ended stays ended.                                       *)
THEOREM SpecEndedForGood == Spec => EndedForGood
<1>1. Inv /\ [Next]_vars =>
        [\A j \in Jobs : job[j].stage \in Finished => job'[j].stage = job[j].stage]_vars
  <2> SUFFICES ASSUME Inv, Next, NEW j \in Jobs, job[j].stage \in Finished
               PROVE  job'[j].stage = job[j].stage
    OBVIOUS
  <2>1. Kinds
    BY NextKinds DEF Inv, DataInv
  <2>2. CASE OtherStep
    BY <2>2 DEF OtherStep, RowKept
  <2>3. CASE Commit
    <3>1. worker.job # j /\ job' = [job EXCEPT ![worker.job] = worker.next]
      BY <2>3 DEF Commit, CommitAllowed, Owns, Inv, FreshInv
    <3>2. QED
      BY <3>1 DEF Inv, Shape
  <2>4. ASSUME NEW k \in Jobs, PassKinds(k) PROVE job'[j].stage = job[j].stage
    <3>1. CASE AcquireLock(k)
      BY <3>1, LockFacts DEF Inv
    <3>2. ASSUME NEW ck, Checkpointed(k, ck) PROVE job'[j].stage = job[j].stage
      BY <3>2 DEF Checkpointed
    <3>3. CASE (CheckpointSubmission(k) /\ UNCHANGED qbVars) \/ CheckpointRemoval(k)
      BY <3>2, <3>3, CheckpointSteps DEF Inv
    <3>4. CASE CopyDecides(k) \/ QbDecides(k) \/ Send(k) \/ CopyAnswered(k) \/ DropFromSource(k)
               \/ SendRemoval(k) \/ RemovalUnneeded(k)
      BY <3>4 DEF CopyDecides, QbDecides, Decide, Send, CopyAnswered, DropFromSource, SendRemoval,
                  RemovalUnneeded, jobVars
    <3>5. QED
      BY <2>4, <3>1, <3>3, <3>4 DEF PassKinds
  <2>5. CASE OutsideStep
    BY <2>5, OutsideShape DEF Inv, jobVars
  <2>6. QED
    BY <2>1, <2>2, <2>3, <2>4, <2>5 DEF Kinds
<1>2. QED
  BY <1>1, InvAlways, PTL DEF Spec, EndedForGood
-----------------------------------------------------------------------------
(***************************************************************************)
(* Requests: what a row says may be out, is; what was sent and is not what *)
(* the row is about has landed; and a copy may be out only under the lock  *)
(* of the directory.  RowOK says so of a row, JobOK of every job's, NextOK *)
(* of the row a pass is about to write, and SendingOK that what the pass   *)
(* has in hand was never sent before.                                      *)
(***************************************************************************)

CopySent == [op |-> "CopyFile", phase |-> "Uncertain"]
DirSent == [op |-> "CreateDirectory", phase |-> "Uncertain"]
RemovalSent == [op |-> "RemoveFile", phase |-> "Uncertain"]

LockStages == CopyStages \cup {"copy_manual_review"}

(* What a row holds, whichever stage it is in.                             *)
RowTyped(row) ==
  /\ row.ck \in Checkpoints
  /\ row.cursor <= MaxFiles
  /\ row.tasks <= MaxFiles

(* A checkpoint belongs to the stages that made it or ask about it.        *)
CkFits(row) ==
  /\ row.ck.op = "RemoveFile"
       => row.stage \in {"source_removing", "source_remove_manual_review"}
  /\ row.ck.op \in {"CopyFile", "CreateDirectory", "ReviewExisting"}
       => row.stage \in {"copy_submitting", "copying", "copy_manual_review"}
  /\ row.stage = "copying" => row.ck = CopySent
  /\ row.stage = "copy_submitting" => row.ck # NoCk

(* A copy that may be out is out under the lock, and its task, if it has   *)
(* one, is its file's.                                                     *)
LockFits(row) ==
  /\ row.lock => row.stage \in LockStages
  /\ row.ck = CopySent => row.lock
  /\ row.ck.op \in {"CopyFile", "CreateDirectory"} =>
       row.tasks = 0 \/ (row.ck = CopySent /\ row.tasks = row.cursor + 1)

RowFits(row) == RowTyped(row) /\ CkFits(row) /\ LockFits(row)

Landed(j, f) == dir[j] /\ target[j][f] \in {"same", "other"}

(* What was sent is there, or is what the row's checkpoint is about.       *)
SentFits(j, row) ==
  /\ \A f \in Files(j) :
       sent[j][f] # 0 => Landed(j, f) \/ (row.ck = CopySent /\ f = row.cursor + 1)
  /\ sent[j][0] # 0 => dir[j] \/ row.ck = DirSent

AskedFits(j, row) ==
  \A f \in Files(j) :
    removals[j][f] # 0 =>
      /\ f \notin setup[j].shared
      /\ f \notin source[j] \/ (row.ck.op = "RemoveFile" /\ f = row.cursor + 1)

RowOK(j, row) == RowFits(row) /\ SentFits(j, row) /\ AskedFits(j, row)

JobOK(j) ==
  IF job[j].stage \in Finished
    THEN RowTyped(job[j]) /\ (j \in stopped \/ ~Writing(j))
    ELSE j \notin stopped /\ RowOK(j, job[j])

HistoryOK ==
  /\ dir \in [Jobs -> BOOLEAN]
  /\ op \in [Jobs -> [Items -> OpState]]
  /\ sent \in [Jobs -> [Items -> {0, 1}]]
  /\ removals \in [Jobs -> [AllFiles -> {0, 1}]]
  /\ \A j \in Jobs : source[j] \subseteq Files(j)
  /\ \A j \in Jobs, i \in Items : op[j][i] # "none" => sent[j][i] # 0

InPass == worker.pc \in {"sending", "sent", "decided"}

NextOK ==
  /\ RowTyped(worker.next)
  /\ InPass =>
       /\ RowOK(worker.job, worker.next)
       /\ worker.fresh /\ worker.next.lock => job[worker.job].lock

(* What is in hand has not been sent, and the row says that it may have    *)
(* been.                                                                   *)
SendingOK ==
  worker.pc = "sending" =>
    /\ IF worker.next.ck.op = "RemoveFile"
         THEN removals[worker.job][InHand] = 0
         ELSE sent[worker.job][InHand] = 0
    /\ \/ worker.job \in stopped
       \/ /\ job[worker.job].stage = worker.next.stage
          /\ job[worker.job].ck = worker.next.ck
          /\ job[worker.job].cursor = worker.next.cursor

InCall ==
  worker.pc \in {"sending", "sent"} =>
    /\ worker.next.stage \in {"copy_submitting", "source_removing"}
    /\ worker.next.ck \in {CopySent, DirSent, RemovalSent}
    /\ worker.next.cursor + 1 \in Files(worker.job)

OneLock == \A j, k \in Jobs : LockHeld(j) /\ LockHeld(k) => j = k

(* No pass works on a row that asks a person.                              *)
FreshOK == worker.pc # "idle" /\ worker.fresh => job[worker.job].stage \notin Review

RequestInv ==
  /\ HistoryOK
  /\ \A j \in Jobs : JobOK(j)
  /\ NextOK /\ SendingOK /\ InCall /\ OneLock /\ FreshOK

-----------------------------------------------------------------------------
(* Lemmas about rows.                                                      *)

(* Nothing that such a row is about may be out.                            *)
Quiet(row) == row.ck \notin {CopySent, DirSent} /\ row.ck.op # "RemoveFile"

SameWork(new, old) ==
  /\ new.stage = old.stage /\ new.ck = old.ck /\ new.cursor = old.cursor
  /\ new.lock = old.lock /\ new.tasks = old.tasks

LEMMA FitsKept ==
  ASSUME NEW j, NEW old, NEW new, SentFits(j, old), AskedFits(j, old),
         Quiet(old) \/ (new.ck = old.ck /\ new.cursor = old.cursor)
  PROVE  SentFits(j, new) /\ AskedFits(j, new)
BY DEF SentFits, AskedFits, Quiet

LEMMA SameWorkOK ==
  ASSUME NEW j, NEW old, NEW new, SameWork(new, old)
  PROVE  /\ RowTyped(old) => RowTyped(new)
         /\ RowOK(j, old) => RowOK(j, new)
BY DEF SameWork, RowOK, RowFits, RowTyped, CkFits, LockFits, SentFits, AskedFits

(* The directory in which a row that is not written for any more was.      *)
LEMMA QuietIsNotWriting ==
  ASSUME Shape, HistoryOK, NEW j \in Jobs, NEW row, SentFits(j, row), row.ck # CopySent
  PROVE  ~Writing(j)
<1>1. SUFFICES ASSUME NEW f \in Files(j), Underway(j, f), target[j][f] \in {"absent", "partial"}
               PROVE  FALSE
  BY DEF Writing
<1>2. f \in Items
  BY JobsAssumption DEF Shape, AllFiles, Files, Items
<1>3. sent[j][f] # 0
  BY <1>1, <1>2 DEF HistoryOK, Underway
<1>4. QED
  BY <1>1, <1>3 DEF SentFits, Landed

(* What a row is about is as it was as long as files, requests and their   *)
(* history are.                                                            *)
RequestVars == <<setup, source, dir, target, op, sent, removals>>

LEMMA HistoryKept ==
  ASSUME HistoryOK, UNCHANGED RequestVars
  PROVE  HistoryOK'
BY DEF HistoryOK, RequestVars, Files

LEMMA JobKept ==
  ASSUME UNCHANGED RequestVars, UNCHANGED stopped, NEW j \in Jobs, JobOK(j), job'[j] = job[j]
  PROVE  JobOK(j)'
BY DEF JobOK, RequestVars, RowOK, RowFits, RowTyped, CkFits, LockFits, SentFits, AskedFits,
       Landed, Writing, Underway, Files

LEMMA NextKept ==
  ASSUME UNCHANGED RequestVars, NEW j, NEW row, RowOK(j, row), worker'.job = j, worker'.next = row
  PROVE  RowOK(worker.job, worker.next)'
<1>1. RowFits(worker.next)'
  BY DEF RowOK, RowFits, RowTyped, CkFits, LockFits
<1>2. SentFits(worker.job, worker.next)'
  BY DEF RequestVars, RowOK, SentFits, Landed, Files
<1>3. AskedFits(worker.job, worker.next)'
  BY DEF RequestVars, RowOK, AskedFits, Files
<1>4. QED
  BY <1>1, <1>2, <1>3 DEF RowOK

(* A pass comes to what it writes at its end.                              *)
LEMMA ResultOK ==
  ASSUME Shape, RequestInv, NEW j \in Jobs, worker.pc # "idle", worker.job = j, NEW row \in Rows,
         worker' = [worker EXCEPT !.pc = "decided", !.next = row],
         UNCHANGED job, UNCHANGED RequestVars, UNCHANGED stopped,
         RowOK(j, row), worker.fresh /\ row.lock => job[j].lock
  PROVE  RequestInv'
<1>1. /\ worker'.next = row /\ worker'.pc = "decided" /\ worker'.job = j
      /\ worker'.fresh = worker.fresh
  BY DEF Shape
<1>2. HistoryOK' /\ \A k \in Jobs : JobOK(k)'
  BY HistoryKept, JobKept DEF RequestInv
<1>3. NextOK'
  BY <1>1 DEF NextOK, InPass, RequestVars, RowOK, RowFits, RowTyped, CkFits, LockFits, SentFits,
       AskedFits, Landed, Files
<1>4. SendingOK' /\ InCall' /\ OneLock' /\ FreshOK'
  BY <1>1 DEF RequestInv, SendingOK, InCall, OneLock, LockHeld, FreshOK
<1>5. QED
  BY <1>2, <1>3, <1>4 DEF RequestInv

(* What a pass may make of the row it works on.                            *)
Decides(j) ==
  /\ worker.pc = "claimed" /\ worker.job = j
  /\ \E row \in Rows : /\ Decide(j, row)
                       /\ RowOK(j, row)
                       /\ row.lock => job[j].lock
  /\ UNCHANGED RequestVars

(* The row a pass works on.                                                *)
LEMMA PassRow ==
  ASSUME Shape, RequestInv, NEW j \in Jobs, NEW stages, Working(j, stages),
         stages \cap Finished = {}
  PROVE  /\ worker.pc = "claimed" /\ worker.job = j
         /\ job[j] \in Rows /\ job[j].stage \in stages /\ j \notin stopped
         /\ RowOK(j, job[j])
BY DEF Shape, RequestInv, JobOK, Working

LEMMA DecidesRow ==
  ASSUME NEW j \in Jobs, worker.pc = "claimed", worker.job = j, RowOK(j, job[j]),
         NEW row \in Rows, Decide(j, row), RowFits(row), UNCHANGED RequestVars,
         Quiet(job[j]) \/ (row.ck = job[j].ck /\ row.cursor = job[j].cursor),
         row.lock => job[j].lock
  PROVE  Decides(j)
<1>1. RowOK(j, row)
  BY FitsKept DEF RowOK
<1>2. QED
  BY <1>1 DEF Decides

LEMMA DecidesOK ==
  ASSUME Shape, RequestInv, NEW j \in Jobs, Decides(j), UNCHANGED stopped
  PROVE  RequestInv'
<1>1. PICK row \in Rows : Decide(j, row) /\ RowOK(j, row) /\ (row.lock => job[j].lock)
  BY DEF Decides
<1> DEFINE next == [row EXCEPT !.leased = FALSE]
<1>2. SameWork(next, row) /\ next \in Rows
  BY DEF SameWork, Rows
<1>3. worker' = [worker EXCEPT !.pc = "decided", !.next = next] /\ UNCHANGED job
  BY <1>1 DEF Decide
<1> HIDE DEF next
<1>4. RowOK(j, next) /\ next.lock = row.lock
  BY <1>1, <1>2, SameWorkOK DEF SameWork
<1>5. QED
  BY <1>1, <1>2, <1>3, <1>4, ResultOK DEF Decides

LEMMA NoCheckpoint == NoCk \in Checkpoints /\ NoCk.op = "none" /\ NoCk # CopySent /\ NoCk # DirSent
BY DEF NoCk, Checkpoints, CopySent, DirSent

(* The stages of rows that have no checkpoint.                             *)
LEMMA NoCheckpointStages ==
  ASSUME NEW row \in Rows, RowFits(row),
         row.stage \notin {"copy_submitting", "copying", "copy_manual_review",
                           "source_removing", "source_remove_manual_review"}
  PROVE  row.ck = NoCk /\ Quiet(row)
BY NoCheckpoint DEF RowFits, RowTyped, CkFits, Checkpoints, Quiet, NoCk

(* Rows that have no checkpoint and no lock.                               *)
LEMMA ClearedFits ==
  ASSUME NEW row \in Rows, row.ck = NoCk, ~row.lock, row.cursor <= MaxFiles, row.tasks <= MaxFiles,
         row.stage \notin {"copying", "copy_submitting"}
  PROVE  RowFits(row)
BY NoCheckpoint DEF RowFits, RowTyped, CkFits, LockFits

LEMMA WithoutFields ==
  ASSUME NEW old \in Rows
  PROVE  LET row == Without(old) IN
         /\ row \in Rows /\ row.ck = NoCk /\ ~row.lock /\ row.tasks = 0
         /\ row.cursor = old.cursor /\ row.stage = old.stage
         /\ row.planned = old.planned /\ row.exported = old.exported
BY DEF Without, Rows, NoCk

LEMMA StageFields ==
  ASSUME NEW old \in Rows, NEW stage \in Stages
  PROVE  LET row == [old EXCEPT !.stage = stage] IN
         /\ row \in Rows /\ row.stage = stage /\ row.ck = old.ck /\ row.lock = old.lock
         /\ row.tasks = old.tasks /\ row.cursor = old.cursor
         /\ row.planned = old.planned /\ row.exported = old.exported
BY DEF Rows

LEMMA CursorFields ==
  ASSUME NEW old \in Rows, NEW cursor \in Nat
  PROVE  LET row == [old EXCEPT !.cursor = cursor] IN
         /\ row \in Rows /\ row.stage = old.stage /\ row.ck = old.ck /\ row.lock = old.lock
         /\ row.tasks = old.tasks /\ row.cursor = cursor
         /\ row.planned = old.planned /\ row.exported = old.exported
BY DEF Rows

LEMMA PlanningDecides ==
  ASSUME Shape, RequestInv, NEW j \in Jobs, UNCHANGED qbVars,
         \/ Plan(j) \/ PlanCancelled(j) \/ PlanWaits(j) \/ PlanGivesUp(j)
         \/ Suspend(j) \/ Resume(j) \/ LockRefused(j)
  PROVE  Decides(j)
<1> USE JobsAssumption
<1>0. /\ {"waiting_download"} \cap Finished = {} /\ {"auto_copy_paused"} \cap Finished = {}
      /\ CopyStages \cap Finished = {}
      /\ {"copy_reconcile", "cancelled", "planning_manual_review", "qb_manual_review",
          "auto_copy_paused", "waiting_download"} \subseteq Stages
      /\ CopyStages \subseteq Stages
  BY DEF Stages, Finished, Review, CopyStages
<1>a. UNCHANGED copyVars => UNCHANGED <<source, dir, target, op, sent, removals>>
  BY DEF copyVars, qbVars
<1>b. ASSUME NEW row \in Rows, Decide(j, row), UNCHANGED copyVars, RowFits(row),
             worker.pc = "claimed", worker.job = j, RowOK(j, job[j]),
             Quiet(job[j]) \/ (row.ck = job[j].ck /\ row.cursor = job[j].cursor),
             row.lock => job[j].lock
      PROVE  Decides(j)
  BY <1>a, <1>b, DecidesRow DEF RequestVars, Decide
<1>1. CASE Plan(j)
  <2> DEFINE row == [Without(Moved(job[j], "copy_reconcile"))
                       EXCEPT !.planned = TRUE, !.cursor = 0]
  <2>1. Working(j, {"waiting_download"}) /\ Decide(j, row) /\ UNCHANGED copyVars
    BY <1>1 DEF Plan
  <2>2. /\ worker.pc = "claimed" /\ worker.job = j /\ job[j] \in Rows /\ RowOK(j, job[j])
        /\ job[j].stage = "waiting_download"
    BY <1>0, <2>1, PassRow
  <2>3. row \in Rows /\ row.ck = NoCk /\ ~row.lock /\ row.cursor = 0 /\ row.tasks = 0
        /\ row.stage = "copy_reconcile"
    BY <1>0, <2>2 DEF Rows, NoCk, Moved, Without
  <2>4. Quiet(job[j])
    BY <2>2, NoCheckpointStages DEF RowOK
  <2> HIDE DEF row
  <2>5. RowFits(row)
    BY <2>3, ClearedFits
  <2>6. QED
    BY <1>b, <2>1, <2>2, <2>3, <2>4, <2>5
<1>2. CASE PlanCancelled(j) \/ PlanWaits(j) \/ PlanGivesUp(j) \/ Resume(j)
  <2>1. PICK stage \in {"waiting_download", "auto_copy_paused"} : Working(j, {stage})
    BY <1>2 DEF PlanCancelled, PlanWaits, PlanGivesUp, Resume
  <2>2. /\ worker.pc = "claimed" /\ worker.job = j /\ job[j] \in Rows /\ RowOK(j, job[j])
        /\ job[j].stage = stage
    BY <1>0, <2>1, PassRow
  <2>3. job[j].ck = NoCk /\ Quiet(job[j]) /\ ~job[j].lock
        /\ job[j].cursor <= MaxFiles /\ job[j].tasks <= MaxFiles
    BY <2>2, NoCheckpointStages DEF RowOK, RowFits, RowTyped, LockFits, LockStages, CopyStages
  <2>4. PICK row \in Rows :
          /\ Decide(j, row) /\ UNCHANGED copyVars
          /\ row.ck = NoCk /\ ~row.lock /\ row.cursor <= MaxFiles /\ row.tasks <= MaxFiles
          /\ row.stage \notin {"copying", "copy_submitting"}
    <3>1. ASSUME NEW to \in Stages, Decide(j, [job[j] EXCEPT !.stage = to])
          PROVE  /\ [job[j] EXCEPT !.stage = to] \in Rows
                 /\ [job[j] EXCEPT !.stage = to].stage = to
                 /\ [job[j] EXCEPT !.stage = to].ck = NoCk
                 /\ ~[job[j] EXCEPT !.stage = to].lock
                 /\ [job[j] EXCEPT !.stage = to].cursor <= MaxFiles
                 /\ [job[j] EXCEPT !.stage = to].tasks <= MaxFiles
      BY <2>2, <2>3, StageFields
    <3>2. CASE PlanCancelled(j)
      BY <1>0, <3>1, <3>2 DEF PlanCancelled
    <3>3. CASE PlanWaits(j)
      BY <2>2, <2>3, <3>3 DEF PlanWaits
    <3>4. CASE PlanGivesUp(j)
      <4> DEFINE to == IF Manual(j) THEN "qb_manual_review" ELSE "planning_manual_review"
      <4> DEFINE row == [Without(job[j]) EXCEPT !.cursor = 0, !.stage = to]
      <4>1. to \in Stages /\ to \notin {"copying", "copy_submitting"}
        BY <1>0
      <4>2. row \in Rows /\ row.ck = NoCk /\ ~row.lock /\ row.cursor = 0 /\ row.tasks = 0
            /\ row.stage = to
        <5> HIDE DEF to
        <5>1. QED
          BY <2>2, <4>1 DEF Rows, NoCk, Without
      <4>3. Decide(j, row) /\ UNCHANGED copyVars
        BY <3>4 DEF PlanGivesUp
      <4> HIDE DEF row, to
      <4>4. QED
        BY <4>1, <4>2, <4>3
    <3>5. CASE Resume(j)
      BY <1>0, <3>1, <3>5 DEF Resume
    <3>6. QED
      BY <1>2, <3>2, <3>3, <3>4, <3>5
  <2>5. RowFits(row)
    BY <2>4, ClearedFits
  <2>6. QED
    BY <1>b, <2>2, <2>3, <2>4, <2>5
<1>3. CASE Suspend(j)
  <2> DEFINE row == [Without(job[j]) EXCEPT !.stage = "auto_copy_paused"]
  <2>1. Working(j, CopyStages) /\ Decide(j, row) /\ UNCHANGED copyVars /\ Suspended(j)
    BY <1>3 DEF Suspend, CopyWork
  <2>2. /\ worker.pc = "claimed" /\ worker.job = j /\ job[j] \in Rows /\ RowOK(j, job[j])
        /\ job[j].stage \in CopyStages
    BY <1>0, <2>1, PassRow
  <2>3. row \in Rows /\ row.ck = NoCk /\ ~row.lock /\ row.cursor = job[j].cursor /\ row.tasks = 0
        /\ row.stage = "auto_copy_paused"
    BY <1>0, <2>2 DEF Rows, NoCk, Without
  <2>4. Quiet(job[j])
    BY <2>1, <2>2 DEF Suspended, MayConverge, CopyStages, RowOK, RowFits, CkFits, Quiet, CopySent,
                      DirSent, RowTyped, Checkpoints, NoCk
  <2> HIDE DEF row
  <2>5. RowFits(row)
    BY <2>2, <2>3, ClearedFits DEF RowOK, RowFits, RowTyped
  <2>6. QED
    BY <1>b, <2>1, <2>2, <2>3, <2>4, <2>5
<1>4. CASE LockRefused(j)
  <2>1. Working(j, CopyStages) /\ Decide(j, job[j]) /\ UNCHANGED copyVars
    BY <1>4 DEF LockRefused, CopyWork
  <2>2. /\ worker.pc = "claimed" /\ worker.job = j /\ job[j] \in Rows /\ RowOK(j, job[j])
    BY <1>0, <2>1, PassRow
  <2>3. QED
    BY <1>b, <2>1, <2>2 DEF RowOK
<1>5. QED
  BY <1>1, <1>2, <1>3, <1>4

LEMMA FilesAreSmall ==
  ASSUME Shape, NEW j \in Jobs, NEW f \in Files(j)
  PROVE  /\ f \in Nat /\ f # 0 /\ f <= MaxFiles /\ f \in AllFiles /\ f \in Items
         /\ f - 1 \in Nat /\ f - 1 <= MaxFiles /\ (f - 1) + 1 = f
BY JobsAssumption DEF Shape, AllFiles, Files, Items

(* A file that a person is to look at.                                     *)
LEMMA ReviewFits ==
  ASSUME Shape, NEW j \in Jobs, NEW f \in Files(j), NEW old \in Rows, RowTyped(old)
  PROVE  LET row == ReviewExisting(old, f) IN
         row \in Rows /\ RowFits(row) /\ row.lock = old.lock
<1> DEFINE row == ReviewExisting(old, f)
<1>1. f - 1 \in Nat /\ f - 1 <= MaxFiles
  BY FilesAreSmall
<1>2. "copy_manual_review" \in Stages \cap LockStages
  BY DEF Stages, Review, LockStages
<1>3. /\ row \in Rows /\ row.ck = Prepared("ReviewExisting") /\ row.lock = old.lock
      /\ row.cursor = f - 1 /\ row.tasks = old.tasks /\ row.stage = "copy_manual_review"
  BY <1>1, <1>2 DEF ReviewExisting, Moved, Rows, Prepared
<1>4. Prepared("ReviewExisting") \in Checkpoints /\ Prepared("ReviewExisting").op = "ReviewExisting"
      /\ Prepared("ReviewExisting").phase = "Prepared"
  BY DEF Prepared, Checkpoints
<1> HIDE DEF row
<1>5. RowFits(row)
  BY <1>1, <1>2, <1>3, <1>4 DEF RowFits, RowTyped, CkFits, LockFits, CopySent
<1>6. QED
  BY <1>3, <1>5 DEF row

(* The file that is looked at next is one of the job's.                    *)
LEMMA SeenIsFile ==
  ASSUME HistoryOK, NEW j \in Jobs, NEW f
  PROVE  Observed(j, f) # "conflict" => f \in Files(j)
BY DEF HistoryOK, Observed

LEMMA ReconcileDecides ==
  ASSUME Shape, RequestInv, NEW j \in Jobs, UNCHANGED qbVars,
         Reconcile(j) \/ ReconcileOn(j) \/ ReconcileEnds(j)
  PROVE  Decides(j)
<1>0. /\ {"copy_reconcile", "copy_legacy_reconcile"} \cap Finished = {}
      /\ {"copy_submitting", "copy_verified", "completed"} \subseteq Stages
      /\ {"copy_reconcile", "copy_legacy_reconcile", "copy_submitting"} \subseteq LockStages
  BY DEF Stages, Finished, Review, CopyStages, LockStages
<1>1. /\ Copying(j, {"copy_reconcile", "copy_legacy_reconcile"})
      /\ Working(j, {"copy_reconcile", "copy_legacy_reconcile"}) /\ job[j].lock
      /\ UNCHANGED copyVars
  BY DEF Reconcile, ReconcileOn, ReconcileEnds, Copying, CopyWork
<1>2. /\ worker.pc = "claimed" /\ worker.job = j /\ job[j] \in Rows /\ RowOK(j, job[j])
      /\ job[j].stage \in {"copy_reconcile", "copy_legacy_reconcile"}
  BY <1>0, <1>1, PassRow
<1>3. /\ job[j].ck = NoCk /\ Quiet(job[j]) /\ RowTyped(job[j])
      /\ job[j].cursor \in Nat /\ job[j].tasks \in Nat
  BY <1>2, NoCheckpointStages DEF RowOK, RowFits, Rows
<1>b. ASSUME NEW row \in Rows, Decide(j, row), RowFits(row)
      PROVE  Decides(j)
  BY <1>1, <1>2, <1>3, <1>b, DecidesRow DEF RequestVars, copyVars, qbVars, Decide
<1>4. CASE Reconcile(j)
  <2>1. PICK f \in Pass(j) : Decide(j, AtOpenFile(j, f))
    BY <1>4 DEF Reconcile
  <2>2. f \in Files(j) /\ f - 1 \in Nat /\ f - 1 <= MaxFiles
    BY FilesAreSmall DEF Pass
  <2> DEFINE here == [job[j] EXCEPT !.cursor = f - 1]
  <2>3. /\ here \in Rows /\ here.lock = job[j].lock /\ here.cursor = f - 1 /\ here.ck = job[j].ck
        /\ here.tasks = job[j].tasks
    BY <1>2, <2>2, CursorFields
  <2>4. CASE AtOpenFile(j, f) = ReviewExisting(here, f)
    <3>1. RowTyped(here)
      BY <1>3, <2>2, <2>3 DEF RowTyped
    <3> HIDE DEF here
    <3>2. QED
      BY <1>b, <2>1, <2>2, <2>3, <2>4, <3>1, ReviewFits
  <2>5. CASE AtOpenFile(j, f) # ReviewExisting(here, f)
    <3> DEFINE op0 == IF Observed(j, f) = "nodir" THEN "CreateDirectory" ELSE "CopyFile"
    <3> DEFINE row == [Moved(here, "copy_submitting") EXCEPT !.tasks = 0, !.ck = Prepared(op0)]
    <3>1. AtOpenFile(j, f) = row
      BY <2>5 DEF AtOpenFile
    <3>2. op0 \in {"CreateDirectory", "CopyFile"}
      OBVIOUS
    <3> HIDE DEF op0, here
    <3>3. /\ row \in Rows /\ row.ck = Prepared(op0) /\ row.lock = here.lock
          /\ row.tasks = 0 /\ row.cursor = here.cursor /\ row.stage = "copy_submitting"
      BY <1>0, <2>3, <3>2 DEF Rows, Moved, Prepared
    <3>4. Prepared(op0) \in Checkpoints /\ Prepared(op0).op = op0
          /\ Prepared(op0).phase = "Prepared" /\ Prepared(op0) # NoCk
      BY <3>2 DEF Prepared, Checkpoints, NoCk
    <3> HIDE DEF row
    <3>5. RowFits(row)
      BY <1>0, <2>2, <2>3, <3>2, <3>3, <3>4, JobsAssumption DEF RowFits, RowTyped, CkFits, LockFits, CopySent
    <3>6. QED
      BY <1>b, <2>1, <3>1, <3>3, <3>5
  <2>6. QED
    BY <2>4, <2>5
<1>5. CASE ReconcileOn(j)
  <2> DEFINE row == [job[j] EXCEPT !.cursor = @ + Batch]
  <2>1. job[j].cursor + Batch \in Nat /\ job[j].cursor + Batch <= MaxFiles
    BY <1>3, <1>5, JobsAssumption, BatchAssumption DEF ReconcileOn, Shape, AllFiles
  <2>2. /\ row \in Rows /\ row.ck = job[j].ck /\ row.lock = job[j].lock
        /\ row.tasks = job[j].tasks /\ row.cursor = job[j].cursor + Batch
        /\ row.stage = job[j].stage
    BY <1>2, <2>1, CursorFields
  <2>3. Decide(j, row)
    BY <1>5 DEF ReconcileOn
  <2> HIDE DEF row
  <2>4. RowFits(row)
    BY <1>0, <1>2, <1>3, <2>1, <2>2, NoCheckpoint DEF RowFits, RowTyped, CkFits, LockFits
  <2>5. QED
    BY <1>b, <2>2, <2>3, <2>4
<1>6. CASE ReconcileEnds(j)
  <2>1. CASE \E f \in Files(j) : Unverified(j, f)
    <3> DEFINE f == CHOOSE f \in Files(j) : Unverified(j, f)
    <3>1. f \in Files(j) /\ Decide(j, ReviewExisting(job[j], f))
      BY <1>6, <2>1 DEF ReconcileEnds
    <3> HIDE DEF f
    <3>2. QED
      BY <1>b, <1>2, <1>3, <3>1, ReviewFits
  <2>2. CASE ~\E f \in Files(j) : Unverified(j, f)
    <3> DEFINE to == IF Manual(j) THEN "copy_verified" ELSE "completed"
    <3> DEFINE row == [Without(Moved(job[j], to)) EXCEPT !.cursor = setup[j].files]
    <3>1. Decide(j, row)
      BY <1>6, <2>2 DEF ReconcileEnds
    <3>2. to \in Stages /\ to \notin {"copying", "copy_submitting"}
      BY <1>0
    <3>3. setup[j].files \in Nat /\ setup[j].files <= MaxFiles
      BY JobsAssumption DEF Shape, AllFiles
    <3> HIDE DEF to
    <3>4. row \in Rows /\ row.ck = NoCk /\ ~row.lock /\ row.cursor = setup[j].files
          /\ row.tasks = 0 /\ row.stage = to
      BY <1>2, <3>2, <3>3 DEF Rows, NoCk, Without, Moved
    <3> HIDE DEF row
    <3>5. RowFits(row)
      BY <3>2, <3>3, <3>4, ClearedFits, JobsAssumption
    <3>6. QED
      BY <1>b, <3>1, <3>4, <3>5
  <2>3. QED
    BY <2>1, <2>2
<1>7. QED
  BY <1>4, <1>5, <1>6

(* What the checkpoint of copy_submitting may be.                          *)
LEMMA SubmittingRow ==
  ASSUME NEW row \in Rows, RowFits(row), row.stage = "copy_submitting"
  PROVE  /\ row.ck \in [op : {"CopyFile", "CreateDirectory"}, phase : {"Prepared", "Uncertain"}]
                         \cup [op : {"ReviewExisting"}, phase : {"Prepared"}]
         /\ row.ck.phase = "Prepared" => Quiet(row)
         /\ row.ck.op \in {"CopyFile", "CreateDirectory", "ReviewExisting"}
         /\ row.ck.op = "ReviewExisting" => row.ck.phase = "Prepared"
         /\ row.ck.phase = "Uncertain" => row.ck \in {CopySent, DirSent}
BY DEF RowFits, RowTyped, CkFits, Checkpoints, Quiet, CopySent, DirSent, NoCk

(* What was asked for is there: the row need not tell it any more.         *)
LEMMA ArrivedFits ==
  ASSUME Shape, HistoryOK, NEW j \in Jobs, RowOK(j, job[j]), Arrived(j),
         job[j].ck.op \in {"CopyFile", "CreateDirectory", "ReviewExisting"},
         NEW row
  PROVE  SentFits(j, row) /\ AskedFits(j, row)
<1>1. AskedFits(j, row)
  BY DEF RowOK, AskedFits
<1>2. ASSUME Observed(j, NextFile(j)) \notin {"nodir", "conflict"}
      PROVE  dir[j]
  BY <1>2 DEF Observed
<1>3. ASSUME Accepted(j, NextFile(j))
      PROVE  Landed(j, NextFile(j))
  <2>1. Observed(j, NextFile(j)) \in {"verified", "sized"}
    BY <1>3 DEF Accepted
  <2>2. NextFile(j) \in AllFiles
    BY <2>1, SeenIsFile, FilesAreSmall
  <2>3. target[j][NextFile(j)] \in Content
    BY <2>2 DEF Shape
  <2>4. QED
    BY <2>1, <2>3 DEF Observed, Landed, Content
<1>4. CASE job[j].ck.op = "CreateDirectory"
  <2>1. job[j].ck # CopySent /\ dir[j]
    BY <1>2, <1>4 DEF Arrived, CopySent
  <2>2. QED
    BY <1>1, <2>1 DEF RowOK, SentFits
<1>5. CASE job[j].ck.op # "CreateDirectory"
  <2>1. job[j].ck # DirSent /\ Landed(j, job[j].cursor + 1)
    BY <1>3, <1>5 DEF Arrived, DirSent, NextFile
  <2>2. QED
    BY <1>1, <2>1 DEF RowOK, SentFits
<1>6. QED
  BY <1>1, <1>4, <1>5

LEMMA SubmissionDecides ==
  ASSUME Shape, RequestInv, NEW j \in Jobs, UNCHANGED qbVars,
         \/ SubmissionArrived(j) \/ SubmissionDoubtful(j) \/ SubmissionNeedsDirectory(j)
         \/ SubmissionUncertain(j)
  PROVE  Decides(j)
<1>0. /\ {"copy_submitting"} \cap Finished = {}
      /\ {"copy_submitting", "copy_reconcile", "copy_manual_review"} \subseteq Stages \cap LockStages
  BY DEF Stages, Finished, Review, CopyStages, LockStages
<1>1. /\ Working(j, {"copy_submitting"}) /\ job[j].lock /\ UNCHANGED copyVars
  BY DEF SubmissionArrived, SubmissionDoubtful, SubmissionNeedsDirectory, SubmissionUncertain,
         Copying, CopyWork
<1>2. /\ worker.pc = "claimed" /\ worker.job = j /\ job[j] \in Rows /\ RowOK(j, job[j])
      /\ job[j].stage = "copy_submitting" /\ RowFits(job[j]) /\ RowTyped(job[j]) /\ HistoryOK
  BY <1>0, <1>1, PassRow DEF RowOK, RowFits, RequestInv
<1>3. /\ job[j].ck.phase = "Prepared" => Quiet(job[j])
      /\ job[j].ck.op \in {"CopyFile", "CreateDirectory", "ReviewExisting"}
      /\ job[j].cursor \in Nat
      /\ job[j].ck.op = "ReviewExisting" => job[j].ck.phase = "Prepared"
      /\ job[j].ck # NoCk
  BY <1>2, SubmittingRow DEF Rows, NoCk
<1>b. ASSUME NEW row \in Rows, Decide(j, row), RowOK(j, row)
      PROVE  Decides(j)
  BY <1>1, <1>2, <1>b DEF RequestVars, copyVars, qbVars, Decide, Decides
<1>4. CASE SubmissionArrived(j)
  <2> DEFINE to == IF job[j].ck.op = "CreateDirectory" THEN job[j].cursor ELSE job[j].cursor + 1
  <2> DEFINE row == [Moved(job[j], "copy_reconcile") EXCEPT !.ck = NoCk, !.tasks = 0,
                       !.cursor = to]
  <2>1. Decide(j, row) /\ Arrived(j)
    <3>1. row = [Moved(job[j], "copy_reconcile") EXCEPT !.ck = NoCk, !.tasks = 0,
                  !.cursor = IF job[j].ck.op = "CreateDirectory" THEN @ ELSE @ + 1]
      BY <1>2 DEF Moved, Rows
    <3>2. QED
      BY <1>4, <3>1 DEF SubmissionArrived
  <2>2. to \in Nat /\ to <= MaxFiles
    <3>1. CASE job[j].ck.op = "CreateDirectory"
      BY <1>2, <1>3, <3>1 DEF RowTyped
    <3>2. CASE job[j].ck.op # "CreateDirectory"
      <4>1. NextFile(j) \in Files(j)
        BY <1>2, <2>1, <3>2, SeenIsFile DEF Arrived, Accepted
      <4>2. QED
        BY <3>2, <4>1, FilesAreSmall DEF NextFile
    <3>3. QED
      BY <3>1, <3>2
  <2> HIDE DEF to
  <2>3. row \in Rows /\ row.ck = NoCk /\ row.cursor = to /\ row.tasks = 0
        /\ row.stage = "copy_reconcile" /\ row.lock = job[j].lock
    BY <1>0, <1>2, <2>2 DEF Rows, NoCk, Moved
  <2> HIDE DEF row
  <2>4. RowFits(row)
    BY <1>0, <2>2, <2>3, NoCheckpoint, JobsAssumption DEF RowFits, RowTyped, CkFits, LockFits
  <2>5. RowOK(j, row)
    BY <1>2, <1>3, <2>1, <2>4, ArrivedFits DEF RowOK
  <2>6. QED
    BY <1>b, <2>1, <2>3, <2>5
<1>5. CASE SubmissionDoubtful(j)
  <2>1. CASE job[j].ck.phase = "Prepared"
    <3>1. NextFile(j) \in Nat /\ NextFile(j) - 1 = job[j].cursor
      BY <1>3 DEF NextFile
    <3> DEFINE row == ReviewExisting(job[j], NextFile(j))
    <3>2. Decide(j, row)
      BY <1>5, <2>1 DEF SubmissionDoubtful
    <3>3. /\ row \in Rows /\ row.ck = Prepared("ReviewExisting") /\ row.lock = job[j].lock
          /\ row.cursor = job[j].cursor /\ row.tasks = job[j].tasks
          /\ row.stage = "copy_manual_review"
      BY <1>0, <1>2, <3>1 DEF ReviewExisting, Moved, Rows, Prepared
    <3>4. Prepared("ReviewExisting") \in Checkpoints
          /\ Prepared("ReviewExisting").op = "ReviewExisting"
          /\ Prepared("ReviewExisting").phase = "Prepared"
      BY DEF Prepared, Checkpoints
    <3> HIDE DEF row
    <3>5. RowFits(row)
      BY <1>0, <1>2, <3>3, <3>4 DEF RowFits, RowTyped, CkFits, LockFits, CopySent
    <3>6. RowOK(j, row)
      BY <1>2, <1>3, <2>1, <3>5, FitsKept DEF RowOK
    <3>7. QED
      BY <1>b, <3>2, <3>3, <3>6
  <2>2. CASE job[j].ck.phase # "Prepared"
    <3> DEFINE row == Moved(job[j], "copy_manual_review")
    <3>1. Decide(j, row)
      BY <1>5, <2>2 DEF SubmissionDoubtful
    <3>2. /\ row \in Rows /\ row.stage = "copy_manual_review" /\ row.ck = job[j].ck
          /\ row.lock = job[j].lock /\ row.tasks = job[j].tasks /\ row.cursor = job[j].cursor
      BY <1>0, <1>2, StageFields DEF Moved
    <3> HIDE DEF row
    <3>3. RowFits(row)
      BY <1>0, <1>2, <1>3, <3>2 DEF RowFits, RowTyped, CkFits, LockFits
    <3>4. RowOK(j, row)
      BY <1>2, <3>2, <3>3, FitsKept DEF RowOK
    <3>5. QED
      BY <1>b, <3>1, <3>2, <3>4
  <2>3. QED
    BY <2>1, <2>2
<1>6. CASE SubmissionNeedsDirectory(j)
  <2> DEFINE row == [job[j] EXCEPT !.ck = Prepared("CreateDirectory")]
  <2>1. Decide(j, row) /\ job[j].ck = Prepared("CopyFile")
    BY <1>6 DEF SubmissionNeedsDirectory
  <2>2. /\ row \in Rows /\ row.ck = Prepared("CreateDirectory") /\ row.lock = job[j].lock
        /\ row.cursor = job[j].cursor /\ row.tasks = job[j].tasks
        /\ row.stage = "copy_submitting"
    BY <1>2 DEF Rows, Prepared
  <2>3. /\ Prepared("CreateDirectory") \in Checkpoints
        /\ Prepared("CreateDirectory").op = "CreateDirectory"
        /\ Prepared("CreateDirectory").phase = "Prepared"
        /\ Prepared("CopyFile").op = "CopyFile" /\ Prepared("CopyFile").phase = "Prepared"
        /\ CopySent.phase = "Uncertain"
    BY DEF Prepared, Checkpoints, CopySent
  <2> HIDE DEF row
  <2>4. RowFits(row)
    BY <1>0, <1>2, <2>1, <2>2, <2>3 DEF RowFits, RowTyped, CkFits, LockFits, NoCk
  <2>5. RowOK(j, row)
    BY <1>2, <1>3, <2>1, <2>3, <2>4, FitsKept DEF RowOK
  <2>6. QED
    BY <1>b, <2>1, <2>2, <2>5
<1>7. CASE SubmissionUncertain(j)
  <2>1. PICK stage \in {"copy_submitting", "copy_manual_review"} : Decide(j, Moved(job[j], stage))
    BY <1>7 DEF SubmissionUncertain
  <2> DEFINE row == Moved(job[j], stage)
  <2>2. /\ row \in Rows /\ row.stage = stage /\ row.ck = job[j].ck
        /\ row.lock = job[j].lock /\ row.tasks = job[j].tasks /\ row.cursor = job[j].cursor
    BY <1>0, <1>2, StageFields DEF Moved
  <2> HIDE DEF row
  <2>3. RowFits(row)
    BY <1>0, <1>2, <1>3, <2>2 DEF RowFits, RowTyped, CkFits, LockFits
  <2>4. RowOK(j, row)
    BY <1>2, <2>2, <2>3, FitsKept DEF RowOK
  <2>5. QED
    BY <1>b, <2>1, <2>2, <2>4 DEF row
<1>8. QED
  BY <1>4, <1>5, <1>6, <1>7

LEMMA FollowDecides ==
  ASSUME Shape, RequestInv, NEW j \in Jobs, UNCHANGED qbVars, FollowTask(j)
  PROVE  Decides(j)
<1>0. /\ {"copying"} \cap Finished = {}
      /\ {"copy_submitting", "copying", "copy_manual_review"} \subseteq Stages \cap LockStages
  BY DEF Stages, Finished, Review, CopyStages, LockStages
<1>1. Working(j, {"copying"}) /\ UNCHANGED copyVars
  BY DEF FollowTask, Copying, CopyWork
<1>2. /\ worker.pc = "claimed" /\ worker.job = j /\ job[j] \in Rows /\ RowOK(j, job[j])
      /\ job[j].stage = "copying" /\ RowFits(job[j]) /\ job[j].ck = CopySent
  BY <1>0, <1>1, PassRow DEF RowOK, RowFits, CkFits
<1>3. PICK stage \in TaskDecisions(j) : Decide(j, Moved(job[j], stage))
  BY DEF FollowTask
<1>4. stage \in {"copy_submitting", "copying", "copy_manual_review"}
  BY <1>3 DEF TaskDecisions
<1> DEFINE row == Moved(job[j], stage)
<1>5. /\ row \in Rows /\ row.stage = stage /\ row.ck = job[j].ck
      /\ row.lock = job[j].lock /\ row.tasks = job[j].tasks /\ row.cursor = job[j].cursor
  BY <1>0, <1>2, <1>4, StageFields DEF Moved
<1> HIDE DEF row
<1>6. RowFits(row)
  BY <1>0, <1>2, <1>4, <1>5 DEF RowFits, RowTyped, CkFits, LockFits, CopySent, NoCk
<1>7. QED
  BY <1>1, <1>2, <1>3, <1>5, <1>6, DecidesRow DEF row, RequestVars, copyVars, qbVars, Decide

-----------------------------------------------------------------------------
(* The calls a pass makes of OpenList.                                     *)

LEMMA LockOK ==
  ASSUME Shape, RequestInv, NEW j \in Jobs, AcquireLock(j), UNCHANGED <<qbVars, stopped>>
  PROVE  RequestInv'
<1> DEFINE row == [job[j] EXCEPT !.lock = TRUE]
<1>1. /\ Working(j, CopyStages) /\ \A k \in Jobs \ {j} : ~LockHeld(k)
      /\ job' = [job EXCEPT ![j].lock = TRUE]
      /\ UNCHANGED worker /\ UNCHANGED RequestVars
  BY DEF AcquireLock, CopyWork, RequestVars, copyVars, qbVars
<1>2. /\ job[j] \in Rows /\ RowOK(j, job[j]) /\ j \notin stopped
      /\ job[j].stage \in CopyStages /\ CopyStages \cap Finished = {}
      /\ worker.pc = "claimed"
  BY <1>1, PassRow DEF CopyStages, Finished
<1>3. /\ row.stage = job[j].stage /\ row.ck = job[j].ck /\ row.cursor = job[j].cursor
      /\ row.lock = TRUE /\ row.tasks = job[j].tasks
  BY <1>2 DEF Rows
<1>4. job'[j] = row /\ \A k \in Jobs : k # j => job'[k] = job[k]
  BY <1>1 DEF Shape
<1> HIDE DEF row
<1>5. RowFits(row)
  BY <1>2, <1>3 DEF RowOK, RowFits, RowTyped, CkFits, LockFits, LockStages
<1>6. RowOK(j, row)
  BY <1>2, <1>3, <1>5, FitsKept DEF RowOK
<1>7. JobOK(j)'
  BY <1>1, <1>2, <1>3, <1>4, <1>6 DEF JobOK, RequestVars, RowOK, RowFits, RowTyped, CkFits, LockFits,
       SentFits, AskedFits, Landed, Files
<1>8. HistoryOK' /\ \A k \in Jobs : JobOK(k)'
  BY <1>1, <1>4, <1>7, HistoryKept, JobKept DEF RequestInv
<1>9. OneLock'
  BY <1>1, <1>4 DEF OneLock, LockHeld
<1>10. NextOK' /\ SendingOK' /\ InCall'
  BY <1>1, <1>2 DEF RequestInv, NextOK, InPass, RowTyped, SendingOK, InCall
<1>11. FreshOK'
  BY <1>1, <1>3, <1>4 DEF RequestInv, FreshOK, Shape
<1>12. QED
  BY <1>8, <1>9, <1>10, <1>11 DEF RequestInv

(* The row and the pass say that a request may be out, and it is not yet.  *)
LEMMA CheckpointOK ==
  ASSUME Shape, RequestInv, NEW j \in Jobs, worker.pc = "claimed", worker.job = j,
         RowOK(j, job[j]), j \notin stopped,
         job[j].stage \in {"copy_submitting", "source_removing"},
         NEW row \in Rows, row.stage = job[j].stage, row.cursor = job[j].cursor,
         row.lock = job[j].lock, row.ck \in {CopySent, DirSent, RemovalSent},
         RowOK(j, row), row.cursor + 1 \in Files(j),
         row.ck = CopySent => sent[j][row.cursor + 1] = 0,
         row.ck = DirSent => sent[j][0] = 0,
         row.ck = RemovalSent => removals[j][row.cursor + 1] = 0,
         job' = [job EXCEPT ![j] = row],
         worker' = [worker EXCEPT !.pc = "sending", !.next = [row EXCEPT !.leased = FALSE]],
         UNCHANGED RequestVars, UNCHANGED stopped
  PROVE  RequestInv'
<1> DEFINE next == [row EXCEPT !.leased = FALSE]
<1>1. SameWork(next, row) /\ next \in Rows
  BY DEF SameWork, Rows
<1> HIDE DEF next
<1>2. /\ worker'.next = next /\ worker'.pc = "sending" /\ worker'.job = j
      /\ worker'.fresh = worker.fresh
  BY DEF Shape, next
<1>3. /\ RowOK(j, next) /\ RowTyped(next)
      /\ next.ck = row.ck /\ next.cursor = row.cursor /\ next.lock = row.lock
      /\ next.stage = row.stage
  BY <1>1, SameWorkOK DEF RowOK, RowFits, SameWork
<1>4. job'[j] = row /\ \A k \in Jobs : k # j => job'[k] = job[k]
  BY DEF Shape
<1>5. JobOK(j)'
  BY <1>4 DEF JobOK, RequestVars, RowOK, RowFits, RowTyped, CkFits, LockFits, SentFits, AskedFits,
       Landed, Files, Finished
<1>6. HistoryOK' /\ \A k \in Jobs : JobOK(k)'
  BY <1>4, <1>5, HistoryKept, JobKept DEF RequestInv
<1>7. NextOK'
  <2>1. RowTyped(worker.next)'
    BY <1>2, <1>3 DEF RowTyped
  <2>2. RowOK(worker.job, worker.next)'
    BY <1>2, <1>3, NextKept
  <2>3. (job[worker.job].lock)' = worker.next.lock'
    BY <1>2, <1>3, <1>4
  <2>4. QED
    BY <2>1, <2>2, <2>3 DEF NextOK
<1>8. SendingOK'
  <2>1. row.ck.op # "RemoveFile" => row.ck \in {CopySent, DirSent}
    BY DEF RemovalSent
  <2>2. row.ck.op = "CreateDirectory" <=> row.ck = DirSent
    BY DEF RemovalSent, CopySent, DirSent
  <2>3. row.ck.op = "RemoveFile" => row.ck = RemovalSent
    BY DEF RemovalSent, CopySent, DirSent
  <2>4. InHand' = IF row.ck.op = "CreateDirectory" THEN 0 ELSE row.cursor + 1
    <3>1. worker'.next.ck.op = row.ck.op
      BY <1>2, <1>3
    <3>2. worker'.next.cursor = row.cursor
      BY <1>2, <1>3
    <3>3. QED
      BY <3>1, <3>2 DEF InHand
  <2>5. IF row.ck.op = "RemoveFile" THEN removals[j][InHand'] = 0 ELSE sent[j][InHand'] = 0
    BY <2>1, <2>2, <2>3, <2>4 DEF RemovalSent
  <2>6. QED
    BY <1>1, <1>2, <1>4, <2>5 DEF SendingOK, SameWork, RequestVars
<1>9. InCall'
  BY <1>1, <1>2 DEF InCall, SameWork, RequestVars, Files
<1>10. OneLock'
  BY <1>4 DEF RequestInv, OneLock, LockHeld
<1>11. FreshOK'
  BY <1>2, <1>4 DEF FreshOK, Review
<1>12. QED
  BY <1>6, <1>7, <1>8, <1>9, <1>10, <1>11 DEF RequestInv

(* What is about to be sent has not arrived, so that it was not sent.      *)
LEMMA SendableUnsent ==
  ASSUME Shape, HistoryOK, NEW j \in Jobs, RowOK(j, job[j]), Sendable(j),
         job[j].ck.op \in {"CopyFile", "CreateDirectory", "ReviewExisting"}
  PROVE  /\ job[j].ck.op \in {"CopyFile", "CreateDirectory"}
         /\ NextFile(j) \in Files(j)
         /\ job[j].ck.op = "CopyFile" => sent[j][NextFile(j)] = 0
         /\ job[j].ck.op = "CreateDirectory" => sent[j][0] = 0
<1>1. /\ ~Arrived(j) /\ ~Doubtful(j) /\ job[j].ck.phase = "Prepared"
      /\ ~(job[j].ck.op = "CopyFile" /\ Observed(j, NextFile(j)) = "nodir")
  BY DEF Sendable, Absent
<1>2. Observed(j, NextFile(j)) \in {"conflict", "nodir", "missing", "sized", "verified"}
  BY DEF Observed
<1>3. Observed(j, NextFile(j)) # "conflict" /\ NextFile(j) \in Files(j)
  BY <1>1, SeenIsFile DEF Doubtful
<1>4. job[j].ck.op # "CreateDirectory" => Observed(j, NextFile(j)) \in {"nodir", "missing"}
  BY <1>1, <1>2, <1>3 DEF Doubtful, Arrived, Accepted
<1>5. job[j].ck.op # "ReviewExisting"
  BY <1>1, <1>4 DEF Doubtful
<1>6. job[j].ck # CopySent /\ job[j].ck # DirSent
  BY <1>1 DEF CopySent, DirSent
<1>7. CASE job[j].ck.op = "CopyFile"
  <2>1. target[j][NextFile(j)] = "absent"
    BY <1>1, <1>4, <1>7 DEF Observed
  <2>2. QED
    BY <1>3, <1>6, <1>7, <2>1 DEF RowOK, SentFits, Landed
<1>8. CASE job[j].ck.op = "CreateDirectory"
  <2>1. ~dir[j]
    BY <1>1, <1>2, <1>3, <1>8 DEF Observed, Arrived
  <2>2. QED
    BY <1>3, <1>6, <1>8, <2>1 DEF RowOK, SentFits
<1>9. QED
  BY <1>5, <1>7, <1>8

LEMMA CheckpointSubmissionOK ==
  ASSUME Shape, RequestInv, NEW j \in Jobs, CheckpointSubmission(j), UNCHANGED <<qbVars, stopped>>
  PROVE  RequestInv'
<1>0. /\ {"copy_submitting"} \cap Finished = {} /\ "copy_submitting" \in LockStages
  BY DEF Finished, LockStages, CopyStages
<1>1. /\ Working(j, {"copy_submitting"}) /\ job[j].lock /\ Sendable(j)
      /\ job' = [job EXCEPT ![j].ck.phase = "Uncertain"]
      /\ worker' = [worker EXCEPT !.pc = "sending", !.next = [job'[j] EXCEPT !.leased = FALSE]]
      /\ UNCHANGED RequestVars /\ UNCHANGED stopped
  BY DEF CheckpointSubmission, Copying, CopyWork, RequestVars, copyVars, qbVars
<1>2. /\ worker.pc = "claimed" /\ worker.job = j /\ job[j] \in Rows /\ RowOK(j, job[j])
      /\ job[j].stage = "copy_submitting" /\ RowFits(job[j]) /\ HistoryOK /\ j \notin stopped
  BY <1>0, <1>1, PassRow DEF RowOK, RequestInv
<1>3. /\ job[j].ck.phase = "Prepared" /\ Quiet(job[j])
      /\ job[j].ck.op \in {"CopyFile", "CreateDirectory", "ReviewExisting"}
  BY <1>1, <1>2, SubmittingRow DEF Sendable
<1>4. /\ job[j].ck.op \in {"CopyFile", "CreateDirectory"}
      /\ NextFile(j) \in Files(j)
      /\ job[j].ck.op = "CopyFile" => sent[j][NextFile(j)] = 0
      /\ job[j].ck.op = "CreateDirectory" => sent[j][0] = 0
  BY <1>1, <1>2, <1>3, SendableUnsent
<1> DEFINE ck == [op |-> job[j].ck.op, phase |-> "Uncertain"]
<1> DEFINE row == [job[j] EXCEPT !.ck = ck]
<1>5. /\ ck \in {CopySent, DirSent} /\ ck \in Checkpoints /\ ck # NoCk
      /\ ck.op = job[j].ck.op
      /\ ck = CopySent <=> job[j].ck.op = "CopyFile"
      /\ ck = DirSent <=> job[j].ck.op = "CreateDirectory"
      /\ ck # RemovalSent
  BY <1>4 DEF CopySent, DirSent, RemovalSent, Checkpoints, NoCk
<1>6. [job[j].ck EXCEPT !.phase = "Uncertain"] = ck
  BY <1>2 DEF Rows
<1>7. /\ row \in Rows /\ row.stage = job[j].stage /\ row.cursor = job[j].cursor
      /\ row.lock = job[j].lock /\ row.ck = ck /\ row.tasks = job[j].tasks
  BY <1>2, <1>4 DEF Rows
<1>8. job' = [job EXCEPT ![j] = row]
  BY <1>1, <1>6 DEF Shape
<1> HIDE DEF row, ck
<1>9. worker' = [worker EXCEPT !.pc = "sending", !.next = [row EXCEPT !.leased = FALSE]]
  BY <1>1, <1>8 DEF Shape
<1>10. job[j].tasks = 0
  <2>1. job[j].ck # CopySent
    BY <1>3 DEF Quiet
  <2>2. QED
    BY <1>2, <1>4, <2>1 DEF RowFits, LockFits
<1>11. RowFits(row)
  BY <1>0, <1>1, <1>2, <1>4, <1>5, <1>7, <1>10 DEF RowFits, RowTyped, CkFits, LockFits
<1>12. RowOK(j, row)
  BY <1>2, <1>3, <1>11, FitsKept DEF RowOK
<1>13. QED
  BY <1>1, <1>2, <1>4, <1>5, <1>7, <1>8, <1>9, <1>12, CheckpointOK DEF NextFile

(* A request goes out.                                                     *)
LEMMA SendOK ==
  ASSUME Shape, RequestInv, NEW j \in Jobs, Send(j), UNCHANGED <<qbVars, stopped>>
  PROVE  RequestInv'
<1>1. /\ worker.pc = "sending" /\ worker.job = j /\ worker.next.ck.op # "RemoveFile"
      /\ StillWanted(j)
      /\ op' = [op EXCEPT ![j][InHand] = "flying"]
      /\ sent' = [sent EXCEPT ![j][InHand] = IF @ < 2 THEN @ + 1 ELSE @]
      /\ worker' = [worker EXCEPT !.pc = "sent"]
      /\ UNCHANGED <<setup, job, source, dir, target, removals, stopped>>
  BY DEF Send, InCopyCall, Requested, qbVars
<1>2. /\ sent[j][InHand] = 0 /\ HistoryOK /\ RowOK(j, worker.next) /\ RowTyped(worker.next)
      /\ worker.next.ck \in {CopySent, DirSent} /\ worker.next.stage = "copy_submitting"
      /\ worker.next.cursor + 1 \in Files(j)
      /\ \/ j \in stopped
         \/ /\ job[j].stage = "copy_submitting"
            /\ job[j].ck = worker.next.ck /\ job[j].cursor = worker.next.cursor
      /\ worker.fresh /\ worker.next.lock => job[j].lock
  <2>1. worker.next.ck # RemovalSent
    BY <1>1 DEF RemovalSent
  <2>2. worker.next.ck \in {CopySent, DirSent}
    BY <1>1, <2>1 DEF RequestInv, InCall
  <2>3. RowOK(j, worker.next)
    BY <1>1 DEF RequestInv, NextOK, InPass
  <2>4. worker.next.stage = "copy_submitting"
    BY <1>1, <2>2, <2>3 DEF RequestInv, InCall, RowOK, RowFits, CkFits, CopySent, DirSent
  <2>5. QED
    BY <1>1, <2>2, <2>3, <2>4 DEF RequestInv, InCall, NextOK, InPass, SendingOK
<1>3. /\ InHand \in Items
      /\ worker.next.ck = CopySent => InHand = worker.next.cursor + 1
      /\ worker.next.ck = DirSent => InHand = 0
  BY <1>2, FilesAreSmall, JobsAssumption DEF InHand, CopySent, DirSent, Items
<1>4. /\ \A k \in Jobs, i \in Items :
           /\ sent'[k][i] = IF k = j /\ i = InHand THEN 1 ELSE sent[k][i]
           /\ op'[k][i] = IF k = j /\ i = InHand THEN "flying" ELSE op[k][i]
      /\ sent' \in [Jobs -> [Items -> {0, 1}]] /\ op' \in [Jobs -> [Items -> OpState]]
  BY <1>1, <1>2, <1>3 DEF HistoryOK, OpState
<1>5. HistoryOK'
  BY <1>1, <1>2, <1>4 DEF HistoryOK, Files
<1>7. \A k \in Jobs : JobOK(k)'
  <2>1. ASSUME NEW k \in Jobs, k # j PROVE JobOK(k)'
    <3>1. (\A f \in Files(k) : f \in Items) /\ 0 \in Items
      BY FilesAreSmall, JobsAssumption DEF Items
    <3>a. \A i \in Items : sent'[k][i] = sent[k][i] /\ op'[k][i] = op[k][i]
      BY <1>4, <2>1
    <3>2. /\ \A f \in Files(k) : sent'[k][f] = sent[k][f] /\ op'[k][f] = op[k][f]
          /\ sent'[k][0] = sent[k][0]
      BY <3>1, <3>a
    <3>3. JobOK(k)
      BY DEF RequestInv
    <3>4. QED
      BY <1>1, <3>2, <3>3 DEF JobOK, RowOK, RowFits, RowTyped, CkFits, LockFits, SentFits, AskedFits,
           Landed, Writing, Underway, Files
  <2>2. JobOK(j)'
    <3>1. JobOK(j)
      BY DEF RequestInv
    <3>2. CASE j \in stopped
      BY <1>1, <3>1, <3>2 DEF JobOK, RowTyped
    <3>3. CASE j \notin stopped
      <4>1. RowOK(j, job[j]) /\ job[j].stage \notin Finished
        BY <1>2, <3>1, <3>3 DEF JobOK, Finished
      <4>2. SentFits(j, job[j])'
        BY <1>1, <1>2, <1>3, <1>4, <3>3, <4>1, FilesAreSmall DEF RowOK, SentFits, Landed, Files, Items
      <4>3. AskedFits(j, job[j])' /\ RowFits(job[j])'
        BY <1>1, <4>1 DEF RowOK, RowFits, RowTyped, CkFits, LockFits, AskedFits, Files
      <4>4. QED
        BY <1>1, <3>3, <4>1, <4>2, <4>3 DEF JobOK, RowOK
    <3>4. QED
      BY <3>2, <3>3
  <2>3. QED
    BY <2>1, <2>2
<1>8. NextOK'
  <2>1. /\ worker'.next = worker.next /\ worker'.job = j /\ worker'.pc = "sent"
        /\ worker'.fresh = worker.fresh
    BY <1>1 DEF Shape
  <2>2. SentFits(worker.job, worker.next)'
    BY <1>1, <1>2, <1>3, <1>4, <2>1, FilesAreSmall DEF RowOK, SentFits, Landed, Files, Items
  <2>3. AskedFits(worker.job, worker.next)' /\ RowFits(worker.next)'
    BY <1>1, <1>2, <2>1 DEF RowOK, RowFits, RowTyped, CkFits, LockFits, AskedFits, Files
  <2>4. (job[worker.job].lock)' = job[j].lock
    BY <1>1, <2>1
  <2>5. QED
    BY <1>2, <2>1, <2>2, <2>3, <2>4 DEF NextOK, RowOK, RowFits
<1>9. SendingOK' /\ InCall' /\ OneLock' /\ FreshOK'
  BY <1>1, <1>2 DEF SendingOK, InCall, RequestInv, OneLock, LockHeld, Files, Shape, FreshOK
<1>10. QED
  BY <1>5, <1>7, <1>8, <1>9 DEF RequestInv

LEMMA AnsweredOK ==
  ASSUME Shape, RequestInv, NEW j \in Jobs,
         SendUnneeded(j) \/ AnswerTask(j) \/ AnswerDone(j), UNCHANGED <<qbVars, stopped>>
  PROVE  RequestInv'
<1>0. {"copying", "copy_submitting"} \subseteq Stages \cap LockStages
  BY DEF Stages, CopyStages, LockStages
<1>1. /\ worker.pc \in {"sending", "sent"} /\ worker.job = j /\ worker.next.ck.op # "RemoveFile"
      /\ UNCHANGED job /\ UNCHANGED RequestVars /\ UNCHANGED stopped
  BY DEF SendUnneeded, AnswerTask, AnswerDone, InCopyCall, RequestVars, copyVars, qbVars
<1>2. /\ RowOK(j, worker.next) /\ worker.next \in Rows
      /\ worker.fresh /\ worker.next.lock => job[j].lock
      /\ worker.next.ck \in {CopySent, DirSent}
      /\ worker.next.cursor + 1 \in Files(j)
      /\ worker.next.stage = "copy_submitting"
  <2>1. worker.next.ck # RemovalSent
    BY <1>1 DEF RemovalSent
  <2>2. RowOK(j, worker.next) /\ worker.next.ck \in {CopySent, DirSent}
    BY <1>1, <2>1 DEF RequestInv, NextOK, InPass, InCall
  <2>3. worker.next.stage = "copy_submitting"
    BY <1>1, <2>2 DEF RequestInv, InCall, RowOK, RowFits, CkFits, CopySent, DirSent
  <2>4. QED
    BY <1>1, <2>2, <2>3 DEF RequestInv, NextOK, InPass, InCall, Shape
<1>b. ASSUME NEW row \in Rows, worker' = [worker EXCEPT !.pc = "decided", !.next = row],
             RowFits(row), row.ck = worker.next.ck, row.cursor = worker.next.cursor,
             row.lock = worker.next.lock
      PROVE  RequestInv'
  <2>1. RowOK(j, row)
    BY <1>2, <1>b, FitsKept DEF RowOK
  <2>2. QED
    BY <1>1, <1>2, <1>b, <2>1, ResultOK
<1>3. CASE SendUnneeded(j)
  <2>1. worker' = [worker EXCEPT !.pc = "decided", !.next = worker.next]
    BY <1>3 DEF SendUnneeded, Shape
  <2>2. QED
    BY <1>b, <1>2, <2>1 DEF RowOK
<1>4. CASE AnswerTask(j)
  <2> DEFINE row == [Moved(worker.next, "copying") EXCEPT !.tasks = InHand]
  <2>1. worker.next.ck = CopySent /\ InHand = worker.next.cursor + 1 /\ InHand \in Nat
        /\ InHand <= MaxFiles
    <3>1. InHand # 0
      BY <1>4 DEF AnswerTask
    <3>2. QED
      BY <1>2, <3>1, FilesAreSmall DEF InHand, DirSent, CopySent
  <2>2. /\ row \in Rows /\ row.ck = worker.next.ck /\ row.cursor = worker.next.cursor
        /\ row.lock = worker.next.lock /\ row.stage = "copying" /\ row.tasks = InHand
    BY <1>0, <1>2, <2>1 DEF Rows, Moved
  <2>3. worker' = [worker EXCEPT !.pc = "decided", !.next = row]
    BY <1>4 DEF AnswerTask
  <2> HIDE DEF row
  <2>4. RowFits(row)
    BY <1>0, <1>2, <2>1, <2>2 DEF RowOK, RowFits, RowTyped, CkFits, LockFits, CopySent
  <2>5. QED
    BY <1>b, <2>2, <2>3, <2>4
<1>5. CASE AnswerDone(j)
  <2> DEFINE row == [worker.next EXCEPT !.tasks = 0]
  <2>1. /\ row \in Rows /\ row.ck = worker.next.ck /\ row.cursor = worker.next.cursor
        /\ row.lock = worker.next.lock /\ row.stage = worker.next.stage /\ row.tasks = 0
    BY <1>2 DEF Rows
  <2>2. worker' = [worker EXCEPT !.pc = "decided", !.next = row]
    BY <1>5 DEF AnswerDone, Shape
  <2> HIDE DEF row
  <2>3. RowFits(row)
    BY <1>2, <2>1, JobsAssumption DEF RowOK, RowFits, RowTyped, CkFits, LockFits
  <2>4. QED
    BY <1>b, <2>1, <2>2, <2>3
<1>6. QED
  BY <1>3, <1>4, <1>5

-----------------------------------------------------------------------------
(* The removals a pass asks for.                                           *)

LEMMA CheckpointRemovalOK ==
  ASSUME Shape, RequestInv, NEW j \in Jobs, CheckpointRemoval(j), UNCHANGED stopped
  PROVE  RequestInv'
<1>0. {"source_removing"} \cap Finished = {}
  BY DEF Finished
<1>1. /\ Working(j, {"source_removing"})
      /\ NextFile(j) \in Files(j) \ setup[j].shared
      /\ NextFile(j) \in source[j]
      /\ job[j].ck.op # "RemoveFile"
      /\ job' = [job EXCEPT ![j].ck = RemovalSent]
      /\ worker' = [worker EXCEPT !.pc = "sending", !.next = [job'[j] EXCEPT !.leased = FALSE]]
      /\ UNCHANGED RequestVars /\ UNCHANGED stopped
  BY DEF CheckpointRemoval, OwnFile, AllThere, Removing, At, Unasked, RemovalSent, QbUnchanged,
         RequestVars, copyVars, qbVars
<1>2. /\ worker.pc = "claimed" /\ worker.job = j /\ job[j] \in Rows /\ RowOK(j, job[j])
      /\ job[j].stage = "source_removing" /\ RowFits(job[j]) /\ HistoryOK /\ j \notin stopped
  BY <1>0, <1>1, PassRow DEF RowOK, RequestInv
<1>3. job[j].ck = NoCk /\ Quiet(job[j]) /\ ~job[j].lock
  BY <1>1, <1>2, NoCheckpoint DEF RowFits, RowTyped, CkFits, LockFits, Checkpoints, Quiet, NoCk,
                                  LockStages, CopyStages
<1>4. removals[j][NextFile(j)] = 0
  BY <1>1, <1>2, <1>3 DEF RowOK, AskedFits, Quiet
<1> DEFINE row == [job[j] EXCEPT !.ck = RemovalSent]
<1>5. /\ RemovalSent \in Checkpoints /\ RemovalSent.op = "RemoveFile"
      /\ RemovalSent # CopySent /\ RemovalSent # DirSent
      /\ RemovalSent \in [op : {"none", "CopyFile", "CreateDirectory", "RemoveFile", "ReviewExisting"},
                          phase : {"none", "Prepared", "Uncertain"}]
  BY DEF CopySent, DirSent, RemovalSent, Checkpoints
<1>6. /\ row \in Rows /\ row.stage = job[j].stage /\ row.cursor = job[j].cursor
      /\ row.lock = job[j].lock /\ row.ck = RemovalSent /\ row.tasks = job[j].tasks
  BY <1>2, <1>5 DEF Rows
<1>7. job' = [job EXCEPT ![j] = row]
  BY <1>1 DEF Shape
<1> HIDE DEF row
<1>8. worker' = [worker EXCEPT !.pc = "sending", !.next = [row EXCEPT !.leased = FALSE]]
  BY <1>1, <1>7 DEF Shape
<1>9. RowFits(row)
  BY <1>2, <1>3, <1>5, <1>6 DEF RowFits, RowTyped, CkFits, LockFits
<1>10. RowOK(j, row)
  BY <1>2, <1>3, <1>9, FitsKept DEF RowOK
<1>11. QED
  BY <1>1, <1>2, <1>4, <1>5, <1>6, <1>7, <1>8, <1>10, CheckpointOK DEF NextFile

LEMMA SendRemovalOK ==
  ASSUME Shape, RequestInv, AskedForOwn, NEW j \in Jobs, SendRemoval(j), UNCHANGED stopped
  PROVE  RequestInv'
<1>1. /\ worker.pc = "sending" /\ worker.job = j /\ worker.next.ck.op = "RemoveFile"
      /\ removals' = [removals EXCEPT ![j][InHand] = IF @ < 2 THEN @ + 1 ELSE @]
      /\ worker' = [worker EXCEPT !.pc = "decided"]
      /\ InHand = worker.next.cursor + 1
      /\ UNCHANGED <<setup, job, source, dir, target, op, sent, stopped>>
  BY DEF SendRemoval, InRemoval, InHand, copyVars
<1>2. /\ removals[j][InHand] = 0 /\ HistoryOK /\ RowOK(j, worker.next) /\ RowTyped(worker.next)
      /\ InHand \in Files(j) \ setup[j].shared
      /\ j \in stopped \/ (/\ job[j].stage = "source_removing"
                           /\ job[j].ck = worker.next.ck
                           /\ job[j].cursor = worker.next.cursor)
      /\ worker.fresh /\ worker.next.lock => job[j].lock
  <2>1. InHand \in Files(j) \ setup[j].shared
    BY <1>1 DEF AskedForOwn, AskedToRemove
  <2>2. RowOK(j, worker.next)
    BY <1>1 DEF RequestInv, NextOK, InPass
  <2>3. worker.next.stage = "source_removing"
    BY <1>1, <2>2 DEF RequestInv, InCall, RowOK, RowFits, CkFits
  <2>4. QED
    BY <1>1, <2>1, <2>2, <2>3 DEF RequestInv, NextOK, InPass, SendingOK
<1>3. /\ \A k \in Jobs, f \in AllFiles :
           removals'[k][f] = IF k = j /\ f = InHand THEN 1 ELSE removals[k][f]
      /\ removals' \in [Jobs -> [AllFiles -> {0, 1}]]
  BY <1>1, <1>2, FilesAreSmall DEF HistoryOK
<1>4. HistoryOK'
  BY <1>1, <1>2, <1>3 DEF HistoryOK, Files
<1>5. \A k \in Jobs : JobOK(k)'
  <2>1. ASSUME NEW k \in Jobs, k # j PROVE JobOK(k)'
    <3>1. \A f \in Files(k) : removals'[k][f] = removals[k][f]
      BY <1>3, <2>1, FilesAreSmall
    <3>2. JobOK(k)
      BY DEF RequestInv
    <3>3. QED
      BY <1>1, <3>1, <3>2 DEF JobOK, RowOK, RowFits, RowTyped, CkFits, LockFits, SentFits, AskedFits,
           Landed, Writing, Underway, Files
  <2>2. JobOK(j)'
    <3>1. JobOK(j)
      BY DEF RequestInv
    <3>2. CASE j \in stopped
      BY <1>1, <3>1, <3>2 DEF JobOK, RowTyped
    <3>3. CASE j \notin stopped
      <4>1. RowOK(j, job[j]) /\ job[j].stage \notin Finished
        BY <1>2, <3>1, <3>3 DEF JobOK, Finished
      <4>2. AskedFits(j, job[j])'
        BY <1>1, <1>2, <1>3, <3>3, <4>1, FilesAreSmall DEF RowOK, AskedFits, Files
      <4>3. SentFits(j, job[j])' /\ RowFits(job[j])'
        BY <1>1, <4>1 DEF RowOK, RowFits, RowTyped, CkFits, LockFits, SentFits, Landed, Files
      <4>4. QED
        BY <1>1, <3>3, <4>1, <4>2, <4>3 DEF JobOK, RowOK
    <3>4. QED
      BY <3>2, <3>3
  <2>3. QED
    BY <2>1, <2>2
<1>6. NextOK'
  <2>1. /\ worker'.next = worker.next /\ worker'.job = j /\ worker'.pc = "decided"
        /\ worker'.fresh = worker.fresh
    BY <1>1 DEF Shape
  <2>2. AskedFits(worker.job, worker.next)'
    BY <1>1, <1>2, <1>3, <2>1, FilesAreSmall DEF RowOK, AskedFits, Files
  <2>3. SentFits(worker.job, worker.next)' /\ RowFits(worker.next)'
    BY <1>1, <1>2, <2>1 DEF RowOK, RowFits, RowTyped, CkFits, LockFits, SentFits, Landed, Files
  <2>4. (job[worker.job].lock)' = job[j].lock
    BY <1>1, <2>1
  <2>5. QED
    BY <1>2, <2>1, <2>2, <2>3, <2>4 DEF NextOK, RowOK, RowFits
<1>7. SendingOK' /\ InCall' /\ OneLock' /\ FreshOK'
  BY <1>1 DEF SendingOK, InCall, RequestInv, OneLock, LockHeld, Shape, FreshOK
<1>8. QED
  BY <1>4, <1>5, <1>6, <1>7 DEF RequestInv

LEMMA RemovalUnneededOK ==
  ASSUME Shape, RequestInv, NEW j \in Jobs, RemovalUnneeded(j), UNCHANGED stopped
  PROVE  RequestInv'
<1>1. /\ worker.pc = "sending" /\ worker.job = j
      /\ worker' = [worker EXCEPT !.pc = "decided", !.next = worker.next]
      /\ UNCHANGED job /\ UNCHANGED RequestVars /\ UNCHANGED stopped
  BY DEF RemovalUnneeded, InRemoval, QbUnchanged, RequestVars, copyVars, qbVars, Shape
<1>2. /\ RowOK(j, worker.next) /\ worker.next \in Rows
      /\ worker.fresh /\ worker.next.lock => job[j].lock
  BY <1>1 DEF RequestInv, NextOK, InPass, Shape
<1>3. QED
  BY <1>1, <1>2, ResultOK

-----------------------------------------------------------------------------
(* The handover.                                                           *)

(* Its stages around the checkpoints.                                      *)
PlainStages ==
  {"copy_verified", "torrent_exported", "qb_reconcile", "source_qb_removed",
   "target_qb_submitted", "target_qb_check_requested", "target_qb_checking",
   "target_qb_starting", "source_removed", "qb_manual_review", "completed"}

LEMMA OnwardDecides ==
  ASSUME Shape, RequestInv, NEW j \in Jobs, NEW from \in PlainStages \ Finished,
         Working(j, {from}), NEW row \in Rows, Decide(j, row), RemovalsUnchanged,
         row.stage \in PlainStages, row.ck = job[j].ck, row.cursor = job[j].cursor,
         row.lock = job[j].lock, row.tasks = job[j].tasks
  PROVE  Decides(j)
<1>1. /\ worker.pc = "claimed" /\ worker.job = j /\ job[j] \in Rows /\ RowOK(j, job[j])
      /\ job[j].stage = from
  BY PassRow
<1>2. job[j].ck = NoCk /\ Quiet(job[j])
  BY <1>1, NoCheckpointStages DEF RowOK, PlainStages
<1>3. ~job[j].lock /\ RowTyped(job[j])
  BY <1>1 DEF RowOK, RowFits, LockFits, LockStages, CopyStages, PlainStages
<1>4. RowFits(row)
  BY <1>2, <1>3, ClearedFits DEF RowTyped, PlainStages
<1>5. UNCHANGED RequestVars
  BY DEF RequestVars, RemovalsUnchanged, copyVars, Decide
<1>6. QED
  BY <1>1, <1>2, <1>4, <1>5, DecidesRow

LEMMA BecomesDecides ==
  ASSUME Shape, RequestInv, NEW j \in Jobs, NEW from \in PlainStages \ Finished, At(j, from),
         NEW to \in PlainStages, Becomes(j, to) \/ Decide(j, Kept(Moved(job[j], to))),
         RemovalsUnchanged
  PROVE  Decides(j)
<1>1. job[j] \in Rows /\ to \in Stages /\ Working(j, {from})
  BY DEF Shape, PlainStages, Stages, Finished, Review, TargetQbStages, At
<1> DEFINE row == Moved(job[j], to)
<1>2. /\ row \in Rows /\ row.stage = to /\ row.ck = job[j].ck /\ row.cursor = job[j].cursor
      /\ row.lock = job[j].lock /\ row.tasks = job[j].tasks
  BY <1>1, StageFields DEF Moved
<1>3. CASE Becomes(j, to)
  BY <1>1, <1>2, <1>3, OnwardDecides DEF Becomes
<1>4. CASE Decide(j, Kept(row))
  <2> HIDE DEF row
  <2>1. /\ Kept(row) \in Rows /\ Kept(row).stage = to /\ Kept(row).ck = job[j].ck
        /\ Kept(row).cursor = job[j].cursor /\ Kept(row).lock = job[j].lock
        /\ Kept(row).tasks = job[j].tasks
    BY <1>2 DEF Kept, Rows
  <2>2. QED
    BY <1>1, <1>4, <2>1, OnwardDecides
<1>5. QED
  BY <1>3, <1>4

LEMMA TorrentDecides ==
  ASSUME Shape, RequestInv, NEW j \in Jobs,
         \/ Export(j) \/ QbReconcile(j) \/ DeleteAndAdd(j) \/ KeepSource(j)
         \/ TargetListed(j) \/ AddToTarget(j) \/ AskForCheck(j) \/ AwaitCheck(j)
         \/ CheckOpen(j) \/ CheckPassed(j) \/ AwaitSeeding(j)
  PROVE  Decides(j)
<1>0. /\ {"copy_verified", "torrent_exported", "qb_reconcile", "source_qb_removed",
          "target_qb_submitted", "target_qb_check_requested", "target_qb_checking",
          "target_qb_starting", "source_removed", "qb_manual_review"} \subseteq PlainStages \ Finished
      /\ Classified(j) \in PlainStages
      /\ QbUnchanged => RemovalsUnchanged
  BY DEF PlainStages, Finished, Classified, QbUnchanged, RemovalsUnchanged, qbVars
<1>b. ASSUME NEW from \in PlainStages \ Finished, At(j, from),
             NEW to \in PlainStages, Becomes(j, to) \/ Decide(j, Kept(Moved(job[j], to))),
             RemovalsUnchanged
      PROVE  Decides(j)
  BY <1>b, BecomesDecides
<1>1. CASE Export(j)
  BY <1>0, <1>1, <1>b DEF Export
<1>2. CASE QbReconcile(j)
  <2>1. At(j, "qb_reconcile") /\ RemovalsUnchanged
    BY <1>0, <1>2 DEF QbReconcile
  <2>2. \E to \in PlainStages : Becomes(j, to) \/ Decide(j, Kept(Moved(job[j], to)))
    BY <1>0, <1>2 DEF QbReconcile, Becomes
  <2>3. QED
    BY <1>0, <1>b, <2>1, <2>2
<1>3. CASE DeleteAndAdd(j)
  <2>1. At(j, "torrent_exported") /\ RemovalsUnchanged
    BY <1>3 DEF DeleteAndAdd
  <2>2. \E to \in PlainStages : Becomes(j, to)
    BY <1>0, <1>3 DEF DeleteAndAdd
  <2>3. QED
    BY <1>0, <1>b, <2>1, <2>2
<1>4. CASE KeepSource(j)
  BY <1>0, <1>4, <1>b DEF KeepSource
<1>5. CASE TargetListed(j)
  <2>1. At(j, "source_qb_removed") /\ RemovalsUnchanged
    BY <1>0, <1>5 DEF TargetListed
  <2>2. \E to \in PlainStages : Becomes(j, to)
    BY <1>0, <1>5 DEF TargetListed
  <2>3. QED
    BY <1>0, <1>b, <2>1, <2>2
<1>6. CASE AddToTarget(j)
  BY <1>0, <1>6, <1>b DEF AddToTarget
<1>7. CASE AskForCheck(j)
  <2>1. At(j, "target_qb_submitted") /\ RemovalsUnchanged
    BY <1>7 DEF AskForCheck
  <2>2. \E to \in PlainStages : Becomes(j, to)
    BY <1>0, <1>7 DEF AskForCheck
  <2>3. QED
    BY <1>0, <1>b, <2>1, <2>2
<1>8. CASE AwaitCheck(j)
  <2>1. At(j, "target_qb_check_requested") /\ RemovalsUnchanged
    BY <1>0, <1>8 DEF AwaitCheck
  <2>2. \E to \in PlainStages : Becomes(j, to)
    BY <1>0, <1>8 DEF AwaitCheck
  <2>3. QED
    BY <1>0, <1>b, <2>1, <2>2
<1>9. CASE CheckOpen(j)
  <2>1. At(j, "target_qb_checking") /\ RemovalsUnchanged
    BY <1>0, <1>9 DEF CheckOpen
  <2>2. \E to \in PlainStages : Becomes(j, to)
    BY <1>0, <1>9 DEF CheckOpen
  <2>3. QED
    BY <1>0, <1>b, <2>1, <2>2
<1>10. CASE CheckPassed(j)
  BY <1>0, <1>10, <1>b DEF CheckPassed
<1>11. CASE AwaitSeeding(j)
  <2>1. At(j, "target_qb_starting") /\ RemovalsUnchanged
    BY <1>0, <1>11 DEF AwaitSeeding
  <2>2. \E to \in PlainStages : Becomes(j, to)
    BY <1>0, <1>11 DEF AwaitSeeding
  <2>3. QED
    BY <1>0, <1>b, <2>1, <2>2
<1>12. QED
  BY <1>1, <1>2, <1>3, <1>4, <1>5, <1>6, <1>7, <1>8, <1>9, <1>10, <1>11

LEMMA FinishDecides ==
  ASSUME Shape, RequestInv, NEW j \in Jobs, Seeding(j) \/ Finish(j)
  PROVE  Decides(j)
<1>0. /\ {"source_removing", "completed"} \subseteq Stages
      /\ {"target_qb_starting", "source_removed"} \subseteq PlainStages \ Finished
      /\ "completed" \in PlainStages
  BY DEF Stages, Finished, TargetQbStages, PlainStages
<1>1. CASE Seeding(j)
  <2> DEFINE row == [Without(Moved(job[j], "source_removing")) EXCEPT !.cursor = 0]
  <2>1. Working(j, {"target_qb_starting"}) /\ Decide(j, row) /\ RemovalsUnchanged
    BY <1>1 DEF Seeding, At, QbUnchanged, RemovalsUnchanged, qbVars
  <2>2. /\ worker.pc = "claimed" /\ worker.job = j /\ job[j] \in Rows /\ RowOK(j, job[j])
        /\ job[j].stage = "target_qb_starting"
    BY <2>1, PassRow DEF Finished
  <2>3. Quiet(job[j])
    BY <2>2, NoCheckpointStages DEF RowOK
  <2>4. row \in Rows /\ row.ck = NoCk /\ ~row.lock /\ row.cursor = 0 /\ row.tasks = 0
        /\ row.stage = "source_removing"
    BY <1>0, <2>2 DEF Rows, NoCk, Without, Moved
  <2> HIDE DEF row
  <2>5. RowFits(row)
    BY <2>4, ClearedFits, JobsAssumption
  <2>6. UNCHANGED RequestVars
    BY <2>1 DEF RequestVars, RemovalsUnchanged, copyVars, Decide
  <2>7. QED
    BY <2>1, <2>2, <2>3, <2>4, <2>5, <2>6, DecidesRow
<1>2. CASE Finish(j)
  <2> DEFINE row == [Moved(job[j], "completed") EXCEPT !.exported = FALSE]
  <2>1. Working(j, {"source_removed"}) /\ Decide(j, row) /\ RemovalsUnchanged
    BY <1>2 DEF Finish, At, QbUnchanged, RemovalsUnchanged, qbVars
  <2>2. job[j] \in Rows
    BY DEF Shape
  <2>3. /\ row \in Rows /\ row.stage = "completed" /\ row.ck = job[j].ck
        /\ row.cursor = job[j].cursor /\ row.lock = job[j].lock /\ row.tasks = job[j].tasks
    BY <1>0, <2>2 DEF Rows, Moved
  <2> HIDE DEF row
  <2>4. QED
    BY <1>0, <2>1, <2>3, OnwardDecides
<1>3. QED
  BY <1>1, <1>2

(* The removal of a file is over, or there is none.                        *)
LEMMA RemovedFits ==
  ASSUME NEW j \in Jobs, RowOK(j, job[j]), job[j].ck.op \in {"none", "RemoveFile"},
         job[j].cursor + 1 \in Files(j) => job[j].cursor + 1 \in setup[j].shared
                                             \/ job[j].cursor + 1 \notin source[j],
         NEW row
  PROVE  SentFits(j, row) /\ AskedFits(j, row)
<1>1. job[j].ck # CopySent /\ job[j].ck # DirSent
  BY DEF CopySent, DirSent
<1>2. SentFits(j, row)
  BY <1>1 DEF RowOK, SentFits
<1>3. AskedFits(j, row)
  BY DEF RowOK, AskedFits
<1>4. QED
  BY <1>2, <1>3

LEMMA RemovingDecides ==
  ASSUME Shape, RequestInv, NEW j \in Jobs,
         TargetLost(j) \/ AllRemoved(j) \/ SharedFile(j) \/ FileGone(j) \/ RemovalUncertain(j)
  PROVE  Decides(j)
<1>0. /\ {"source_removing"} \cap Finished = {}
      /\ {"source_removing", "source_removed", "source_remove_manual_review"} \subseteq Stages
  BY DEF Stages, Finished, Review, TargetQbStages
<1>1. Working(j, {"source_removing"}) /\ RemovalsUnchanged
  BY DEF TargetLost, AllRemoved, SharedFile, FileGone, RemovalUncertain, OwnFile, AllThere, Removing,
         At, QbUnchanged, RemovalsUnchanged, qbVars
<1>2. /\ worker.pc = "claimed" /\ worker.job = j /\ job[j] \in Rows /\ RowOK(j, job[j])
      /\ job[j].stage = "source_removing" /\ RowFits(job[j]) /\ HistoryOK /\ RowTyped(job[j])
      /\ job[j].cursor \in Nat
  BY <1>0, <1>1, PassRow DEF RowOK, RowFits, RequestInv, Rows
<1>3. ~job[j].lock /\ job[j].ck.op \in {"none", "RemoveFile"}
  BY <1>2 DEF RowFits, RowTyped, CkFits, LockFits, LockStages, CopyStages, Checkpoints, NoCk
<1>b. ASSUME NEW row \in Rows, Decide(j, row), RowOK(j, row), ~row.lock
      PROVE  Decides(j)
  BY <1>1, <1>2, <1>b DEF RequestVars, RemovalsUnchanged, copyVars, Decide, Decides
<1>c. ASSUME NEW stage \in {"source_removing", "source_remove_manual_review"}, Becomes(j, stage)
      PROVE  Decides(j)
  <2> DEFINE row == Moved(job[j], stage)
  <2>1. /\ row \in Rows /\ row.stage = stage /\ row.ck = job[j].ck
        /\ row.lock = job[j].lock /\ row.tasks = job[j].tasks /\ row.cursor = job[j].cursor
    BY <1>0, <1>2, StageFields DEF Moved
  <2>2. Decide(j, row)
    BY <1>c DEF Becomes
  <2> HIDE DEF row
  <2>3. RowFits(row)
    BY <1>2, <1>3, <2>1 DEF RowFits, RowTyped, CkFits, LockFits, CopySent
  <2>4. RowOK(j, row)
    BY <1>2, <2>1, <2>3, FitsKept DEF RowOK
  <2>5. QED
    BY <1>b, <1>3, <2>1, <2>2, <2>4
<1>d. ASSUME NEW cursor \in Nat, cursor <= MaxFiles,
             Decide(j, [job[j] EXCEPT !.ck = NoCk, !.cursor = cursor]),
             job[j].cursor + 1 \in setup[j].shared \/ job[j].cursor + 1 \notin source[j]
      PROVE  Decides(j)
  <2> DEFINE row == [job[j] EXCEPT !.ck = NoCk, !.cursor = cursor]
  <2>1. /\ row \in Rows /\ row.stage = "source_removing" /\ row.ck = NoCk
        /\ ~row.lock /\ row.tasks = job[j].tasks /\ row.cursor = cursor
    BY <1>2, <1>3 DEF Rows, NoCk
  <2>2. Decide(j, row)
    BY <1>d
  <2> HIDE DEF row
  <2>3. RowFits(row)
    BY <1>2, <1>d, <2>1, ClearedFits DEF RowTyped
  <2>4. RowOK(j, row)
    BY <1>2, <1>3, <1>d, <2>3, RemovedFits DEF RowOK
  <2>5. QED
    BY <1>b, <2>1, <2>2, <2>4
<1>4. CASE TargetLost(j)
  BY <1>4, <1>c DEF TargetLost
<1>5. CASE RemovalUncertain(j)
  BY <1>5, <1>c DEF RemovalUncertain
<1>6. CASE SharedFile(j) \/ FileGone(j)
  <2>1. NextFile(j) \in Files(j)
    BY <1>6 DEF SharedFile, FileGone, OwnFile
  <2>2. job[j].cursor + 1 \in Nat /\ job[j].cursor + 1 <= MaxFiles
    BY <2>1, FilesAreSmall DEF NextFile
  <2>3. job[j].cursor + 1 \in setup[j].shared \/ job[j].cursor + 1 \notin source[j]
    BY <1>6 DEF SharedFile, FileGone, NextFile
  <2>4. Decide(j, [job[j] EXCEPT !.ck = NoCk, !.cursor = job[j].cursor + 1])
    <3>1. [job[j] EXCEPT !.ck = NoCk, !.cursor = @ + 1]
            = [job[j] EXCEPT !.ck = NoCk, !.cursor = job[j].cursor + 1]
      OBVIOUS
    <3>2. QED
      BY <1>6, <3>1 DEF SharedFile, FileGone
  <2>5. QED
    BY <1>d, <2>2, <2>3, <2>4
<1>7. CASE AllRemoved(j)
  <2> DEFINE row == Without(Moved(job[j], "source_removed"))
  <2>1. Decide(j, row) /\ job[j].cursor = setup[j].files
    BY <1>7 DEF AllRemoved
  <2>2. /\ row \in Rows /\ row.stage = "source_removed" /\ row.ck = NoCk
        /\ ~row.lock /\ row.tasks = 0 /\ row.cursor = job[j].cursor
    BY <1>0, <1>2 DEF Rows, NoCk, Without, Moved
  <2> HIDE DEF row
  <2>3. RowFits(row)
    BY <1>2, <2>2, ClearedFits, JobsAssumption DEF RowTyped
  <2>4. job[j].cursor + 1 \notin Files(j)
    BY <1>2, <2>1 DEF Files
  <2>5. RowOK(j, row)
    BY <1>2, <1>3, <2>3, <2>4, RemovedFits DEF RowOK
  <2>6. QED
    BY <1>b, <2>1, <2>2, <2>5
<1>8. QED
  BY <1>4, <1>5, <1>6, <1>7

-----------------------------------------------------------------------------
(* The loop's bookkeeping and people.                                      *)

LEMMA OpenJobOK ==
  ASSUME UNCHANGED RequestVars, NEW j \in Jobs, NEW row, job'[j] = row, row.stage \notin Finished,
         j \notin stopped', RowOK(j, row)
  PROVE  JobOK(j)'
<1>1. RowFits(job[j])'
  BY DEF RowOK, RowFits, RowTyped, CkFits, LockFits
<1>2. SentFits(j, job[j])'
  BY DEF RequestVars, RowOK, SentFits, Landed, Files
<1>3. AskedFits(j, job[j])'
  BY DEF RequestVars, RowOK, AskedFits, Files
<1>4. QED
  BY <1>1, <1>2, <1>3 DEF JobOK, RowOK

LEMMA EndedJobOK ==
  ASSUME UNCHANGED RequestVars, NEW j \in Jobs, NEW row, job'[j] = row, row.stage \in Finished,
         RowTyped(row), j \in stopped' \/ ~Writing(j)
  PROVE  JobOK(j)'
BY DEF JobOK, RequestVars, RowTyped, Writing, Underway, Files

(* Writes that leave the pass in progress where it is.                     *)
Rewritten(j) ==
  /\ JobOK(j)'
  /\ LockHeld(j)' => LockHeld(j)
  /\ \/ j \in stopped'
     \/ job[j].stage \notin {"copy_submitting", "source_removing"}
     \/ /\ job'[j].stage = job[j].stage
        /\ job'[j].ck = job[j].ck /\ job'[j].cursor = job[j].cursor
  /\ worker.job = j /\ worker'.fresh =>
       /\ job[j].lock => job'[j].lock
       /\ job'[j].stage \in Review => job[j].stage \in Review

LEMMA SameRewritten ==
  ASSUME UNCHANGED RequestVars, NEW j \in Jobs, JobOK(j),
         job'[j] = job[j] \/ \E leased \in BOOLEAN : job'[j] = [job[j] EXCEPT !.leased = leased],
         stopped' \cap {j} = stopped \cap {j}, job[j] \in Rows
  PROVE  Rewritten(j)
<1>1. SameWork(job'[j], job[j])
  BY DEF SameWork, Rows
<1>2. JobOK(j)'
  <2>1. CASE job[j].stage \in Finished
    BY <1>1, <2>1, SameWorkOK, EndedJobOK DEF SameWork, JobOK
  <2>2. CASE job[j].stage \notin Finished
    BY <1>1, <2>2, SameWorkOK, OpenJobOK DEF SameWork, JobOK
  <2>3. QED
    BY <2>1, <2>2
<1>3. QED
  BY <1>1, <1>2 DEF Rewritten, SameWork, LockHeld

LEMMA RewrittenOK ==
  ASSUME Shape, RequestInv, UNCHANGED RequestVars, stopped \subseteq stopped',
         \A j \in Jobs : Rewritten(j),
         worker' = worker \/ worker' = [worker EXCEPT !.fresh = FALSE]
  PROVE  RequestInv'
<1>1. /\ worker'.pc = worker.pc /\ worker'.job = worker.job /\ worker'.next = worker.next
      /\ worker'.fresh => worker.fresh
  BY DEF Shape
<1>2. HistoryOK' /\ \A j \in Jobs : JobOK(j)'
  BY HistoryKept DEF RequestInv, Rewritten
<1>3. NextOK'
  <2>1. RowTyped(worker.next)'
    BY <1>1 DEF RequestInv, NextOK, RowTyped
  <2>2. CASE InPass
    <3>0. PICK w \in Jobs : w = worker.job
      BY <2>2 DEF InPass, Shape
    <3>1. /\ RowOK(w, worker.next)
          /\ worker.fresh /\ worker.next.lock => job[w].lock
      BY <2>2, <3>0 DEF RequestInv, NextOK
    <3>a. PICK row : row = worker.next
      OBVIOUS
    <3>2. RowOK(worker.job, worker.next)'
      BY <1>1, <3>0, <3>1, <3>a, NextKept
    <3>3. worker'.fresh /\ worker'.next.lock => job'[w].lock
      BY <1>1, <3>0, <3>1 DEF Rewritten
    <3>4. QED
      BY <1>1, <2>1, <3>0, <3>2, <3>3 DEF NextOK
  <2>3. CASE ~InPass
    BY <1>1, <2>1, <2>3 DEF NextOK, InPass
  <2>4. QED
    BY <2>2, <2>3
<1>4. InCall'
  BY <1>1 DEF RequestInv, InCall, RequestVars, Files
<1>5. SendingOK'
  <2>1. SUFFICES ASSUME worker.pc = "sending" PROVE SendingOK'
    BY <1>1 DEF SendingOK
  <2>2. InHand' = InHand
    BY <1>1 DEF InHand
  <2>3. /\ worker.job \in Jobs
        /\ worker.next.stage \in {"copy_submitting", "source_removing"}
    BY <2>1 DEF Shape, RequestInv, InCall
  <2>4. /\ IF worker.next.ck.op = "RemoveFile"
             THEN removals[worker.job][InHand] = 0 ELSE sent[worker.job][InHand] = 0
        /\ \/ worker.job \in stopped
           \/ /\ job[worker.job].stage = worker.next.stage
              /\ job[worker.job].ck = worker.next.ck
              /\ job[worker.job].cursor = worker.next.cursor
    BY <2>1 DEF RequestInv, SendingOK
  <2>5. Rewritten(worker.job)
    BY <2>3
  <2>6. \/ worker.job \in stopped'
        \/ /\ job'[worker.job].stage = worker.next.stage
           /\ job'[worker.job].ck = worker.next.ck
           /\ job'[worker.job].cursor = worker.next.cursor
    BY <2>3, <2>4, <2>5 DEF Rewritten
  <2>7. QED
    BY <1>1, <2>2, <2>4, <2>6 DEF SendingOK, RequestVars
<1>6. OneLock'
  BY DEF RequestInv, OneLock, Rewritten
<1>7. FreshOK'
  BY <1>1 DEF RequestInv, FreshOK, Rewritten, Shape
<1>8. QED
  BY <1>2, <1>3, <1>4, <1>5, <1>6, <1>7 DEF RequestInv

(* A pass ends, or begins.                                                 *)
LEMMA PassEndsOK ==
  ASSUME Shape, RequestInv, UNCHANGED RequestVars, UNCHANGED stopped,
         \A j \in Jobs : JobOK(j)', \A j \in Jobs : LockHeld(j)' => LockHeld(j),
         worker'.pc \in {"idle", "claimed"}, worker'.next = NoRow,
         worker'.pc # "idle" => job'[worker'.job].stage \notin Review
  PROVE  RequestInv'
<1>1. RowTyped(NoRow)
  BY NoCheckpoint, JobsAssumption DEF RowTyped, NoRow
<1>2. HistoryOK' /\ OneLock'
  BY HistoryKept DEF RequestInv, OneLock
<1>3. NextOK' /\ SendingOK' /\ InCall' /\ FreshOK'
  BY <1>1 DEF NextOK, RowTyped, InPass, SendingOK, InCall, FreshOK
<1>4. QED
  BY <1>2, <1>3 DEF RequestInv

LEMMA LoopOK ==
  ASSUME Shape, FreshInv, RequestInv, UNCHANGED <<copyVars, qbVars, stopped>>,
         (\E j \in Jobs : Claim(j) \/ LeaseExpires(j)) \/ Commit \/ Fail \/ Crash
  PROVE  RequestInv'
<1>0. /\ UNCHANGED setup => UNCHANGED RequestVars
      /\ \A j \in Jobs : job[j] \in Rows /\ JobOK(j)
      /\ \A j \in Jobs : LockHeld(j)' => LockHeld(j) \/ job'[j] # job[j]
  BY DEF RequestVars, copyVars, qbVars, Shape, RequestInv, LockHeld
<1>1. ASSUME NEW j \in Jobs, LeaseExpires(j) PROVE RequestInv'
  <2>1. /\ UNCHANGED <<setup, worker>>
        /\ \A k \in Jobs : job'[k] = job[k]
             \/ \E leased \in BOOLEAN : job'[k] = [job[k] EXCEPT !.leased = leased]
    BY <1>1 DEF LeaseExpires, Shape
  <2>2. \A k \in Jobs : Rewritten(k)
    BY <1>0, <2>1, SameRewritten
  <2>3. QED
    BY <1>0, <2>1, <2>2, RewrittenOK
<1>2. ASSUME NEW j \in Jobs, Claim(j) PROVE RequestInv'
  <2>1. /\ UNCHANGED setup /\ worker'.pc = "claimed" /\ worker'.next = NoRow
        /\ \A k \in Jobs : job'[k] = job[k]
             \/ \E leased \in BOOLEAN : job'[k] = [job[k] EXCEPT !.leased = leased]
    BY <1>2 DEF Claim, Shape
  <2>2. \A k \in Jobs : Rewritten(k)
    BY <1>0, <2>1, SameRewritten
  <2>3. worker'.job = j /\ job'[j].stage \notin Review
    BY <1>0, <1>2, <2>1 DEF Claim, Claimable, Rows
  <2>4. QED
    BY <1>0, <2>1, <2>2, <2>3, PassEndsOK DEF Rewritten
<1>3. CASE Crash
  <2>1. UNCHANGED <<setup, job>> /\ worker'.pc = "idle" /\ worker'.next = NoRow
    BY <1>3 DEF Crash, Idle
  <2>2. \A k \in Jobs : Rewritten(k)
    BY <1>0, <2>1, SameRewritten
  <2>3. QED
    BY <1>0, <2>1, <2>2, PassEndsOK DEF Rewritten
<1>4. CASE Commit
  <2>0. PICK w \in Jobs : w = worker.job
    BY <1>4 DEF Commit, Shape
  <2>a. PICK row \in Rows : row = worker.next
    BY DEF Shape
  <2>1. /\ UNCHANGED setup /\ worker'.pc = "idle" /\ worker'.next = NoRow
        /\ worker.fresh /\ worker.pc = "decided"
        /\ job'[w] = row /\ \A k \in Jobs : k # w => job'[k] = job[k]
    BY <1>4, <2>0, <2>a DEF Commit, CommitAllowed, Owns, Idle, Shape
  <2>2. /\ RowOK(w, row) /\ (row.lock => job[w].lock)
        /\ job[w].stage \notin Finished /\ w \notin stopped /\ RowOK(w, job[w])
        /\ HistoryOK
    BY <1>0, <2>0, <2>a, <2>1 DEF RequestInv, NextOK, InPass, FreshInv, JobOK, Shape
  <2>b. UNCHANGED RequestVars /\ w \notin stopped'
    BY <1>0, <2>1, <2>2
  <2>3. JobOK(w)'
    <3>1. CASE row.stage \in Finished
      <4>1. row.ck = NoCk
        BY <2>2, <3>1, NoCheckpointStages DEF RowOK, Finished
      <4>2. ~Writing(w)
        BY <2>0, <2>2, <4>1, NoCheckpoint, QuietIsNotWriting DEF RowOK
      <4>3. RowTyped(row)
        BY <2>2 DEF RowOK, RowFits
      <4>4. QED
        BY <2>0, <2>b, <2>1, <3>1, <4>2, <4>3, EndedJobOK
    <3>2. CASE row.stage \notin Finished
      BY <2>0, <2>b, <2>1, <2>2, <3>2, OpenJobOK
    <3>3. QED
      BY <3>1, <3>2
  <2>4. LockHeld(w)' => LockHeld(w)
    <3>1. row.lock => job[w].lock /\ job[w].stage \in LockStages
      BY <2>2 DEF RowOK, RowFits, LockFits
    <3>2. QED
      BY <2>1, <3>1 DEF LockHeld, LockStages
  <2>5. \A k \in Jobs : k # w => Rewritten(k)
    BY <1>0, <2>1, SameRewritten
  <2>6. QED
    BY <1>0, <2>1, <2>3, <2>4, <2>5, PassEndsOK DEF Rewritten
<1>5. CASE Fail
  <2>0. PICK w \in Jobs : w = worker.job
    BY <1>5 DEF Fail, Shape
  <2>1. /\ UNCHANGED setup /\ worker'.pc = "idle" /\ worker'.next = NoRow
        /\ worker.pc # "idle"
    BY <1>5 DEF Fail, Idle
  <2>2. CASE ~Owns(w)
    <3>1. UNCHANGED job
      BY <1>5, <2>0, <2>2 DEF Fail
    <3>2. \A k \in Jobs : Rewritten(k)
      BY <1>0, <2>1, <3>1, SameRewritten
    <3>3. QED
      BY <1>0, <2>1, <3>2, PassEndsOK DEF Rewritten
  <2>3. CASE Owns(w)
    <3>1. PICK row \in Retried(w) : job' = [job EXCEPT ![w] = row]
      BY <1>5, <2>0, <2>3 DEF Fail
    <3>2. /\ job'[w] = row /\ \A k \in Jobs : k # w => job'[k] = job[k]
          /\ job[w].stage \notin Finished /\ w \notin stopped /\ RowOK(w, job[w])
          /\ job[w] \in Rows /\ job[w].stage \notin Review
      BY <1>0, <2>0, <2>1, <2>3, <3>1 DEF FreshInv, JobOK, Shape, Owns, RequestInv, FreshOK
    <3>3. ReviewOf(w) \in Stages \ Finished
      BY DEF ReviewOf, Stages, Review, Finished
    <3>4. /\ row.ck = job[w].ck /\ row.cursor = job[w].cursor /\ row.lock = job[w].lock
          /\ row.tasks = job[w].tasks
          /\ row.stage \in {job[w].stage, ReviewOf(w)}
      BY <3>1, <3>2, <3>3 DEF Retried, Rows
    <3>5. RowFits(row)
      <4>1. RowFits(job[w])
        BY <3>2 DEF RowOK
      <4>2. CASE row.stage = job[w].stage
        BY <3>4, <4>1, <4>2 DEF RowFits, RowTyped, CkFits, LockFits
      <4>3. CASE row.stage = ReviewOf(w)
        <5>1. row.lock => row.stage \in LockStages
          <6>1. job[w].lock => job[w].stage \in CopyStages
            BY <4>1, <3>2 DEF RowFits, LockFits, LockStages, Review
          <6>2. job[w].stage \in CopyStages => ReviewOf(w) = "copy_manual_review"
            BY DEF ReviewOf, CopyStages
          <6>3. QED
            BY <3>4, <4>3, <6>1, <6>2 DEF LockStages
        <5>2. CkFits(row)
          BY <3>4, <4>1, <4>3, <3>2 DEF RowFits, CkFits, ReviewOf, CopyStages, Review
        <5>3. QED
          BY <3>4, <4>1, <5>1, <5>2 DEF RowFits, RowTyped, LockFits
      <4>4. QED
        BY <3>4, <4>2, <4>3
    <3>6. RowOK(w, row)
      BY <3>2, <3>4, <3>5, FitsKept DEF RowOK
    <3>7. JobOK(w)'
      BY <1>0, <2>1, <3>2, <3>3, <3>4, <3>6, OpenJobOK
    <3>8. LockHeld(w)' => LockHeld(w)
      BY <3>2, <3>4 DEF LockHeld, RowOK, RowFits, LockFits, LockStages
    <3>9. \A k \in Jobs : k # w => Rewritten(k)
      BY <1>0, <2>1, <3>2, SameRewritten
    <3>10. QED
      BY <1>0, <2>1, <3>7, <3>8, <3>9, PassEndsOK DEF Rewritten
  <2>4. QED
    BY <2>2, <2>3
<1>6. QED
  BY <1>1, <1>2, <1>3, <1>4, <1>5
(* A row that was neither being sent nor has ended is rewritten.           *)
LEMMA RowRewritten ==
  ASSUME UNCHANGED RequestVars, NEW j \in Jobs, JobOK(j), NEW row, job'[j] = row,
         row.stage \notin Finished, j \notin stopped',
         job[j].stage \notin Finished \cup {"copy_submitting", "source_removing"},
         RowFits(row), Quiet(job[j]) \/ (row.ck = job[j].ck /\ row.cursor = job[j].cursor),
         row.lock => job[j].lock,
         worker.job = j /\ worker'.fresh => (job[j].lock => row.lock) /\ row.stage \notin Review
  PROVE  Rewritten(j)
<1>1. RowOK(j, job[j])
  BY DEF JobOK
<1>2. RowOK(j, row)
  BY <1>1, FitsKept DEF RowOK
<1>3. JobOK(j)'
  BY <1>2, OpenJobOK
<1>4. LockHeld(j)' => LockHeld(j)
  BY <1>1 DEF LockHeld, RowOK, RowFits, LockFits, LockStages
<1>5. QED
  BY <1>3, <1>4 DEF Rewritten

(* A row ends.                                                             *)
LEMMA EndRewritten ==
  ASSUME UNCHANGED RequestVars, NEW j \in Jobs, NEW row, job'[j] = row,
         row.stage \in Finished, RowTyped(row), ~row.lock, j \in stopped' \/ ~Writing(j),
         j \in stopped' \/ job[j].stage \notin {"copy_submitting", "source_removing"},
         ~(worker.job = j /\ worker'.fresh)
  PROVE  Rewritten(j)
<1>1. JobOK(j)'
  BY EndedJobOK
<1>2. QED
  BY <1>1 DEF Rewritten, LockHeld

LEMMA AnsweredRow ==
  ASSUME Shape, RequestInv, NEW j \in Jobs, NEW row \in Rows, Answered(j, row),
         UNCHANGED RequestVars => Rewritten(j)
  PROVE  RequestInv'
<1>1. UNCHANGED RequestVars /\ UNCHANGED stopped
  BY DEF Answered, RequestVars, copyVars, qbVars
<1>2. \A k \in Jobs : k # j => Rewritten(k)
  BY <1>1, SameRewritten DEF Answered, Shape, RequestInv
<1>3. worker' = worker \/ worker' = [worker EXCEPT !.fresh = FALSE]
  BY DEF Answered, Overwritten
<1>4. QED
  BY <1>1, <1>2, <1>3, RewrittenOK

(* The copy a person cancels writes no more.                               *)
LEMMA TaskOverNotWriting ==
  ASSUME Shape, RequestInv, NEW j \in Jobs, job[j].stage = "copy_manual_review", TaskOver(j)
  PROVE  ~Writing(j)
<1>1. /\ RowOK(j, job[j]) /\ HistoryOK /\ job[j] \in Rows
  BY DEF RequestInv, JobOK, Finished, Shape
<1>2. CASE job[j].ck # CopySent
  BY <1>1, <1>2, QuietIsNotWriting DEF RowOK
<1>3. CASE job[j].ck = CopySent
  <2>1. job[j].tasks = job[j].cursor + 1 /\ op[j][job[j].cursor + 1] \in {"succeeded", "over"}
    BY <1>1, <1>3 DEF RowOK, RowFits, LockFits, TaskOver, TaskState, CopySent
  <2>2. SUFFICES ASSUME NEW f \in Files(j), Underway(j, f), target[j][f] \in {"absent", "partial"}
                 PROVE  FALSE
    BY DEF Writing
  <2>3. f # job[j].cursor + 1
    BY <2>1, <2>2 DEF Underway
  <2>4. f \in Items
    BY JobsAssumption DEF Shape, AllFiles, Files, Items
  <2>5. sent[j][f] # 0
    BY <1>1, <2>2, <2>4 DEF HistoryOK, Underway
  <2>6. QED
    BY <1>1, <2>2, <2>3, <2>5 DEF RowOK, SentFits, Landed
<1>4. QED
  BY <1>2, <1>3

LEMMA CancelledFields ==
  ASSUME NEW old \in Rows
  PROVE  /\ CancelledRow(old) \in Rows /\ CancelledRow(old).stage = "cancelled"
         /\ ~CancelledRow(old).lock /\ RowTyped(CancelledRow(old))
<1> DEFINE row == CancelledRow(old)
<1>1. /\ row \in Rows /\ row.stage = "cancelled" /\ ~row.lock /\ row.ck = NoCk
      /\ row.cursor = 0 /\ row.tasks = 0
  BY DEF CancelledRow, Without, Rows, NoCk, Stages, Finished
<1> HIDE DEF row
<1>2. RowTyped(row)
  BY <1>1, NoCheckpoint, JobsAssumption DEF RowTyped
<1>3. QED
  BY <1>1, <1>2 DEF row

LEMMA CancelOK ==
  ASSUME Shape, RequestInv, NEW j \in Jobs, Cancel(j)
  PROVE  RequestInv'
<1>1. /\ job[j] \in Rows /\ RowOK(j, job[j]) /\ HistoryOK /\ RowFits(job[j])
      /\ SentFits(j, job[j])
  BY DEF Cancel, RequestInv, JobOK, Finished, Shape, RowOK
<1>2. ~Writing(j)
  <2>1. CASE job[j].stage = "copy_manual_review" /\ TaskOver(j)
    BY <2>1, TaskOverNotWriting
  <2>2. CASE job[j].stage \in {"planning_manual_review", "auto_copy_paused"}
    BY <1>1, <2>2, NoCheckpointStages, QuietIsNotWriting DEF Quiet
  <2>3. QED
    BY <2>1, <2>2 DEF Cancel
<1> DEFINE row == CancelledRow(job[j])
<1>3. row \in Rows /\ row.stage = "cancelled" /\ ~row.lock /\ RowTyped(row)
  BY <1>1, CancelledFields
<1>4. Answered(j, row)
  BY DEF Cancel
<1> HIDE DEF row
<1>5. /\ job'[j] = row /\ ~(worker.job = j /\ worker'.fresh)
      /\ job[j].stage \notin {"copy_submitting", "source_removing"} /\ row.stage \in Finished
  BY <1>3, <1>4 DEF Answered, Overwritten, Shape, Cancel, Finished
<1>6. UNCHANGED RequestVars => Rewritten(j)
  BY <1>2, <1>3, <1>5, EndRewritten
<1>7. QED
  BY <1>3, <1>4, <1>6, AnsweredRow

(* A person's answer that brings a job back to work.                       *)
LEMMA ReopenOK ==
  ASSUME Shape, RequestInv, NEW j \in Jobs, NEW row \in Rows, Answered(j, row),
         job[j].stage \in Review, row.stage \notin Finished, RowFits(row),
         Quiet(job[j]) \/ (row.ck = job[j].ck /\ row.cursor = job[j].cursor),
         row.lock => job[j].lock
  PROVE  RequestInv'
<1>1. /\ job[j].stage \notin Finished \cup {"copy_submitting", "source_removing"} /\ JobOK(j)
      /\ j \notin stopped
  BY DEF Review, Finished, RequestInv, JobOK
<1>2. /\ job'[j] = row /\ ~(worker.job = j /\ worker'.fresh) /\ j \notin stopped'
  BY <1>1 DEF Answered, Overwritten, Shape
<1>3. UNCHANGED RequestVars => Rewritten(j)
  BY <1>1, <1>2, RowRewritten
<1>4. QED
  BY <1>3, AnsweredRow

LEMMA RecheckOK ==
  ASSUME Shape, RequestInv, NEW j \in Jobs, Recheck(j)
  PROVE  RequestInv'
<1>0. /\ {"waiting_download", "copy_legacy_reconcile", "copy_submitting"} \subseteq Stages \ Finished
      /\ {"planning_manual_review", "copy_manual_review"} \subseteq Review
  BY DEF Stages, Finished, Review, CopyStages
<1>1. /\ job[j] \in Rows /\ RowFits(job[j]) /\ JobOK(j)
  BY DEF Recheck, RequestInv, JobOK, Finished, Shape, RowOK
<1>2. PICK stage \in {"waiting_download", "copy_legacy_reconcile", "copy_submitting"} :
        /\ Answered(j, [job[j] EXCEPT !.stage = stage])
        /\ \/ job[j].stage = "planning_manual_review" /\ stage = "waiting_download"
           \/ /\ job[j].stage = "copy_manual_review"
              /\ stage = IF job[j].ck = NoCk THEN "copy_legacy_reconcile" ELSE "copy_submitting"
  BY DEF Recheck
<1> DEFINE row == [job[j] EXCEPT !.stage = stage]
<1>3. /\ row \in Rows /\ row.stage = stage /\ row.ck = job[j].ck /\ row.lock = job[j].lock
      /\ row.tasks = job[j].tasks /\ row.cursor = job[j].cursor
  BY <1>0, <1>1, StageFields
<1>4. Answered(j, row)
  BY <1>2
<1> HIDE DEF row
<1>5. RowFits(row)
  <2>1. CASE job[j].stage = "planning_manual_review"
    <3>1. job[j].ck = NoCk /\ ~job[j].lock
      BY <1>1, <2>1, NoCheckpointStages DEF RowFits, LockFits, LockStages, CopyStages
    <3>2. QED
      BY <1>1, <1>2, <1>3, <2>1, <3>1, ClearedFits DEF RowFits, RowTyped
  <2>2. CASE job[j].stage = "copy_manual_review"
    <3>1. job[j].ck.op # "RemoveFile" /\ stage \in LockStages /\ stage # "copying"
      BY <1>1, <1>2, <2>2 DEF RowFits, CkFits, LockStages, CopyStages
    <3>2. CkFits(row)
      <4>1. CASE job[j].ck = NoCk
        BY <1>2, <1>3, <2>2, <3>1, <4>1, NoCheckpoint DEF CkFits
      <4>2. CASE job[j].ck # NoCk
        BY <1>2, <1>3, <2>2, <3>1, <4>2 DEF CkFits
      <4>3. QED
        BY <4>1, <4>2
    <3>3. QED
      BY <1>1, <1>3, <3>1, <3>2 DEF RowFits, RowTyped, LockFits
  <2>3. QED
    BY <1>2, <2>1, <2>2
<1>6. QED
  BY <1>0, <1>2, <1>3, <1>4, <1>5, ReopenOK

LEMMA RetryOK ==
  ASSUME Shape, RequestInv, NEW j \in Jobs, RetryMigration(j)
  PROVE  RequestInv'
<1>0. /\ {"source_removing", "waiting_download", "copy_verified", "qb_reconcile"}
           \subseteq Stages \ Finished
      /\ {"source_remove_manual_review", "qb_manual_review"} \subseteq Review
  BY DEF Stages, Finished, Review, TargetQbStages
<1>1. /\ job[j] \in Rows /\ RowFits(job[j]) /\ RowTyped(job[j])
  BY DEF RetryMigration, RequestInv, JobOK, Finished, Shape, RowOK, RowFits
<1>2. CASE job[j].stage = "source_remove_manual_review"
  <2> DEFINE row == [job[j] EXCEPT !.stage = "source_removing", !.tasks = 0, !.lock = FALSE]
  <2>1. /\ row \in Rows /\ row.stage = "source_removing" /\ row.ck = job[j].ck /\ ~row.lock
        /\ row.tasks = 0 /\ row.cursor = job[j].cursor
    BY <1>0, <1>1 DEF Rows
  <2>2. Answered(j, row)
    BY <1>2 DEF RetryMigration
  <2> HIDE DEF row
  <2>3. /\ job[j].ck.op \notin {"CopyFile", "CreateDirectory", "ReviewExisting"}
        /\ job[j].ck # CopySent
    BY <1>1, <1>2 DEF RowFits, CkFits, CopySent
  <2>4. RowFits(row)
    BY <1>1, <2>1, <2>3, JobsAssumption DEF RowFits, RowTyped, CkFits, LockFits
  <2>5. QED
    BY <1>0, <1>2, <2>1, <2>2, <2>4, ReopenOK
<1>3. CASE job[j].stage = "qb_manual_review"
  <2>1. PICK stage \in {"waiting_download", "copy_verified", "qb_reconcile"} :
          Answered(j, [Without(job[j]) EXCEPT !.stage = stage])
    BY <1>3 DEF RetryMigration
  <2> DEFINE row == [Without(job[j]) EXCEPT !.stage = stage]
  <2>2. /\ row \in Rows /\ row.stage = stage /\ row.ck = NoCk /\ ~row.lock
        /\ row.tasks = 0 /\ row.cursor = job[j].cursor
    BY <1>0, <1>1 DEF Rows, Without, NoCk
  <2>3. Answered(j, row)
    BY <2>1
  <2> HIDE DEF row
  <2>4. RowFits(row)
    BY <1>1, <2>2, ClearedFits, JobsAssumption DEF RowTyped
  <2>5. Quiet(job[j])
    BY <1>1, <1>3, NoCheckpointStages
  <2>6. QED
    BY <1>0, <1>3, <2>2, <2>3, <2>4, <2>5, ReopenOK
<1>4. QED
  BY <1>2, <1>3 DEF RetryMigration

LEMMA AbandonOK ==
  ASSUME Shape, RequestInv, NEW j \in Jobs, AbandonMigration(j)
  PROVE  RequestInv'
<1>1. /\ job[j] \in Rows /\ RowOK(j, job[j]) /\ HistoryOK /\ RowFits(job[j])
      /\ SentFits(j, job[j]) /\ RowTyped(job[j])
  BY DEF AbandonMigration, RequestInv, JobOK, Finished, Shape, RowOK, RowFits
<1>2. job[j].ck # CopySent
  BY <1>1 DEF AbandonMigration, RowFits, CkFits, CopySent
<1>3. ~Writing(j)
  BY <1>1, <1>2, QuietIsNotWriting
<1> DEFINE row == [job[j] EXCEPT !.stage = "cancelled", !.lock = FALSE]
<1>4. /\ row \in Rows /\ row.stage = "cancelled" /\ ~row.lock /\ row.ck = job[j].ck
      /\ row.tasks = job[j].tasks /\ row.cursor = job[j].cursor
  BY <1>1 DEF Rows, Stages, Finished
<1>5. Answered(j, row)
  BY DEF AbandonMigration
<1> HIDE DEF row
<1>6. /\ job'[j] = row /\ ~(worker.job = j /\ worker'.fresh)
      /\ job[j].stage \notin {"copy_submitting", "source_removing"} /\ row.stage \in Finished
  BY <1>4, <1>5 DEF Answered, Overwritten, Shape, AbandonMigration, Finished
<1>7. RowTyped(row)
  BY <1>1, <1>4 DEF RowTyped
<1>8. UNCHANGED RequestVars => Rewritten(j)
  BY <1>3, <1>4, <1>6, <1>7, EndRewritten
<1>9. QED
  BY <1>4, <1>5, <1>8, AnsweredRow

(* Jobs that are stopped or deleted may still be written for.              *)
LEMMA StoppedOK ==
  ASSUME Shape, RequestInv, StopAutomatic \/ \E j \in Jobs : DeleteAutomatic(j)
  PROVE  RequestInv'
<1>1. PICK gone \in SUBSET Jobs :
        /\ UNCHANGED RequestVars
        /\ stopped' = stopped \cup gone
        /\ worker' = IF worker.job \in gone THEN [worker EXCEPT !.fresh = FALSE] ELSE worker
        /\ \A j \in Jobs \ gone : job'[j] = job[j]
        /\ \A j \in gone : \E stage \in Finished :
             job'[j] = [CancelledRow(job[j]) EXCEPT !.leased = FALSE, !.stage = stage]
  <2>0. \A row \in Rows : [CancelledRow(row) EXCEPT !.leased = FALSE]
                            = [CancelledRow(row) EXCEPT !.leased = FALSE, !.stage = "cancelled"]
    BY DEF CancelledRow, Without, Rows
  <2>1. CASE StopAutomatic
    <3>1. ToStop \in SUBSET Jobs
      BY DEF ToStop
    <3>2. \A j \in ToStop : \E stage \in Finished :
             job'[j] = [CancelledRow(job[j]) EXCEPT !.leased = FALSE, !.stage = stage]
      BY <2>1, <3>1 DEF StopAutomatic, Finished
    <3>3. \A j \in Jobs \ ToStop : job'[j] = job[j]
      BY <2>1 DEF StopAutomatic
    <3>4. /\ UNCHANGED RequestVars /\ stopped' = stopped \cup ToStop
          /\ worker' = IF worker.job \in ToStop THEN [worker EXCEPT !.fresh = FALSE] ELSE worker
      BY <2>1 DEF StopAutomatic, RequestVars, copyVars, qbVars
    <3>5. QED
      BY <3>1, <3>2, <3>3, <3>4
  <2>2. ASSUME NEW k \in Jobs, DeleteAutomatic(k)
        PROVE  \E gone \in SUBSET Jobs :
                 /\ UNCHANGED RequestVars
                 /\ stopped' = stopped \cup gone
                 /\ worker' = IF worker.job \in gone THEN [worker EXCEPT !.fresh = FALSE] ELSE worker
                 /\ \A j \in Jobs \ gone : job'[j] = job[j]
                 /\ \A j \in gone : \E stage \in Finished :
                      job'[j] = [CancelledRow(job[j]) EXCEPT !.leased = FALSE, !.stage = stage]
    <3>1. /\ job'[k] = [CancelledRow(job[k]) EXCEPT !.leased = FALSE]
          /\ \A j \in Jobs \ {k} : job'[j] = job[j]
          /\ job[k] \in Rows /\ "cancelled" \in Finished
      BY <2>2 DEF DeleteAutomatic, Shape, Finished
    <3>2. job'[k] = [CancelledRow(job[k]) EXCEPT !.leased = FALSE, !.stage = "cancelled"]
      BY <2>0, <3>1
    <3>3. /\ UNCHANGED RequestVars /\ stopped' = stopped \cup {k}
          /\ worker' = IF worker.job \in {k} THEN [worker EXCEPT !.fresh = FALSE] ELSE worker
      BY <2>2 DEF DeleteAutomatic, RequestVars, copyVars, qbVars, Overwritten
    <3>4. {k} \in SUBSET Jobs
      OBVIOUS
    <3>5. QED
      BY <3>1, <3>2, <3>3, <3>4
  <2>3. QED
    BY <2>1, <2>2
<1>2. ASSUME NEW j \in Jobs PROVE Rewritten(j)
  <2>1. CASE j \notin gone
    <3>1. job'[j] = job[j] /\ JobOK(j) /\ job[j] \in Rows
      BY <1>1, <2>1 DEF Shape, RequestInv
    <3>2. stopped' \cap {j} = stopped \cap {j}
      BY <1>1, <2>1
    <3>3. UNCHANGED RequestVars
      BY <1>1
    <3>4. QED
      BY <3>1, <3>2, <3>3, SameRewritten
  <2>2. CASE j \in gone
    <3>1. PICK stage \in Finished :
            job'[j] = [CancelledRow(job[j]) EXCEPT !.leased = FALSE, !.stage = stage]
      BY <1>1, <2>2
    <3>2. /\ CancelledRow(job[j]) \in Rows /\ ~CancelledRow(job[j]).lock
          /\ RowTyped(CancelledRow(job[j]))
      BY CancelledFields DEF Shape
    <3> DEFINE row == [CancelledRow(job[j]) EXCEPT !.leased = FALSE, !.stage = stage]
    <3>3. /\ row.stage = stage /\ ~row.lock /\ row.ck = CancelledRow(job[j]).ck
          /\ row.cursor = CancelledRow(job[j]).cursor /\ row.tasks = CancelledRow(job[j]).tasks
      BY <3>2 DEF Rows
    <3> HIDE DEF row
    <3>4. RowTyped(row)
      BY <3>2, <3>3 DEF RowTyped
    <3>5. job'[j] = row
      BY <3>1 DEF row
    <3>6. j \in stopped' /\ ~(worker.job = j /\ worker'.fresh)
      BY <1>1, <2>2 DEF Shape
    <3>7. QED
      BY <1>1, <3>3, <3>4, <3>5, <3>6, EndRewritten
  <2>3. QED
    BY <2>1, <2>2
<1>3. QED
  BY <1>1, <1>2, RewrittenOK

LEMMA EnqueuedOK ==
  ASSUME Shape, RequestInv, NEW new \in SUBSET Jobs, Enqueue(new), UNCHANGED RequestVars,
         UNCHANGED stopped, worker' = worker \/ worker' = [worker EXCEPT !.fresh = FALSE]
  PROVE  RequestInv'
<1>0. /\ {"none", "waiting_download", "auto_copy_paused"} \cap (Finished \cup Review \cup LockStages) = {}
      /\ {"waiting_download", "auto_copy_paused"} \subseteq Stages
  BY DEF Stages, Finished, Review, LockStages, CopyStages
<1>1. ASSUME NEW j \in Jobs PROVE Rewritten(j)
  <2>0. JobOK(j) /\ job[j] \in Rows
    BY DEF RequestInv, Shape
  <2>1. CASE j \notin new /\ ~PutAside(j)
    BY <2>0, <2>1, SameRewritten DEF Enqueue
  <2>2. CASE j \in new \/ PutAside(j)
    <3>1. /\ job[j].stage \in {"none", "waiting_download"} /\ j \notin stopped
          /\ RowFits(job[j])
      BY <1>0, <2>0, <2>2 DEF Enqueue, PutAside, JobOK, RowOK
    <3>2. job[j].ck = NoCk /\ Quiet(job[j]) /\ ~job[j].lock
          /\ job[j].cursor <= MaxFiles /\ job[j].tasks <= MaxFiles
      BY <1>0, <2>0, <3>1, NoCheckpointStages DEF RowFits, RowTyped, LockFits
    <3>3. PICK row : /\ job'[j] = row /\ row \in Rows /\ row.ck = NoCk /\ ~row.lock
                     /\ row.cursor <= MaxFiles /\ row.tasks <= MaxFiles
                     /\ row.stage \in {"waiting_download", "auto_copy_paused"}
      <4>1. CASE j \in new
        <5>1. PICK stage \in {"waiting_download", "auto_copy_paused"} :
                job'[j] = [NoRow EXCEPT !.stage = stage]
          BY <4>1 DEF Enqueue
        <5> DEFINE row == [NoRow EXCEPT !.stage = stage]
        <5>2. /\ row \in Rows /\ row.ck = NoCk /\ ~row.lock
              /\ row.cursor = 0 /\ row.tasks = 0 /\ row.stage = stage
          BY <1>0 DEF NoRow, Rows, NoCk
        <5>3. job'[j] = row
          BY <5>1
        <5> HIDE DEF row
        <5>4. QED
          BY <5>2, <5>3, JobsAssumption
      <4>2. CASE j \notin new
        <5> DEFINE row == [job[j] EXCEPT !.stage = "auto_copy_paused", !.leased = FALSE]
        <5>1. job'[j] = row
          BY <2>2, <4>2 DEF Enqueue
        <5>2. /\ row \in Rows /\ row.ck = NoCk /\ ~row.lock
              /\ row.cursor = job[j].cursor /\ row.tasks = job[j].tasks
              /\ row.stage = "auto_copy_paused"
          BY <1>0, <2>0, <3>2 DEF Rows
        <5> HIDE DEF row
        <5>3. QED
          BY <3>2, <5>1, <5>2
      <4>3. QED
        BY <4>1, <4>2
    <3>4. RowFits(row)
      BY <3>3, ClearedFits
    <3>5. job[j].stage \notin Finished \cup {"copy_submitting", "source_removing"}
          /\ row.stage \notin Finished \cup Review
      BY <1>0, <3>1, <3>3
    <3>6. QED
      BY <2>0, <3>1, <3>2, <3>3, <3>4, <3>5, RowRewritten
  <2>3. QED
    BY <2>1, <2>2
<1>2. QED
  BY <1>1, RewrittenOK

LEMMA PeopleOK ==
  ASSUME Shape, RequestInv,
         \/ PeopleStep
         \/ \E new \in SUBSET Jobs : Tick(new) /\ UNCHANGED <<copyVars, qbVars, stopped>>
  PROVE  RequestInv'
<1>0. UNCHANGED <<setup, copyVars, qbVars>> => UNCHANGED RequestVars
  BY DEF RequestVars, copyVars, qbVars
<1>1. ASSUME NEW new \in SUBSET Jobs, ScanNow(new) \/ Tick(new),
             UNCHANGED <<copyVars, qbVars, stopped>>
      PROVE  RequestInv'
  <2>1. /\ Enqueue(new) /\ UNCHANGED setup
        /\ worker' = worker \/ worker' = [worker EXCEPT !.fresh = FALSE]
    BY <1>1 DEF ScanNow, Tick
  <2>2. QED
    BY <1>0, <1>1, <2>1, EnqueuedOK
<1>2. CASE SaveSettings
  <2>1. UNCHANGED <<job, worker, stopped>> /\ UNCHANGED RequestVars
    BY <1>0, <1>2 DEF SaveSettings
  <2>2. \A j \in Jobs : Rewritten(j)
    BY <2>1, SameRewritten DEF RequestInv, Shape
  <2>3. QED
    BY <2>1, <2>2, RewrittenOK
<1>3. ASSUME NEW j \in Jobs, EnqueueManual(j) PROVE RequestInv'
  <2>1. /\ UNCHANGED <<worker, stopped>> /\ UNCHANGED RequestVars /\ job[j].stage = "none"
        /\ job'[j] = [job[j] EXCEPT !.stage = "waiting_download"]
        /\ \A k \in Jobs : k # j => job'[k] = job[k]
    BY <1>0, <1>3 DEF EnqueueManual, Shape
  <2>2. /\ JobOK(j) /\ job[j] \in Rows /\ "waiting_download" \in Stages
        /\ {"none", "waiting_download"} \cap (Finished \cup Review \cup LockStages) = {}
    BY DEF RequestInv, Shape, Stages, Finished, Review, LockStages, CopyStages
  <2>3. RowFits(job[j]) /\ j \notin stopped
    BY <2>1, <2>2 DEF JobOK, RowOK
  <2>4. job[j].ck = NoCk /\ Quiet(job[j]) /\ ~job[j].lock
          /\ job[j].cursor <= MaxFiles /\ job[j].tasks <= MaxFiles
    BY <2>1, <2>2, <2>3, NoCheckpointStages DEF RowFits, RowTyped, LockFits
  <2> DEFINE row == [job[j] EXCEPT !.stage = "waiting_download"]
  <2>5. /\ row \in Rows /\ row.stage = "waiting_download" /\ row.ck = job[j].ck
        /\ row.lock = job[j].lock /\ row.tasks = job[j].tasks /\ row.cursor = job[j].cursor
    BY <2>2, StageFields
  <2>6. job'[j] = row
    BY <2>1
  <2> HIDE DEF row
  <2>7. RowFits(row)
    BY <2>4, <2>5, ClearedFits
  <2>8. Rewritten(j)
    BY <2>1, <2>2, <2>3, <2>4, <2>5, <2>6, <2>7, RowRewritten
  <2>9. \A k \in Jobs : k # j => Rewritten(k)
    BY <2>1, SameRewritten DEF RequestInv, Shape
  <2>10. QED
    BY <2>1, <2>8, <2>9, RewrittenOK
<1>4. QED
  BY <1>1, <1>2, <1>3, StoppedOK, RecheckOK, CancelOK, RetryOK, AbandonOK DEF PeopleStep
-----------------------------------------------------------------------------
(* OpenList, the qBittorrents and other people.                            *)

(* What has landed stays, nothing new is written, no request is made.      *)
LEMMA OutsideKept ==
  ASSUME Shape, RequestInv, UNCHANGED <<setup, job, worker, sent, removals, stopped>>,
         dir' \in [Jobs -> BOOLEAN], op' \in [Jobs -> [Items -> OpState]],
         \A j \in Jobs, i \in Items : /\ op'[j][i] # "none" => op[j][i] # "none"
                                      /\ Underway(j, i)' => Underway(j, i),
         \A j \in Jobs, f \in AllFiles :
           target[j][f] \in {"same", "other"} => target'[j][f] \in {"same", "other"},
         \A j \in Jobs : /\ source'[j] \subseteq source[j]
                         /\ dir[j] => \/ dir'[j]
                                      \/ /\ sent[j][0] = 0
                                         /\ \A f \in Files(j) : target[j][f] = "absent"
  PROVE  RequestInv'
<1>a. \A j \in Jobs : Files(j)' = Files(j) /\ Files(j) \subseteq AllFiles /\ Files(j) \subseteq Items
  BY JobsAssumption DEF Shape, AllFiles, Files, Items
<1>1. \A j \in Jobs : \A f \in Files(j) : Landed(j, f) => Landed(j, f)'
  BY <1>a DEF Landed
<1>2. \A j \in Jobs : Writing(j)' => Writing(j)
  <2>1. \A j \in Jobs : \A f \in Files(j) :
          target'[j][f] \in {"absent", "partial"} => target[j][f] \in {"absent", "partial"}
    <3> SUFFICES ASSUME NEW j \in Jobs, NEW f \in Files(j), target'[j][f] \in {"absent", "partial"}
                 PROVE  target[j][f] \in {"absent", "partial"}
      OBVIOUS
    <3>1. f \in AllFiles
      BY <1>a
    <3>2. target[j][f] \in Content
      BY <3>1 DEF Shape
    <3>3. QED
      BY <3>1, <3>2 DEF Content
  <2>2. QED
    BY <1>a, <2>1 DEF Writing
<1>3. HistoryOK'
  BY <1>a DEF RequestInv, HistoryOK
<1>4. ASSUME NEW j \in Jobs, NEW row, RowOK(j, row) PROVE SentFits(j, row)' /\ AskedFits(j, row)'
  <2>1. \A f \in Files(j)' : /\ f \in Files(j) /\ Landed(j, f) => Landed(j, f)'
                             /\ f \notin source[j] => f \notin source'[j]
    BY <1>a, <1>1
  <2>2. sent[j][0] # 0 /\ dir[j] => dir'[j]
    OBVIOUS
  <2>3. SentFits(j, row)'
    BY <1>4, <2>1, <2>2 DEF RowOK, SentFits, Landed, Files
  <2>4. AskedFits(j, row)'
    BY <1>4, <2>1 DEF RowOK, AskedFits, Files
  <2>5. QED
    BY <2>3, <2>4
<1>5. ASSUME NEW j \in Jobs PROVE JobOK(j)'
  <2>0. JobOK(j)
    BY DEF RequestInv
  <2>1. CASE job[j].stage \in Finished
    BY <1>2, <2>0, <2>1 DEF JobOK, RowTyped
  <2>2. CASE job[j].stage \notin Finished
    <3>1. RowOK(j, job[j]) /\ j \notin stopped
      BY <2>0, <2>2 DEF JobOK
    <3>a. PICK row : row = job[j]
      OBVIOUS
    <3>2. SentFits(j, row)' /\ AskedFits(j, row)'
      BY <1>4, <3>1, <3>a
    <3>3. job'[j] = row /\ RowFits(row)
      BY <3>1, <3>a DEF RowOK
    <3>4. RowFits(job[j])'
      BY <3>3 DEF RowFits, RowTyped, CkFits, LockFits
    <3>5. QED
      BY <2>2, <3>1, <3>2, <3>3, <3>4, <3>a DEF JobOK, RowOK, SentFits, AskedFits
  <2>3. QED
    BY <2>1, <2>2
<1>6. NextOK'
  <2>1. RowTyped(worker.next)'
    BY DEF RequestInv, NextOK, RowTyped
  <2>2. CASE InPass
    <3>1. PICK w \in Jobs : w = worker.job
      BY <2>2 DEF InPass, Shape
    <3>2. PICK row : row = worker.next
      OBVIOUS
    <3>3. RowOK(w, row)
      BY <2>2, <3>1, <3>2 DEF RequestInv, NextOK
    <3>4. SentFits(w, row)' /\ AskedFits(w, row)'
      BY <1>4, <3>3
    <3>5. RowFits(worker.next)'
      BY <3>2, <3>3 DEF RowOK, RowFits, RowTyped, CkFits, LockFits
    <3>6. RowOK(worker.job, worker.next)'
      BY <3>1, <3>2, <3>4, <3>5 DEF RowOK, SentFits, AskedFits
    <3>7. QED
      BY <2>1, <3>6 DEF NextOK, RequestInv, InPass
  <2>3. CASE ~InPass
    BY <2>1, <2>3 DEF NextOK, InPass
  <2>4. QED
    BY <2>2, <2>3
<1>7. InCall'
  <2>1. SUFFICES ASSUME worker.pc \in {"sending", "sent"} PROVE InCall'
    BY DEF InCall
  <2>2. worker.job \in Jobs
    BY <2>1 DEF Shape
  <2>3. QED
    BY <1>a, <2>1, <2>2 DEF RequestInv, InCall
<1>8. SendingOK' /\ OneLock' /\ FreshOK'
  BY DEF RequestInv, SendingOK, InHand, OneLock, LockHeld, FreshOK
<1>9. QED
  BY <1>3, <1>5, <1>6, <1>7, <1>8 DEF RequestInv

LEMMA OpenListKept ==
  ASSUME Shape, RequestInv, OpenListStep, UNCHANGED <<qbVars, stopped>>
  PROVE  RequestInv'
<1>0. /\ dir \in [Jobs -> BOOLEAN] /\ op \in [Jobs -> [Items -> OpState]]
      /\ target \in [Jobs -> [AllFiles -> Content]]
      /\ \A j \in Jobs : Files(j) \subseteq AllFiles /\ Files(j) \subseteq Items
  BY JobsAssumption DEF RequestInv, HistoryOK, Shape, AllFiles, Files, Items
<1>1. PICK k \in Jobs :
       \/ TakeDirectory(k)
       \/ \E i \in Items : Arrive(k, i) \/ Lose(k, i)
       \/ \E g \in Files(k) : Write(k, g) \/ EndWell(k, g) \/ EndBadly(k, g)
                              \/ PutForeign(k, g, "same") \/ PutForeign(k, g, "other")
  BY DEF OpenListStep
<1>2. UNCHANGED <<setup, job, worker, source, sent, removals, stopped>>
  BY <1>1 DEF TakeDirectory, Arrive, Lose, Write, EndWell, EndBadly, PutForeign, EnvUnchanged,
              jobVars, qbVars
<1>3. \/ op' = op
      \/ \E i \in Items, now \in OpState :
           /\ op' = [op EXCEPT ![k][i] = now] /\ op[k][i] # "none"
           /\ now = "running" => Underway(k, i)
           /\ now # "flying"
  BY <1>0, <1>1 DEF TakeDirectory, Arrive, Lose, Write, EndWell, EndBadly, PutForeign, OpState, Underway
<1>4. \/ target' = target
      \/ \E g \in AllFiles, content \in Content :
           /\ target' = [target EXCEPT ![k][g] = content]
           /\ target[k][g] \in {"same", "other"} => content = target[k][g]
  <2>1. ASSUME NEW g \in Files(k), EndWell(k, g)
        PROVE  \E content \in Content :
                 /\ target' = [target EXCEPT ![k][g] = content]
                 /\ target[k][g] \in {"same", "other"} => content = target[k][g]
    <3>1. target' = [target EXCEPT ![k][g] = Copied(target[k][g])]
      BY <2>1 DEF EndWell
    <3>2. /\ Copied(target[k][g]) \in Content
          /\ target[k][g] \in {"same", "other"} => Copied(target[k][g]) = target[k][g]
      BY <1>0 DEF Copied, Content
    <3>3. QED
      BY <3>1, <3>2
  <2>2. QED
    BY <1>0, <1>1, <2>1 DEF TakeDirectory, Arrive, Lose, Write, EndBadly, PutForeign, Content
<1>5. /\ dir' \in [Jobs -> BOOLEAN]
      /\ \A j \in Jobs : dir[j] => \/ dir'[j]
                                   \/ /\ sent[j][0] = 0
                                      /\ \A f \in Files(j) : target[j][f] = "absent"
  BY <1>0, <1>1 DEF TakeDirectory, Arrive, Lose, Write, EndWell, EndBadly, PutForeign
<1>6. /\ op' \in [Jobs -> [Items -> OpState]]
      /\ \A j \in Jobs, i \in Items : /\ op'[j][i] # "none" => op[j][i] # "none"
                                      /\ Underway(j, i)' => Underway(j, i)
  <2>1. CASE op' = op
    BY <1>0, <2>1 DEF Underway
  <2>2. ASSUME NEW i0 \in Items, NEW now \in OpState, op' = [op EXCEPT ![k][i0] = now],
               op[k][i0] # "none", now = "running" => Underway(k, i0), now # "flying"
        PROVE  /\ op' \in [Jobs -> [Items -> OpState]]
               /\ \A j \in Jobs, i \in Items : /\ op'[j][i] # "none" => op[j][i] # "none"
                                               /\ Underway(j, i)' => Underway(j, i)
    <3>1. \A j \in Jobs, i \in Items :
            op'[j][i] = IF j = k /\ i = i0 THEN now ELSE op[j][i]
      BY <1>0, <2>2
    <3>2. op' \in [Jobs -> [Items -> OpState]]
      BY <1>0, <2>2
    <3>3. QED
      BY <2>2, <3>1, <3>2 DEF Underway
  <2>3. QED
    BY <1>3, <2>1, <2>2
<1>7. \A j \in Jobs, f \in AllFiles :
        target[j][f] \in {"same", "other"} => target'[j][f] \in {"same", "other"}
  BY <1>0, <1>4
<1>8. QED
  BY <1>2, <1>5, <1>6, <1>7, OutsideKept

LEMMA QbKept ==
  ASSUME Shape, RequestInv, QbStep, UNCHANGED stopped
  PROVE  RequestInv'
<1>0. /\ dir \in [Jobs -> BOOLEAN] /\ op \in [Jobs -> [Items -> OpState]]
      /\ target \in [Jobs -> [AllFiles -> Content]] /\ source \in [Jobs -> SUBSET AllFiles]
      /\ \A j \in Jobs : Files(j) \subseteq AllFiles
  BY JobsAssumption DEF RequestInv, HistoryOK, Shape, AllFiles, Files, Items
<1>1. PICK k \in Jobs :
       \/ Leaves(k) \/ Checked(k) \/ StartsSeeding(k) \/ AddElsewhere(k) \/ Mislay(k)
       \/ \E g \in Files(k) : Remove(k, g) \/ LoseRemoval(k, g) \/ Replace(k, g)
                              \/ TakeSource(k, g)
  BY DEF QbStep
<1>2. UNCHANGED <<setup, job, worker, dir, op, sent, removals>>
  BY <1>1 DEF Leaves, Checked, StartsSeeding, AddElsewhere, Mislay, Remove, LoseRemoval, Replace,
              TakeSource, RemovalsUnchanged, jobVars, copyVars, qbVars
<1>3. source' = source \/ \E g : source' = [source EXCEPT ![k] = @ \ {g}]
  BY <1>1 DEF Leaves, Checked, StartsSeeding, AddElsewhere, Mislay, Remove, LoseRemoval, Replace,
              TakeSource, RemovalsUnchanged, copyVars
<1>4. target' = target \/ \E g \in AllFiles : target' = [target EXCEPT ![k][g] = "other"]
  BY <1>0, <1>1 DEF Leaves, Checked, StartsSeeding, AddElsewhere, Mislay, Remove, LoseRemoval, Replace,
              TakeSource, RemovalsUnchanged, copyVars
<1>5. \A j \in Jobs : source'[j] \subseteq source[j]
  BY <1>0, <1>3
<1>6. \A j \in Jobs, f \in AllFiles :
        target[j][f] \in {"same", "other"} => target'[j][f] \in {"same", "other"}
  <2> SUFFICES ASSUME NEW j \in Jobs, NEW f \in AllFiles, target[j][f] \in {"same", "other"}
               PROVE  target'[j][f] \in {"same", "other"}
    OBVIOUS
  <2>1. target[j] \in [AllFiles -> Content]
    BY <1>0
  <2>2. ASSUME NEW g \in AllFiles, target' = [target EXCEPT ![k][g] = "other"]
        PROVE  target'[j][f] \in {"same", "other"}
    BY <1>0, <2>1, <2>2
  <2>3. QED
    BY <1>4, <2>2
<1>7. \A j \in Jobs, i \in Items : Underway(j, i)' => Underway(j, i)
  BY <1>2 DEF Underway
<1>8. QED
  BY <1>0, <1>2, <1>5, <1>6, <1>7, OutsideKept

-----------------------------------------------------------------------------
LEMMA InitRequestInv == Init => RequestInv
<1> SUFFICES ASSUME Init PROVE RequestInv
  OBVIOUS
<1>1. /\ setup \in Setups /\ job = [j \in Jobs |-> NoRow] /\ worker = Idle /\ stopped = {}
      /\ source = [j \in Jobs |-> Files(j)]
      /\ dir = [j \in Jobs |-> setup[j].dir]
      /\ op = [j \in Jobs |-> [i \in Items |-> "none"]]
      /\ sent = [j \in Jobs |-> [i \in Items |-> 0]]
      /\ removals = [j \in Jobs |-> [f \in AllFiles |-> 0]]
  BY DEF Init, JobsInit, CopyInit, QbInit
<1>2. /\ \A j \in Jobs : setup[j].dir \in BOOLEAN /\ Files(j) \subseteq AllFiles
      /\ \A j \in Jobs : Files(j) \subseteq Items
      /\ 0 \in Items
  BY <1>1, SetupsAssumption, JobsAssumption DEF Files, AllFiles, Items
<1>3. HistoryOK
  BY <1>1, <1>2 DEF HistoryOK, OpState
<1>4. /\ NoRow.stage = "none" /\ NoRow.ck = NoCk /\ ~NoRow.lock
      /\ NoRow.cursor = 0 /\ NoRow.tasks = 0 /\ NoRow \in Rows
  BY NoRowIsRow DEF NoRow
<1>5. RowFits(NoRow)
  BY <1>4, ClearedFits, JobsAssumption
<1>6. ASSUME NEW j \in Jobs PROVE JobOK(j)
  <2>1. \A f \in Files(j) : sent[j][f] = 0 /\ removals[j][f] = 0 /\ sent[j][0] = 0
    BY <1>1, <1>2
  <2>2. sent[j][0] = 0
    BY <1>1, <1>2
  <2>3. job[j] = NoRow /\ j \notin stopped
    BY <1>1
  <2>4. RowOK(j, NoRow)
    BY <1>5, <2>1, <2>2 DEF RowOK, SentFits, AskedFits
  <2>5. QED
    BY <1>4, <2>3, <2>4 DEF JobOK, Finished
<1>7. NextOK /\ SendingOK /\ InCall /\ OneLock /\ FreshOK
  BY <1>1, <1>4, <1>5 DEF NextOK, InPass, SendingOK, InCall, OneLock, LockHeld, FreshOK, Idle, RowFits
<1>8. QED
  BY <1>3, <1>6, <1>7 DEF RequestInv

LEMMA PassOK ==
  ASSUME Shape, RemovalInv, RequestInv, NEW j \in Jobs,
         \/ CopyPass(j) /\ UNCHANGED <<qbVars, stopped>>
         \/ QbPass(j) /\ UNCHANGED stopped
  PROVE  RequestInv'
<1>1. UNCHANGED stopped
  OBVIOUS
<1>2. CASE CopyPass(j) /\ UNCHANGED <<qbVars, stopped>>
  <2>1. CASE \/ Plan(j) \/ PlanCancelled(j) \/ PlanWaits(j) \/ PlanGivesUp(j)
             \/ Suspend(j) \/ Resume(j) \/ LockRefused(j)
    BY <1>2, <2>1, PlanningDecides, DecidesOK
  <2>2. CASE Reconcile(j) \/ ReconcileOn(j) \/ ReconcileEnds(j)
    BY <1>2, <2>2, ReconcileDecides, DecidesOK
  <2>3. CASE SubmissionArrived(j) \/ SubmissionDoubtful(j) \/ SubmissionNeedsDirectory(j)
             \/ SubmissionUncertain(j)
    BY <1>2, <2>3, SubmissionDecides, DecidesOK
  <2>4. CASE FollowTask(j)
    BY <1>2, <2>4, FollowDecides, DecidesOK
  <2>5. CASE AcquireLock(j)
    BY <1>2, <2>5, LockOK
  <2>6. CASE CheckpointSubmission(j)
    BY <1>2, <2>6, CheckpointSubmissionOK
  <2>7. CASE Send(j)
    BY <1>2, <2>7, SendOK
  <2>8. CASE SendUnneeded(j) \/ AnswerTask(j) \/ AnswerDone(j)
    BY <1>2, <2>8, AnsweredOK
  <2>9. QED
    BY <1>2, <2>1, <2>2, <2>3, <2>4, <2>5, <2>6, <2>7, <2>8 DEF CopyPass
<1>3. CASE QbPass(j)
  <2>1. CASE \/ Export(j) \/ QbReconcile(j) \/ DeleteAndAdd(j) \/ KeepSource(j)
             \/ TargetListed(j) \/ AddToTarget(j) \/ AskForCheck(j) \/ AwaitCheck(j)
             \/ CheckOpen(j) \/ CheckPassed(j) \/ AwaitSeeding(j)
    BY <1>1, <2>1, TorrentDecides, DecidesOK
  <2>2. CASE Seeding(j) \/ Finish(j)
    BY <1>1, <2>2, FinishDecides, DecidesOK
  <2>3. CASE TargetLost(j) \/ AllRemoved(j) \/ SharedFile(j) \/ FileGone(j) \/ RemovalUncertain(j)
    BY <1>1, <2>3, RemovingDecides, DecidesOK
  <2>4. CASE DropFromSource(j)
    <3>1. UNCHANGED RequestVars /\ UNCHANGED <<job, worker, stopped>>
      BY <1>1, <2>4 DEF DropFromSource, RemovalsUnchanged, jobVars, copyVars, RequestVars
    <3>2. \A k \in Jobs : Rewritten(k)
      BY <3>1, SameRewritten DEF RequestInv, Shape
    <3>3. QED
      BY <3>1, <3>2, RewrittenOK
  <2>5. CASE CheckpointRemoval(j)
    BY <1>1, <2>5, CheckpointRemovalOK
  <2>6. CASE SendRemoval(j)
    BY <1>1, <2>6, SendRemovalOK DEF RemovalInv
  <2>7. CASE RemovalUnneeded(j)
    BY <1>1, <2>7, RemovalUnneededOK
  <2>8. QED
    BY <1>3, <2>1, <2>2, <2>3, <2>4, <2>5, <2>6, <2>7 DEF QbPass
<1>4. QED
  BY <1>2, <1>3

LEMMA RequestStep ==
  ASSUME Inv, RequestInv, [Next]_vars
  PROVE  RequestInv'
<1>0. Shape /\ FreshInv /\ RemovalInv
  BY DEF Inv
<1>1. CASE LoopStep
  BY <1>0, <1>1, LoopOK, PeopleOK DEF LoopStep
<1>2. CASE PassStep
  BY <1>0, <1>2, PassOK DEF PassStep
<1>3. CASE PeopleStep
  BY <1>0, <1>3, PeopleOK
<1>4. CASE OutsideStep
  BY <1>0, <1>4, OpenListKept, QbKept DEF OutsideStep
<1>5. CASE UNCHANGED vars
  <2>1. UNCHANGED RequestVars /\ UNCHANGED <<job, worker, stopped>>
    BY <1>5 DEF vars, jobVars, copyVars, qbVars, RequestVars
  <2>2. \A k \in Jobs : Rewritten(k)
    BY <1>0, <2>1, SameRewritten DEF RequestInv, Shape
  <2>3. QED
    BY <1>0, <2>1, <2>2, RewrittenOK
<1>6. QED
  BY <1>1, <1>2, <1>3, <1>4, <1>5 DEF Next

LEMMA RequestAlways == Spec => [](Inv /\ RequestInv)
<1>1. Inv /\ RequestInv /\ [Next]_vars => Inv' /\ RequestInv'
  BY InvStep, RequestStep
<1>2. QED
  BY <1>1, InitInv, InitRequestInv, PTL DEF Spec

(* A request that may have been sent is never sent again: one copy, one    *)
(* directory and one removal each at most, whichever answer was lost,      *)
(* whichever process died and whatever a person answered.                  *)
THEOREM SpecRequestedOnce == Spec => []RequestedOnce
<1>1. RequestInv => RequestedOnce
  <2> SUFFICES ASSUME RequestInv, NEW j \in Jobs
               PROVE  /\ \A i \in Items : sent[j][i] <= 1
                      /\ \A f \in AllFiles : removals[j][f] <= 1
    BY DEF RequestedOnce
  <2>1. /\ \A i \in Items : sent[j][i] \in {0, 1}
        /\ \A f \in AllFiles : removals[j][f] \in {0, 1}
    BY DEF RequestInv, HistoryOK
  <2>2. QED
    BY <2>1
<1>2. QED
  BY <1>1, RequestAlways, PTL

(* OpenList never writes for two jobs into the same directory at once,     *)
(* unless one of them was stopped or deleted: a job that is written for    *)
(* has the checkpoint of that copy, and with it the lock on the directory. *)
THEOREM SpecOneWriter == Spec => []OneWriter
<1>1. ASSUME Shape, RequestInv, NEW j \in Jobs \ stopped, Writing(j)
      PROVE  LockHeld(j)
  <2>1. RowOK(j, job[j]) /\ HistoryOK
    BY <1>1 DEF RequestInv, JobOK
  <2>2. job[j].ck = CopySent
    BY <1>1, <2>1, QuietIsNotWriting DEF RowOK
  <2>3. job[j].lock /\ job[j].stage \in LockStages
    BY <2>1, <2>2 DEF RowOK, RowFits, LockFits
  <2>4. QED
    BY <2>3 DEF LockHeld, LockStages
<1>2. Inv /\ RequestInv => OneWriter
  BY <1>1 DEF Inv, RequestInv, OneLock, OneWriter
<1>3. QED
  BY <1>2, RequestAlways, PTL

(* The job table is one of those the runs start from, and never changes.   *)
LEMMA SetupKept == Spec => [](setup \in Setups)
<1>1. Init => setup \in Setups
  BY DEF Init, JobsInit
<1>2. Inv /\ setup \in Setups /\ [Next]_vars => (setup \in Setups)'
  <2> SUFFICES ASSUME Inv, setup \in Setups, [Next]_vars PROVE setup' \in Setups
    OBVIOUS
  <2>1. CASE UNCHANGED vars
    BY <2>1 DEF vars, jobVars
  <2>2. CASE LoopStep \/ PeopleStep
    BY <2>2 DEF LoopStep, PeopleStep, Tick, Claim, LeaseExpires, Commit, Fail, Crash, SaveSettings,
         StopAutomatic, EnqueueManual, Recheck, Cancel, RetryMigration, AbandonMigration, Answered,
         DeleteAutomatic, ScanNow
  <2>3. CASE OutsideStep
    BY <2>3, OutsideShape DEF Inv, jobVars
  <2>4. CASE PassStep
    <3>1. PICK j \in Jobs : CopyPass(j) \/ QbPass(j)
      BY <2>4 DEF PassStep
    <3>2. CASE CopyPass(j)
      BY <3>2 DEF CopyPass, Plan, PlanCancelled, PlanWaits, PlanGivesUp, Suspend, Resume, AcquireLock,
           LockRefused, Reconcile, ReconcileOn, ReconcileEnds, SubmissionArrived, SubmissionDoubtful,
           SubmissionNeedsDirectory, CheckpointSubmission, SubmissionUncertain, Send, SendUnneeded,
           AnswerTask, AnswerDone, FollowTask, Decide
    <3>3. CASE QbPass(j)
      BY <3>3 DEF QbPass, Export, QbReconcile, DeleteAndAdd, KeepSource, TargetListed, AddToTarget,
           AskForCheck, AwaitCheck, CheckOpen, CheckPassed, AwaitSeeding, Seeding, TargetLost,
           DropFromSource, AllRemoved, SharedFile, FileGone, RemovalUncertain, CheckpointRemoval,
           SendRemoval, RemovalUnneeded, Finish, Becomes, Decide, jobVars
    <3>4. QED
      BY <3>1, <3>2, <3>3
  <2>5. QED
    BY <2>1, <2>2, <2>3, <2>4 DEF Next
<1>3. QED
  BY <1>1, <1>2, InvAlways, PTL DEF Spec

(* Every variable keeps its type; the cursor and the number of tasks of a  *)
(* row stay within the torrent's files.                                    *)
THEOREM SpecTypeOK == Spec => []TypeOK
<1>1. Inv /\ RequestInv /\ setup \in Setups => TypeOK
  <2> SUFFICES ASSUME Inv, RequestInv, setup \in Setups PROVE TypeOK
    OBVIOUS
  <2>1. \A row : row \in Rows /\ RowTyped(row) =>
          /\ row.stage \in Stages /\ row.ck \in Checkpoints
          /\ row.cursor \in 0 .. MaxFiles /\ row.tasks \in 0 .. MaxFiles
          /\ {row.planned, row.lock, row.exported, row.leased} \subseteq BOOLEAN
    BY JobsAssumption DEF Rows, RowTyped
  <2>2. \A j \in Jobs : job[j] \in Rows /\ RowTyped(job[j])
    BY DEF Inv, Shape, RequestInv, JobOK, RowOK, RowFits
  <2>3. worker.next \in Rows /\ RowTyped(worker.next)
    BY DEF Inv, Shape, RequestInv, NextOK
  <2>4. QED
    BY <2>1, <2>2, <2>3 DEF TypeOK, Inv, Shape, RequestInv, HistoryOK, Pcs
<1>2. QED
  BY <1>1, RequestAlways, SetupKept, PTL

-----------------------------------------------------------------------------
(***************************************************************************)
(* Relocation implements FileMove.  The cursor of a row that removes its   *)
(* source files is what this rests on: whatever was interrupted, answered  *)
(* or tried again, no own file in front of it is at the source (SweptInv). *)
(***************************************************************************)

Swept(j, row) ==
  Manual(j) /\ row.stage \in RemovalStages =>
    /\ \A f \in Files(j) \ setup[j].shared : f <= row.cursor => f \notin source[j]
    /\ row.stage \in {"source_removed", "completed"} => row.cursor = setup[j].files

SweptInv ==
  /\ \A j \in Jobs : Swept(j, job[j])
  /\ worker.pc # "idle" => Swept(worker.job, worker.next)

(* Nothing is put back to the source.                                      *)
LEMMA SweptStays ==
  ASSUME UNCHANGED setup, \A j \in Jobs : source'[j] \subseteq source[j],
         \A j \in Jobs : Swept(j, job'[j]),
         worker'.pc # "idle" => worker'.job \in Jobs /\ Swept(worker'.job, worker'.next)
  PROVE  SweptInv'
BY DEF SweptInv, Swept, Manual, Files

LEMMA SameCursorSwept ==
  ASSUME NEW j, NEW new, NEW old, Swept(j, old),
         new.stage = old.stage, new.cursor = old.cursor
  PROVE  Swept(j, new)
BY DEF Swept

LEMMA ElsewhereSwept ==
  ASSUME NEW j, NEW row, row.stage \notin RemovalStages \/ ~Manual(j)
  PROVE  Swept(j, row)
BY DEF Swept

(* The passes of the handover that do not remove anything.                 *)
TorrentPass(j) ==
  \/ Export(j) \/ QbReconcile(j) \/ DeleteAndAdd(j) \/ KeepSource(j)
  \/ TargetListed(j) \/ AddToTarget(j) \/ AskForCheck(j) \/ AwaitCheck(j)
  \/ CheckOpen(j) \/ CheckPassed(j) \/ AwaitSeeding(j)

RemovingPass(j) ==
  \/ Seeding(j) \/ TargetLost(j) \/ AllRemoved(j) \/ SharedFile(j) \/ FileGone(j)
  \/ RemovalUncertain(j) \/ Finish(j)

PassDecides(j) ==
  /\ worker.pc = "claimed" /\ worker.job = j
  /\ \E row \in Rows : Decide(j, row) /\ Swept(j, row)
  /\ UNCHANGED source

LEMMA TorrentSwept ==
  ASSUME Shape, NEW j \in Jobs, TorrentPass(j)
  PROVE  PassDecides(j)
<1> DEFINE stages == PlainStages \ RemovalStages
<1>0. /\ {"copy_verified", "torrent_exported", "qb_reconcile", "source_qb_removed",
          "target_qb_submitted", "target_qb_check_requested", "target_qb_checking",
          "target_qb_starting", "qb_manual_review"} \subseteq stages
      /\ Classified(j) \in stages
      /\ stages \subseteq Stages
  BY DEF PlainStages, RemovalStages, Classified, Stages, Finished, Review, TargetQbStages
<1>1. worker.pc = "claimed" /\ worker.job = j
  BY DEF TorrentPass, Export, QbReconcile, DeleteAndAdd, KeepSource, TargetListed, AddToTarget,
         AskForCheck, AwaitCheck, CheckOpen, CheckPassed, AwaitSeeding, At, Working
<1>2. UNCHANGED source
  BY DEF TorrentPass, Export, QbReconcile, DeleteAndAdd, KeepSource, TargetListed, AddToTarget,
         AskForCheck, AwaitCheck, CheckOpen, CheckPassed, AwaitSeeding, QbUnchanged,
         RemovalsUnchanged, copyVars
<1> HIDE DEF stages
<1>3. PICK to \in stages : Becomes(j, to) \/ Decide(j, Kept(Moved(job[j], to)))
  <2>1. CASE Export(j) \/ QbReconcile(j)
    BY <1>0, <2>1 DEF Export, QbReconcile, Becomes
  <2>2. CASE DeleteAndAdd(j) \/ KeepSource(j)
    BY <1>0, <2>2 DEF DeleteAndAdd, KeepSource
  <2>3. CASE TargetListed(j) \/ AddToTarget(j)
    BY <1>0, <2>3 DEF TargetListed, AddToTarget
  <2>4. CASE AskForCheck(j) \/ AwaitCheck(j)
    BY <1>0, <2>4 DEF AskForCheck, AwaitCheck
  <2>5. CASE CheckOpen(j) \/ CheckPassed(j) \/ AwaitSeeding(j)
    BY <1>0, <2>5 DEF CheckOpen, CheckPassed, AwaitSeeding
  <2>6. QED
    BY <2>1, <2>2, <2>3, <2>4, <2>5 DEF TorrentPass
<1> DEFINE row == Moved(job[j], to)
<1>4. row \in Rows /\ row.stage = to
  BY <1>0, StageFields DEF Moved, Shape
<1> HIDE DEF row
<1>5. Kept(row) \in Rows /\ Kept(row).stage = to
  BY <1>4 DEF Kept, Rows
<1>6. Swept(j, row) /\ Swept(j, Kept(row))
  BY <1>4, <1>5, ElsewhereSwept DEF stages
<1>7. QED
  BY <1>1, <1>2, <1>3, <1>4, <1>5, <1>6 DEF PassDecides, Becomes, row

(* The cursor goes on behind a file that is shared or gone, and starts     *)
(* anew when the torrent seeds at its target.                              *)
LEMMA RemovingSwept ==
  ASSUME Shape, NEW j \in Jobs, Swept(j, job[j]), RemovingPass(j)
  PROVE  PassDecides(j)
<1>0. {"source_removing", "source_removed", "source_remove_manual_review", "completed"}
        \subseteq Stages
  BY DEF Stages, Finished, Review, TargetQbStages
<1>1. worker.pc = "claimed" /\ worker.job = j /\ Manual(j)
  BY DEF RemovingPass, Seeding, TargetLost, AllRemoved, SharedFile, FileGone, RemovalUncertain,
         Finish, OwnFile, AllThere, Removing, At, Working
<1>2. UNCHANGED source
  BY DEF RemovingPass, Seeding, TargetLost, AllRemoved, SharedFile, FileGone, RemovalUncertain,
         Finish, QbUnchanged, copyVars
<1>3. job[j] \in Rows /\ job[j].cursor \in Nat /\ setup[j].files \in Nat
  BY JobsAssumption DEF Shape, Rows, AllFiles
<1>4. \A f \in Files(j) : f \in Nat /\ f <= setup[j].files
  BY <1>3 DEF Files
<1>5. ASSUME NEW row \in Rows, Decide(j, row), Swept(j, row) PROVE PassDecides(j)
  BY <1>1, <1>2, <1>5 DEF PassDecides
<1>6. ASSUME NEW stage \in {"source_removing", "source_remove_manual_review"},
             job[j].stage = "source_removing", Becomes(j, stage)
      PROVE  PassDecides(j)
  <2> DEFINE row == Moved(job[j], stage)
  <2>1. row \in Rows /\ row.stage = stage /\ row.cursor = job[j].cursor
    BY <1>0, <1>3, StageFields DEF Moved
  <2>2. Decide(j, row)
    BY <1>6 DEF Becomes
  <2> HIDE DEF row
  <2>3. Swept(j, row)
    BY <1>6, <2>1 DEF Swept, RemovalStages
  <2>4. QED
    BY <1>5, <2>1, <2>2, <2>3
<1>7. CASE TargetLost(j) \/ RemovalUncertain(j)
  <2>1. job[j].stage = "source_removing"
    BY <1>7 DEF TargetLost, RemovalUncertain, OwnFile, AllThere, Removing, At, Working
  <2>2. QED
    BY <1>6, <1>7, <2>1 DEF TargetLost, RemovalUncertain
<1>8. CASE SharedFile(j) \/ FileGone(j)
  <2> DEFINE row == [job[j] EXCEPT !.ck = NoCk, !.cursor = job[j].cursor + 1]
  <2>1. row \in Rows /\ row.stage = job[j].stage /\ row.cursor = job[j].cursor + 1
    <3>1. ASSUME NEW old \in Rows, NEW cursor \in Nat
          PROVE  LET new == [old EXCEPT !.ck = NoCk, !.cursor = cursor] IN
                 new \in Rows /\ new.stage = old.stage /\ new.cursor = cursor
      BY DEF Rows, NoCk
    <3>2. job[j].cursor + 1 \in Nat
      BY <1>3
    <3>3. QED
      BY <1>3, <3>1, <3>2
  <2>2. Decide(j, row)
    <3>1. [job[j] EXCEPT !.ck = NoCk, !.cursor = @ + 1] = row
      OBVIOUS
    <3>2. QED
      BY <1>8, <3>1 DEF SharedFile, FileGone
  <2>3. job[j].stage = "source_removing"
    BY <1>8 DEF SharedFile, FileGone, OwnFile, AllThere, Removing, At, Working
  <2> HIDE DEF row
  <2>4. job[j].cursor + 1 \in setup[j].shared \/ job[j].cursor + 1 \notin source[j]
    BY <1>8 DEF SharedFile, FileGone, NextFile
  <2>5. \A f \in Files(j) : f <= row.cursor => f <= job[j].cursor \/ f = job[j].cursor + 1
    BY <1>3, <1>4, <2>1
  <2>6. Swept(j, row)
    BY <2>1, <2>3, <2>4, <2>5 DEF Swept
  <2>7. QED
    BY <1>5, <2>1, <2>2, <2>6
<1>9. CASE AllRemoved(j)
  <2> DEFINE row == Without(Moved(job[j], "source_removed"))
  <2>1. row \in Rows /\ row.stage = "source_removed" /\ row.cursor = job[j].cursor
    BY <1>0, <1>3 DEF Rows, NoCk, Without, Moved
  <2>2. /\ Decide(j, row) /\ job[j].cursor = setup[j].files
        /\ job[j].stage = "source_removing"
    BY <1>9 DEF AllRemoved, AllThere, Removing, At, Working
  <2> HIDE DEF row
  <2>3. Swept(j, row)
    BY <2>1, <2>2 DEF Swept, RemovalStages
  <2>4. QED
    BY <1>5, <2>1, <2>2, <2>3
<1>10. CASE Seeding(j)
  <2> DEFINE row == [Without(Moved(job[j], "source_removing")) EXCEPT !.cursor = 0]
  <2>1. row \in Rows /\ row.stage = "source_removing" /\ row.cursor = 0
    BY <1>0, <1>3 DEF Rows, NoCk, Without, Moved
  <2>2. Decide(j, row)
    BY <1>10 DEF Seeding
  <2> HIDE DEF row
  <2>3. \A f \in Files(j) : ~(f <= 0)
    BY <1>3 DEF Files
  <2>4. Swept(j, row)
    BY <2>1, <2>3 DEF Swept
  <2>5. QED
    BY <1>5, <2>1, <2>2, <2>4
<1>11. CASE Finish(j)
  <2> DEFINE row == [Moved(job[j], "completed") EXCEPT !.exported = FALSE]
  <2>1. row \in Rows /\ row.stage = "completed" /\ row.cursor = job[j].cursor
    BY <1>0, <1>3 DEF Rows, Moved
  <2>2. Decide(j, row) /\ job[j].stage = "source_removed"
    BY <1>11 DEF Finish, At, Working
  <2> HIDE DEF row
  <2>3. Swept(j, row)
    BY <2>1, <2>2 DEF Swept, RemovalStages
  <2>4. QED
    BY <1>5, <2>1, <2>2, <2>3
<1>12. QED
  BY <1>7, <1>8, <1>9, <1>10, <1>11 DEF RemovingPass

LEMMA PassSwept ==
  ASSUME Shape, SweptInv, NEW j \in Jobs, PassDecides(j)
  PROVE  SweptInv'
<1>1. PICK row \in Rows : Decide(j, row) /\ Swept(j, row) /\ worker.job = j /\ UNCHANGED source
  BY DEF PassDecides
<1>2. /\ worker'.job = j /\ worker'.next.stage = row.stage /\ worker'.next.cursor = row.cursor
      /\ UNCHANGED <<setup, job>>
  BY <1>1, DecideFacts
<1>3. Swept(worker'.job, worker'.next)
  BY <1>1, <1>2, SameCursorSwept
<1>4. QED
  BY <1>1, <1>2, <1>3, SweptStays DEF SweptInv

LEMMA InitSwept == Init => SweptInv
BY DEF Init, JobsInit, SweptInv, Swept, RemovalStages, NoRow, Idle

LEMMA OthersSwept ==
  ASSUME Shape, SweptInv, OtherStep, UNCHANGED copyVars
  PROVE  SweptInv'
<1>1. UNCHANGED <<setup, source>> /\ \A j \in Jobs : RowKept(j)
  BY DEF OtherStep, copyVars
<1>2. \A j \in Jobs : Swept(j, job'[j])
  BY <1>1 DEF SweptInv, Swept, RowKept
<1>3. CASE worker' = worker \/ worker' = [worker EXCEPT !.fresh = FALSE]
  <2>1. worker'.pc = worker.pc /\ worker'.job = worker.job /\ worker'.next = worker.next
    BY <1>3 DEF Shape
  <2>2. worker'.pc # "idle" => worker'.job \in Jobs /\ Swept(worker'.job, worker'.next)
    BY <2>1 DEF SweptInv, Shape
  <2>3. QED
    BY <1>1, <1>2, <2>2, SweptStays
<1>4. CASE worker' = Idle
  BY <1>1, <1>2, <1>4, SweptStays DEF Idle
<1>5. ASSUME NEW j \in Jobs, worker' = [pc |-> "claimed", job |-> j, fresh |-> TRUE, next |-> NoRow]
      PROVE  SweptInv'
  <2>1. worker'.job \in Jobs /\ Swept(worker'.job, worker'.next)
    BY <1>5 DEF Swept, NoRow, RemovalStages
  <2>2. QED
    BY <1>1, <1>2, <2>1, SweptStays
<1>6. QED
  BY <1>3, <1>4, <1>5 DEF OtherStep

LEMMA CheckpointedSwept ==
  ASSUME Shape, SweptInv, NEW j \in Jobs, NEW ck, Checkpointed(j, ck)
  PROVE  SweptInv'
<1>1. /\ worker'.job = j /\ worker'.next.stage = job[j].stage
      /\ worker'.next.cursor = job[j].cursor
      /\ job'[j].stage = job[j].stage /\ job'[j].cursor = job[j].cursor
      /\ \A k \in Jobs : k # j => job'[k] = job[k]
      /\ UNCHANGED <<setup, source>>
  BY DEF Checkpointed, Shape, copyVars
<1>2. Swept(worker'.job, worker'.next)
  BY <1>1, SameCursorSwept DEF SweptInv
<1>3. \A k \in Jobs : Swept(k, job'[k])
  <2> TAKE k \in Jobs
  <2>1. job'[k].stage = job[k].stage /\ job'[k].cursor = job[k].cursor /\ Swept(k, job[k])
    BY <1>1 DEF SweptInv
  <2>2. QED
    BY <2>1, SameCursorSwept
<1>4. QED
  BY <1>1, <1>2, <1>3, SweptStays

LEMMA CopyPassSwept ==
  ASSUME Shape, SweptInv, NEW j \in Jobs, CopyPass(j), UNCHANGED qbVars
  PROVE  SweptInv'
<1>1. CopyDecides(j) \/ AcquireLock(j) \/ CheckpointSubmission(j) \/ Send(j) \/ CopyAnswered(j)
  BY PlanningSteps, CopyingSteps, AnswerSteps DEF CopyPass
<1>2. CASE CopyDecides(j)
  <2>1. PICK row \in Rows : CopyRow(j, row) /\ Decide(j, row) /\ worker.pc = "claimed"
                            /\ worker.job = j /\ UNCHANGED copyVars
    BY <1>2 DEF CopyDecides
  <2>2. Swept(j, row)
    BY <2>1, ElsewhereSwept DEF CopyRow, RemovalStages, ExportedStages, TargetQbStages
  <2>3. QED
    BY <2>1, <2>2, PassSwept DEF PassDecides, copyVars
<1>3. CASE AcquireLock(j)
  <2>1. /\ \A k \in Jobs : job'[k].stage = job[k].stage /\ job'[k].cursor = job[k].cursor
        /\ UNCHANGED <<setup, worker, source>>
    BY <1>3, LockFacts DEF copyVars
  <2>2. \A k \in Jobs : Swept(k, job'[k])
    BY <2>1, SameCursorSwept DEF SweptInv
  <2>3. worker'.pc # "idle" => worker'.job \in Jobs /\ Swept(worker'.job, worker'.next)
    BY <2>1 DEF SweptInv, Shape
  <2>4. QED
    BY <2>1, <2>2, <2>3, SweptStays
<1>4. CASE CheckpointSubmission(j)
  BY <1>4, CheckpointSteps, CheckpointedSwept
<1>5. CASE Send(j)
  <2>1. /\ worker'.job = worker.job /\ worker'.next = worker.next /\ worker.pc # "idle"
        /\ UNCHANGED <<setup, job, source>>
    BY <1>5 DEF Send, InCopyCall, Shape
  <2>2. QED
    BY <2>1, SweptStays DEF SweptInv, Shape
<1>6. CASE CopyAnswered(j)
  <2>1. /\ worker'.job = worker.job /\ worker.pc # "idle"
        /\ worker'.next.stage \in {worker.next.stage, "copying"}
        /\ worker'.next.cursor = worker.next.cursor
        /\ UNCHANGED <<setup, job, source>>
    BY <1>6 DEF CopyAnswered, copyVars, Shape
  <2>2. Swept(worker'.job, worker'.next) /\ worker'.job \in Jobs
    BY <2>1, SameCursorSwept, ElsewhereSwept DEF SweptInv, Shape, RemovalStages
  <2>3. QED
    BY <2>1, <2>2, SweptStays DEF SweptInv
<1>7. QED
  BY <1>1, <1>2, <1>3, <1>4, <1>5, <1>6

LEMMA QbPassSwept ==
  ASSUME Shape, SweptInv, NEW j \in Jobs, QbPass(j)
  PROVE  SweptInv'
<1>1. CASE TorrentPass(j) \/ RemovingPass(j)
  BY <1>1, TorrentSwept, RemovingSwept, PassSwept DEF SweptInv
<1>2. CASE DropFromSource(j)
  BY <1>2, SweptStays DEF DropFromSource, jobVars, RemovalsUnchanged, copyVars, SweptInv, Shape
<1>3. CASE CheckpointRemoval(j)
  BY <1>3, CheckpointSteps, CheckpointedSwept
<1>4. CASE SendRemoval(j) \/ RemovalUnneeded(j)
  <2>1. /\ worker'.job = worker.job /\ worker'.next = worker.next /\ worker.pc # "idle"
        /\ UNCHANGED <<setup, job, source>>
    BY <1>4 DEF SendRemoval, RemovalUnneeded, InRemoval, QbUnchanged, copyVars, Shape
  <2>2. QED
    BY <2>1, SweptStays DEF SweptInv, Shape
<1>5. QED
  BY <1>1, <1>2, <1>3, <1>4 DEF QbPass, TorrentPass, RemovingPass

(* OpenList puts nothing at the source, and other people take from it.     *)
LEMMA SourceShrinks ==
  ASSUME Shape, OutsideStep, NEW j \in Jobs
  PROVE  source'[j] \subseteq source[j]
<1>1. CASE UNCHANGED source
  BY <1>1
<1>2. ASSUME NEW k \in Jobs, NEW f, source' = [source EXCEPT ![k] = @ \ {f}]
      PROVE  source'[j] \subseteq source[j]
  BY <1>2 DEF Shape
<1>3. QED
  BY <1>1, <1>2 DEF OutsideStep, OpenListStep, TakeDirectory, Arrive, Lose, Write, EndWell, EndBadly,
       PutForeign, EnvUnchanged, QbStep, Leaves, Checked, StartsSeeding, AddElsewhere, Mislay, Remove,
       LoseRemoval, Replace, TakeSource, RemovalsUnchanged, copyVars

LEMMA SweptStep ==
  ASSUME Inv, SweptInv, [Next]_vars
  PROVE  SweptInv'
<1>0. Shape /\ FreshInv
  BY DEF Inv
<1>1. CASE LoopStep
  <2>1. CASE Commit /\ UNCHANGED <<copyVars, qbVars, stopped>>
    <3>1. /\ worker.pc # "idle" /\ worker.job \in Jobs
          /\ \A j \in Jobs : job'[j] = IF j = worker.job THEN worker.next ELSE job[j]
          /\ worker'.pc = "idle" /\ UNCHANGED <<setup, source>>
      BY <1>0, <2>1 DEF Commit, Shape, Idle, copyVars
    <3>2. \A j \in Jobs : Swept(j, job'[j])
      BY <3>1 DEF SweptInv
    <3>3. QED
      BY <3>1, <3>2, SweptStays
  <2>2. CASE ~(Commit /\ UNCHANGED <<copyVars, qbVars, stopped>>)
    BY <1>0, <1>1, <2>2, LoopSteps, OthersSwept DEF LoopStep
  <2>3. QED
    BY <2>1, <2>2
<1>2. CASE PassStep
  BY <1>0, <1>2, CopyPassSwept, QbPassSwept DEF PassStep
<1>3. CASE PeopleStep
  BY <1>0, <1>3, PeopleSteps, OthersSwept
<1>4. CASE OutsideStep
  <2>1. UNCHANGED jobVars /\ \A j \in Jobs : source'[j] \subseteq source[j]
    BY <1>0, <1>4, OutsideShape, SourceShrinks
  <2>2. QED
    BY <1>0, <2>1, SweptStays DEF SweptInv, Shape, jobVars
<1>5. CASE UNCHANGED vars
  BY <1>0, <1>5, SweptStays DEF SweptInv, Shape, vars, jobVars, copyVars
<1>6. QED
  BY <1>1, <1>2, <1>3, <1>4, <1>5 DEF Next

LEMMA SweptAlways == Spec => [](Inv /\ SweptInv)
<1>1. Inv /\ SweptInv /\ [Next]_vars => Inv' /\ SweptInv'
  BY InvStep, SweptStep
<1>2. QED
  BY <1>1, InitInv, InitSwept, PTL DEF Spec

-----------------------------------------------------------------------------
(* The steps of FileMove.                                                  *)

MoveVars == <<Moves, FilesOf, OwnOf, PlaceOf, DoneOf>>

LEMMA MoveSetupKept ==
  ASSUME UNCHANGED setup
  PROVE  UNCHANGED <<Moves, FilesOf, OwnOf>>
BY DEF Moves, FilesOf, OwnOf, Manual, Files

LEMMA PlacesStay ==
  ASSUME UNCHANGED <<setup, source, target>>
  PROVE  UNCHANGED PlaceOf
BY DEF PlaceOf, Place, Files

LEMMA MoveStutters ==
  ASSUME UNCHANGED <<setup, source, target>>,
         \A j \in Jobs : job'[j].stage = "completed" <=> job[j].stage = "completed"
  PROVE  UNCHANGED MoveVars
<1>1. UNCHANGED DoneOf
  BY DEF DoneOf
<1>2. QED
  BY <1>1, MoveSetupKept, PlacesStay DEF MoveVars

LEMMA MoveInit == Init => Move!Init
<1> SUFFICES ASSUME Init PROVE Move!Init
  OBVIOUS
<1>1. Inv
  BY InitInv
<1>2. \A j \in Jobs : Files(j) \subseteq AllFiles
  BY <1>1, JobsAssumption DEF Inv, Shape, AllFiles, Files
<1>3. \A j \in Jobs : \A f \in Files(j) : Place(j, f) = "source"
  BY <1>2 DEF Init, CopyInit, Place
<1>4. PlaceOf = [j \in Jobs |-> [f \in FilesOf[j] |-> "source"]]
  BY <1>3 DEF PlaceOf, FilesOf
<1>5. DoneOf = {}
  BY DEF DoneOf, Init, JobsInit, NoRow
<1>6. /\ Moves \subseteq Jobs
      /\ FilesOf \in [Jobs -> SUBSET AllFiles] /\ OwnOf \in [Jobs -> SUBSET AllFiles]
      /\ \A j \in Jobs : OwnOf[j] \subseteq FilesOf[j]
  BY <1>2 DEF Moves, FilesOf, OwnOf
<1>7. QED
  BY <1>4, <1>5, <1>6 DEF Move!Init

(* The end of a job: its own files have moved, or all of them are there.   *)
LEMMA MoveCompletes ==
  ASSUME Inv, SweptInv, Commit, UNCHANGED copyVars, worker.next.stage = "completed"
  PROVE  Move!Next
<1> DEFINE w == worker.job
<1>1. /\ worker.pc # "idle" /\ w \in Jobs
      /\ \A j \in Jobs : job'[j] = IF j = w THEN worker.next ELSE job[j]
      /\ UNCHANGED <<setup, source, target>>
  BY DEF Commit, Inv, Shape, copyVars
<1>2. DoneOf' = DoneOf \cup {w}
  BY <1>1 DEF DoneOf
<1>3. UNCHANGED <<Moves, FilesOf, OwnOf, PlaceOf>>
  BY <1>1, MoveSetupKept, PlacesStay
<1>4. Swept(w, worker.next) /\ Placed(w)
  BY <1>1 DEF SweptInv, Inv, RemovalInv
<1> HIDE DEF w
<1>5. PICK j \in Jobs : j = w
  BY <1>1
<1>6. Move!Brought(j)
  <2>1. CASE Manual(j)
    <3>1. \A f \in Files(j) \ setup[j].shared : f \notin source[j]
      <4>1. setup[j].files \in Nat
        BY JobsAssumption DEF Inv, Shape, AllFiles
      <4>2. \A f \in Files(j) : f <= setup[j].files
        BY <4>1 DEF Files
      <4>3. QED
        BY <1>4, <1>5, <2>1, <4>2 DEF Swept, RemovalStages
    <3>2. \A f \in Files(j) \ setup[j].shared : Place(j, f) = "target"
      BY <1>4, <1>5, <3>1 DEF Placed, Place
    <3>3. \A f \in OwnOf[j] : PlaceOf[j][f] = "target"
      BY <3>2 DEF OwnOf, PlaceOf
    <3>4. j \in Moves
      BY <2>1 DEF Moves
    <3>5. QED
      BY <3>3, <3>4 DEF Move!Brought
  <2>2. CASE ~Manual(j)
    <3>1. AllSame(j)
      BY <1>1, <1>5, <2>2 DEF Inv, CopyInv, w
    <3>2. \A f \in Files(j) : Place(j, f) # "source"
      BY <3>1 DEF AllSame, Place
    <3>3. \A f \in FilesOf[j] : PlaceOf[j][f] # "source"
      BY <3>2 DEF FilesOf, PlaceOf
    <3>4. j \notin Moves
      BY <2>2 DEF Moves
    <3>5. QED
      BY <3>3, <3>4 DEF Move!Brought
  <2>3. QED
    BY <2>1, <2>2
<1>7. Move!Complete(j)
  BY <1>2, <1>3, <1>5, <1>6 DEF Move!Complete
<1>8. QED
  BY <1>7 DEF Move!Next

(* One file goes somewhere, or stays.                                      *)
LEMMA OneFileMoves ==
  ASSUME Shape, UNCHANGED <<setup, job>>, NEW j \in Jobs, NEW f \in Files(j),
         \A k \in Jobs : \A g \in Files(k) : (k = j /\ g = f) \/ Place(k, g)' = Place(k, g),
         \/ Place(j, f)' = Place(j, f)
         \/ Place(j, f) = "source" /\ Place(j, f)' = "both"
         \/ /\ Manual(j) /\ job[j].stage # "completed"
            /\ Place(j, f) = "both"
            /\ \/ Place(j, f)' = "source"
               \/ Place(j, f)' = "target" /\ f \notin setup[j].shared
  PROVE  Move!Next \/ UNCHANGED MoveVars
<1>1. UNCHANGED <<Moves, FilesOf, OwnOf, DoneOf>>
  BY MoveSetupKept DEF DoneOf
<1>2. \A k \in Jobs : Files(k)' = Files(k)
  BY DEF Files
<1>3. PlaceOf' = [k \in Jobs |-> [g \in Files(k) |-> Place(k, g)']]
  BY <1>2 DEF PlaceOf
<1>4. CASE Place(j, f)' = Place(j, f)
  <2>1. PlaceOf' = PlaceOf
    BY <1>3, <1>4 DEF PlaceOf
  <2>2. QED
    BY <1>1, <2>1 DEF MoveVars
<1>5. PlaceOf[j][f] = Place(j, f)
  BY DEF PlaceOf
<1>6. ASSUME NEW to, Place(j, f)' = to
      PROVE  PlaceOf' = [PlaceOf EXCEPT ![j][f] = to]
  <2> DEFINE new == [g \in Files(j) |-> IF g = f THEN to ELSE Place(j, g)]
  <2>1. [PlaceOf[j] EXCEPT ![f] = to] = new
    BY DEF PlaceOf
  <2>2. \A k \in Jobs : k # j =>
          [g \in Files(k) |-> Place(k, g)'] = [g \in Files(k) |-> Place(k, g)]
    OBVIOUS
  <2>3. [g \in Files(j) |-> Place(j, g)'] = new
    BY <1>6
  <2> HIDE DEF new
  <2>4. PlaceOf' = [k \in Jobs |-> IF k = j THEN new ELSE PlaceOf[k]]
    BY <1>3, <2>2, <2>3 DEF PlaceOf
  <2>5. QED
    BY <2>1, <2>4 DEF PlaceOf
<1>7. ASSUME NEW from, NEW to, Place(j, f) = from, Place(j, f)' = to
      PROVE  Move!Goes(j, f, from, to)
  BY <1>1, <1>5, <1>6, <1>7 DEF Move!Goes
<1>8. f \in FilesOf[j]
  BY DEF FilesOf
<1>9. CASE Place(j, f) = "source" /\ Place(j, f)' = "both"
  BY <1>7, <1>8, <1>9 DEF Move!Next, Move!Copied
<1>10. CASE Manual(j) /\ job[j].stage # "completed" /\ Place(j, f) = "both"
            /\ Place(j, f)' = "source"
  <2>1. j \in Moves \ DoneOf
    BY <1>10 DEF Moves, DoneOf
  <2>2. QED
    BY <1>7, <1>8, <1>10, <2>1 DEF Move!Next, Move!Replaced
<1>11. CASE Manual(j) /\ job[j].stage # "completed" /\ Place(j, f) = "both"
            /\ Place(j, f)' = "target" /\ f \notin setup[j].shared
  <2>1. j \in Moves \ DoneOf /\ f \in OwnOf[j]
    BY <1>11 DEF Moves, DoneOf, OwnOf
  <2>2. QED
    BY <1>7, <1>8, <1>11, <2>1 DEF Move!Next, Move!Removed
<1>12. QED
  BY <1>4, <1>9, <1>10, <1>11

LEMMA OpenListMoves ==
  ASSUME Inv, OpenListStep
  PROVE  Move!Next \/ UNCHANGED MoveVars
<1>0. Shape /\ \A j \in Jobs : Placed(j)
  BY DEF Inv, RemovalInv
<1>1. UNCHANGED <<setup, job, source>>
  BY DEF OpenListStep, TakeDirectory, Arrive, Lose, Write, EndWell, EndBadly, PutForeign,
         EnvUnchanged, jobVars
<1>2. CASE UNCHANGED target
  BY <1>1, <1>2, MoveStutters
<1>3. ASSUME NEW j \in Jobs, NEW f \in Files(j), NEW content,
             target' = [target EXCEPT ![j][f] = content],
             target[j][f] = "absent" \/ content = Copied(target[j][f])
      PROVE  Move!Next \/ UNCHANGED MoveVars
  <2>1. \A k \in Jobs : Files(k) \subseteq AllFiles
    BY <1>0, JobsAssumption DEF Shape, AllFiles, Files
  <2>2. \A k \in Jobs : \A g \in Files(k) :
          target'[k][g] = IF k = j /\ g = f THEN content ELSE target[k][g]
    BY <1>0, <1>3, <2>1 DEF Shape
  <2>3. \A k \in Jobs : \A g \in Files(k) : (k = j /\ g = f) \/ Place(k, g)' = Place(k, g)
    BY <1>1, <2>2 DEF Place
  <2>4. f \in source[j] \/ target[j][f] = "same"
    BY <1>0 DEF Placed
  <2>5. Place(j, f)' = Place(j, f) \/ (Place(j, f) = "source" /\ Place(j, f)' = "both")
    BY <1>1, <1>3, <2>2, <2>4 DEF Place, Copied
  <2>6. QED
    BY <1>0, <1>1, <2>3, <2>5, OneFileMoves
<1>4. QED
  BY <1>2, <1>3 DEF OpenListStep, TakeDirectory, Arrive, Lose, Write, EndWell, EndBadly, PutForeign

LEMMA QbMoves ==
  ASSUME Inv, SweptInv, QbStep
  PROVE  Move!Next \/ UNCHANGED MoveVars
<1>0. Shape /\ \A j \in Jobs : Placed(j)
  BY DEF Inv, RemovalInv
<1>1. UNCHANGED <<setup, job>>
  BY DEF QbStep, Leaves, Checked, StartsSeeding, AddElsewhere, Mislay, Remove, LoseRemoval, Replace,
         TakeSource, jobVars
<1>2. PICK j \in Jobs :
        /\ Manual(j)
        /\ \/ Leaves(j) \/ Checked(j) \/ StartsSeeding(j) \/ AddElsewhere(j) \/ Mislay(j)
           \/ \E f \in Files(j) : Remove(j, f) \/ LoseRemoval(j, f) \/ Replace(j, f)
                                  \/ TakeSource(j, f)
  BY DEF QbStep
<1>3. \A k \in Jobs : Files(k) \subseteq AllFiles
  BY <1>0, JobsAssumption DEF Shape, AllFiles, Files
<1>4. CASE UNCHANGED <<source, target>>
  BY <1>1, <1>4, MoveStutters
<1>5. ASSUME NEW f \in Files(j), f \notin setup[j].shared, target[j][f] = "same",
             source' = [source EXCEPT ![j] = @ \ {f}], UNCHANGED target
      PROVE  Move!Next \/ UNCHANGED MoveVars
  <2>1. \A k \in Jobs : source'[k] = IF k = j THEN source[k] \ {f} ELSE source[k]
    BY <1>0, <1>5 DEF Shape
  <2>2. \A k \in Jobs : \A g \in Files(k) : (k = j /\ g = f) \/ Place(k, g)' = Place(k, g)
    BY <1>5, <2>1 DEF Place
  <2>3. Place(j, f)' = "target" /\ Place(j, f) \in {"both", "target"}
    BY <1>5, <2>1 DEF Place
  <2>4. job[j].stage = "completed" => f \notin source[j]
    <3>1. f <= setup[j].files
      BY DEF Files
    <3>2. QED
      BY <1>2, <1>5, <3>1 DEF SweptInv, Swept, RemovalStages
  <2>5. job[j].stage = "completed" => Place(j, f) = "target"
    BY <1>5, <2>4 DEF Place
  <2>6. QED
    BY <1>0, <1>1, <1>2, <1>5, <2>2, <2>3, <2>5, OneFileMoves
<1>6. ASSUME NEW f \in Files(j), Remove(j, f)
      PROVE  Move!Next \/ UNCHANGED MoveVars
  <2>1. target[j][f] = "same" /\ f \notin setup[j].shared
    BY <1>0, <1>6 DEF Remove, Placed
  <2>2. QED
    BY <1>5, <1>6, <2>1 DEF Remove
<1>7. ASSUME NEW f \in Files(j), TakeSource(j, f)
      PROVE  Move!Next \/ UNCHANGED MoveVars
  BY <1>5, <1>7 DEF TakeSource
<1>8. ASSUME NEW f \in Files(j), Replace(j, f)
      PROVE  Move!Next \/ UNCHANGED MoveVars
  <2>1. /\ target[j][f] = "same" /\ f \in source[j] /\ UNCHANGED source
        /\ job[j].stage # "completed"
    BY <1>8 DEF Replace, TargetQbStages
  <2>2. \A k \in Jobs : \A g \in Files(k) :
          target'[k][g] = IF k = j /\ g = f THEN "other" ELSE target[k][g]
    BY <1>0, <1>3, <1>8 DEF Replace, Shape
  <2>3. \A k \in Jobs : \A g \in Files(k) : (k = j /\ g = f) \/ Place(k, g)' = Place(k, g)
    BY <2>1, <2>2 DEF Place
  <2>4. Place(j, f) = "both" /\ Place(j, f)' = "source"
    BY <2>1, <2>2 DEF Place
  <2>5. QED
    BY <1>0, <1>1, <1>2, <2>1, <2>3, <2>4, OneFileMoves
<1>9. CASE Leaves(j) \/ Checked(j) \/ StartsSeeding(j) \/ AddElsewhere(j) \/ Mislay(j)
           \/ \E f \in Files(j) : LoseRemoval(j, f)
  BY <1>4, <1>9 DEF Leaves, Checked, StartsSeeding, AddElsewhere, Mislay, LoseRemoval,
       RemovalsUnchanged, copyVars
<1>10. QED
  BY <1>2, <1>6, <1>7, <1>8, <1>9

LEMMA MoveStep ==
  ASSUME Inv, SweptInv, [Next]_vars
  PROVE  Move!Next \/ UNCHANGED MoveVars
<1>0. Shape /\ FreshInv /\ \A j \in Jobs : Founded(j)
  BY DEF Inv, DataInv
<1>1. CASE UNCHANGED vars
  BY <1>1, MoveStutters DEF vars, jobVars, copyVars
<1>2. CASE Next
  <2>1. Kinds
    BY <1>0, <1>2, NextKinds
  <2>2. CASE OtherStep /\ UNCHANGED <<copyVars, qbVars>>
    <3>1. /\ UNCHANGED <<setup, source, target>>
          /\ \A j \in Jobs : job'[j].stage = "completed" <=> job[j].stage = "completed"
      BY <2>2 DEF OtherStep, RowKept, copyVars, Finished
    <3>2. QED
      BY <3>1, MoveStutters
  <2>3. CASE Commit /\ UNCHANGED <<copyVars, qbVars>>
    <3>1. CASE worker.next.stage = "completed"
      BY <2>3, <3>1, MoveCompletes
    <3>2. CASE worker.next.stage # "completed"
      <4>1. /\ UNCHANGED <<setup, source, target>> /\ worker.job \in Jobs
            /\ \A j \in Jobs : job'[j] = IF j = worker.job THEN worker.next ELSE job[j]
            /\ job[worker.job].stage \notin Finished
        BY <1>0, <2>3 DEF Commit, CommitAllowed, Owns, FreshInv, Shape, copyVars
      <4>2. QED
        BY <3>2, <4>1, MoveStutters DEF Finished
    <3>3. QED
      BY <3>1, <3>2
  <2>4. ASSUME NEW j \in Jobs, PassKinds(j)
        PROVE  Move!Next \/ UNCHANGED MoveVars
    <3>1. CASE AcquireLock(j)
      BY <1>0, <3>1, LockFacts, MoveStutters DEF copyVars
    <3>2. ASSUME NEW ck, Checkpointed(j, ck) PROVE UNCHANGED MoveVars
      BY <3>2, MoveStutters DEF Checkpointed, copyVars
    <3>3. CASE (CheckpointSubmission(j) /\ UNCHANGED qbVars) \/ CheckpointRemoval(j)
      BY <1>0, <3>2, <3>3, CheckpointSteps
    <3>4. CASE CopyDecides(j) \/ QbDecides(j) \/ Send(j) \/ CopyAnswered(j) \/ DropFromSource(j)
               \/ SendRemoval(j) \/ RemovalUnneeded(j)
      <4>1. UNCHANGED <<setup, job, source, target>>
        BY <3>4 DEF CopyDecides, QbDecides, QbFrame, Decide, Send, CopyAnswered, DropFromSource,
             SendRemoval, RemovalUnneeded, QbUnchanged, RemovalsUnchanged, jobVars, copyVars
      <4>2. QED
        BY <4>1, MoveStutters
    <3>5. QED
      BY <2>4, <3>1, <3>3, <3>4 DEF PassKinds
  <2>5. CASE OutsideStep
    BY <2>5, OpenListMoves, QbMoves DEF OutsideStep
  <2>6. QED
    BY <2>1, <2>2, <2>3, <2>4, <2>5 DEF Kinds
<1>3. QED
  BY <1>1, <1>2

(* A manual job that is completed has removed all its own source files,    *)
(* each with its content at the target, an automatic one has copied all    *)
(* its files, and nothing is taken from the source afterwards: relocation  *)
(* implements FileMove.                                                    *)
THEOREM SpecMoveSpec == Spec => MoveSpec
<1>1. Inv /\ SweptInv /\ [Next]_vars => [Move!Next]_(Move!vars)
  BY MoveStep DEF MoveVars, Move!vars
<1>2. QED
  BY <1>1, MoveInit, SweptAlways, PTL DEF Spec, MoveSpec, Move!Spec
=============================================================================
