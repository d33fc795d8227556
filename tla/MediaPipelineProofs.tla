------------------------ MODULE MediaPipelineProofs -------------------------
(***************************************************************************)
(* Invariants of the media pipeline for any number of episodes, torrents,  *)
(* attempts and scanners.                                                  *)
(***************************************************************************)
EXTENDS MediaPipeline, MediaTargetsProofs

(***************************************************************************)
(* The inductive invariant, in one part per group of variables, so that a  *)
(* step is checked against the parts it can disturb.                       *)
(***************************************************************************)
RowInv ==
  /\ status \in [Rows -> RowStatus]
  /\ attempts \in [Rows -> 0 .. MaxAttempts]
  /\ lease \in [Rows -> LeaseState]
  /\ infohash \in [Rows -> Torrents \cup {NoTorrent}]
  /\ release \in [Rows -> Torrents \cup {NoTorrent}]
  /\ NoStrandedRow

SubInv ==
  /\ state \in {"absent", "active", "completed"}
  /\ cursor \in {Done} \cup Episodes
  /\ state = "active" => Current \in Episodes
  /\ start \in Episodes
  /\ target \in [Episodes -> TargetStatus]
  /\ enabled \in BOOLEAN
  /\ subLease \in LeaseState
  /\ subOwner \in Scanners \cup {NoOwner}
  /\ spc \in [Scanners -> ScanPc]
  /\ scanKey \in [Scanners -> {Done} \cup Episodes]
  /\ scanFresh \in [Scanners -> BOOLEAN]
  /\ FreshScanIsCurrent

WorkInv ==
  /\ wpc \in [Rows -> WorkerPc]
  /\ job \in [Rows -> Torrents \cup {NoTorrent}]
  /\ fresh \in [Rows -> BOOLEAN]

QbInv ==
  /\ booted \in BOOLEAN
  /\ qb \subseteq Torrents /\ net \subseteq Torrents /\ landed \subseteq Torrents
  /\ unanswered \subseteq Rows

(* A user's request that waits with qB's answer about a row still finds    *)
(* the row in the status it asked about: whoever changes that status drops *)
(* the row or queues it again, which ends the request.                     *)
VerdictHeld ==
  \A d \in Rows :
    verdict[d] # "none" => status[d] = IF d \in Manual THEN "submitted" ELSE "failed"

VerdictInv ==
  /\ verdict \in [Rows -> {"none", "present", "absent"}]
  /\ VerdictHeld

(* The torrents of a row and of its worker.  From "submitting" on, the     *)
(* infohash of a row is the one of its release.  A worker's torrent is the *)
(* one of its row as long as its copy of the row is current, and also when *)
(* it reads again a row that is being submitted or reconciled.             *)
TorrentInv ==
  /\ qb \subseteq landed
  /\ \A d \in Rows :
       /\ status[d] # "none" => release[d] \in Torrents
       /\ status[d] \in {"submitting", "reconciling"} => infohash[d] = release[d]
       /\ wpc[d] # "idle" => job[d] \in Torrents
       /\ wpc[d] # "idle" /\ (fresh[d] \/ status[d] \in {"submitting", "reconciling"})
            => job[d] = release[d]
       /\ wpc[d] \in {"seen", "confirmed"} => job[d] \in landed

IInv == RowInv /\ SubInv /\ WorkInv /\ QbInv /\ VerdictInv /\ TorrentInv

LEMMA RowSets == Episodes \subseteq Rows /\ Manual \subseteq Rows /\ Manual \subseteq Torrents
  BY ManualAssumption DEF Rows

LEMMA CurrentEpisode == SubInv => Current \in {Done} \cup Episodes
  BY MovieOneEpisode DEF SubInv, Current

(***************************************************************************)
(* Shared transactions.                                                    *)
(***************************************************************************)
LEMMA VersionBumpedFresh ==
  VersionBumped => scanFresh' \in [Scanners -> BOOLEAN] /\ FreshScanIsCurrent'
  BY DEF VersionBumped, FreshScanIsCurrent

LEMMA ReopenSub ==
  ASSUME SubInv, NEW D, ReopenTargets(D)
  PROVE  SubInv'
  <1>1. target' \in [Episodes -> TargetStatus]
    BY DEF ReopenTargets, SubInv, TargetStatus
  <1>2. CASE Reopened(D) # {}
    BY <1>1, <1>2, VersionBumpedFresh DEF ReopenTargets, SubInv, LeaseState, Current
  <1>3. CASE Reopened(D) = {}
    BY <1>1, <1>3 DEF ReopenTargets, SubInv, FreshScanIsCurrent, Current
  <1> QED
    BY <1>2, <1>3

LEMMA SettleSub ==
  ASSUME SubInv, NEW d \in Rows, NEW coverages, SettleTarget(d, coverages)
  PROVE  SubInv'
  <1>1. CASE d \in Manual
    BY <1>1 DEF SettleTarget, SubInv, FreshScanIsCurrent, Current
  <1>2. CASE d \notin Manual /\ d # Current
    BY <1>2 DEF SettleTarget, SubInv, FreshScanIsCurrent, Current, TargetStatus
  <1>3. CASE d \notin Manual /\ d = Current
    <2>1. d \in Episodes /\ target \in [Episodes -> TargetStatus]
      BY <1>3 DEF Rows, SubInv
    <2>2. PICK coverage \in coverages : \E c \in CursorAfter(target, d, coverage) :
            /\ cursor' = c
            /\ target' = TargetsAfter(target, d, coverage, c)
            /\ state' = IF c = Done THEN "completed" ELSE state
            /\ enabled' = (enabled /\ c # Done)
            /\ VersionBumped
      BY <1>3 DEF SettleTarget
    <2>3. PICK c \in CursorAfter(target, d, coverage) :
            /\ cursor' = c
            /\ target' = TargetsAfter(target, d, coverage, c)
            /\ state' = IF c = Done THEN "completed" ELSE state
            /\ enabled' = (enabled /\ c # Done)
            /\ VersionBumped
      BY <2>2
    <2>4. c \in {Done} \cup Episodes /\ target' \in [Episodes -> TargetStatus]
      BY <2>1, <2>3, SubmitShape
    <2>5. UNCHANGED <<start, subLease, subOwner, spc, scanKey>>
      BY DEF SettleTarget
    <2> QED
      BY <2>3, <2>4, <2>5, VersionBumpedFresh DEF SubInv, Current
  <1> QED
    BY <1>1, <1>2, <1>3

LEMMA UnchangedSub == SubInv /\ UNCHANGED <<subVars, scanVars>> => SubInv'
  BY DEF SubInv, subVars, scanVars, FreshScanIsCurrent, Current

LEMMA UnchangedRow == RowInv /\ UNCHANGED rowVars => RowInv'
  BY DEF RowInv, rowVars, NoStrandedRow

LEMMA UnchangedWork == WorkInv /\ UNCHANGED workerVars => WorkInv'
  BY DEF WorkInv, workerVars

LEMMA UnchangedQb == QbInv /\ UNCHANGED <<booted, qbVars, unanswered>> => QbInv'
  BY DEF QbInv, qbVars

LEMMA UnchangedVerdict == VerdictInv /\ UNCHANGED <<status, verdict>> => VerdictInv'
  BY DEF VerdictInv, VerdictHeld

LEMMA UnchangedTorrent ==
  TorrentInv /\ UNCHANGED <<status, infohash, release, workerVars, qbVars>> => TorrentInv'
  BY DEF TorrentInv, workerVars, qbVars

(* The error of a worker touches only a row in work.                       *)
LEMMA ReleaseKeeps ==
  ASSUME IInv, NEW d \in Rows, NEW absent, ReleaseAfterError(d, absent), WorkerEnds(d),
         UNCHANGED <<verdict, qbVars>>
  PROVE  RowInv' /\ SubInv' /\ VerdictInv' /\ TorrentInv'
  <1>1. CASE Owned(d) /\ status[d] \in InWork
    <2>1. /\ status' = [status EXCEPT ![d] = StatusAfterError(d, absent)]
          /\ lease' = [lease EXCEPT ![d] = "none"]
          /\ \E D : ReopenTargets(D)
          /\ UNCHANGED <<attempts, infohash, release>>
      BY <1>1 DEF ReleaseAfterError
    <2>2. StatusAfterError(d, absent) \in {"reconciling", "failed", "retry_wait"}
      BY DEF StatusAfterError
    <2>3. RowInv'
      BY <2>1, <2>2 DEF IInv, RowInv, NoStrandedRow, RowStatus, LeaseState, InWork
    <2>4. VerdictInv'
      BY <1>1, <2>1 DEF IInv, VerdictInv, VerdictHeld, RowInv, InWork
    <2>5. StatusAfterError(d, absent) = "reconciling" => status[d] \in {"submitting", "reconciling"}
      BY DEF StatusAfterError
    <2>6. TorrentInv'
      BY <1>1, <2>1, <2>2, <2>5
         DEF IInv, RowInv, WorkInv, TorrentInv, WorkerEnds, InWork, qbVars
    <2> QED
      BY <2>1, <2>3, <2>4, <2>6, ReopenSub DEF IInv
  <1>2. CASE ~(Owned(d) /\ status[d] \in InWork)
    <2>1. UNCHANGED <<rowVars, subVars, scanVars>>
      BY <1>2 DEF ReleaseAfterError
    <2>2. TorrentInv'
      BY <2>1 DEF IInv, WorkInv, TorrentInv, WorkerEnds, rowVars, qbVars
    <2> QED
      BY <2>1, <2>2, UnchangedRow, UnchangedSub, UnchangedVerdict DEF IInv, rowVars
  <1> QED
    BY <1>1, <1>2

LEMMA RecoverKeeps ==
  ASSUME IInv, NEW D, D \subseteq {d \in Rows : status[d] \in InWork}, RecoverRows(D),
         UNCHANGED <<verdict, qbVars>>
  PROVE  RowInv' /\ WorkInv' /\ VerdictInv' /\ TorrentInv'
  <1>1. \A d \in Rows : RecoveredStatus(d) \in {"reconciling", "failed", "retry_wait"}
    BY DEF RecoveredStatus
  <1>2. RowInv'
    BY <1>1 DEF RecoverRows, IInv, RowInv, NoStrandedRow, RowStatus, LeaseState, InWork
  <1>3. WorkInv'
    BY DEF RecoverRows, IInv, WorkInv
  <1>4. VerdictInv'
    BY DEF RecoverRows, IInv, VerdictInv, VerdictHeld, InWork
  <1>5. \A d \in Rows : RecoveredStatus(d) = "reconciling" => status[d] \in {"submitting", "reconciling"}
    BY DEF RecoveredStatus
  <1>6. TorrentInv'
    BY <1>1, <1>5 DEF RecoverRows, IInv, TorrentInv, qbVars, InWork
  <1> QED
    BY <1>2, <1>3, <1>4, <1>6

LEMMA DropKeeps ==
  ASSUME IInv, NEW D, DropRows(D), UNCHANGED qbVars
  PROVE  /\ RowInv' /\ WorkInv' /\ VerdictInv' /\ TorrentInv'
         /\ unanswered' \subseteq Rows
  <1>1. RowInv'
    BY MaxAttemptsAssumption DEF DropRows, IInv, RowInv, NoStrandedRow, RowStatus, LeaseState, InWork
  <1>2. WorkInv' /\ unanswered' \subseteq Rows
    BY DEF DropRows, IInv, WorkInv, QbInv
  <1>3. VerdictInv'
    BY DEF DropRows, IInv, VerdictInv, VerdictHeld
  <1>4. TorrentInv'
    BY DEF DropRows, IInv, TorrentInv, qbVars
  <1> QED
    BY <1>1, <1>2, <1>3, <1>4

LEMMA EnqueueKeeps ==
  ASSUME IInv, NEW d \in Rows, NEW t \in Torrents, EnqueueRow(d, t), UNCHANGED qbVars
  PROVE  RowInv' /\ WorkInv' /\ VerdictInv' /\ TorrentInv'
  <1>1. RowInv'
    BY MaxAttemptsAssumption
       DEF EnqueueRow, IInv, RowInv, NoStrandedRow, RowStatus, LeaseState, InWork
  <1>2. WorkInv'
    BY DEF EnqueueRow, IInv, WorkInv
  <1>3. VerdictInv'
    BY DEF EnqueueRow, IInv, VerdictInv, VerdictHeld
  <1>4. TorrentInv'
    BY DEF EnqueueRow, IInv, RowInv, WorkInv, TorrentInv, qbVars
  <1> QED
    BY <1>1, <1>2, <1>3, <1>4

LEMMA InitIInv == Init => IInv
  <1> SUFFICES ASSUME Init PROVE IInv
    OBVIOUS
  <1>1. RowInv
    BY MaxAttemptsAssumption DEF Init, RowInv, NoStrandedRow, RowStatus, LeaseState
  <1>2. 1 \in Episodes
    BY LastEpisodeAssumption DEF Episodes
  <1>3. SubInv
    BY <1>2 DEF Init, SubInv, FreshScanIsCurrent, TargetStatus, LeaseState, ScanPc
  <1>4. WorkInv /\ QbInv /\ VerdictInv /\ TorrentInv
    BY DEF Init, WorkInv, QbInv, VerdictInv, VerdictHeld, TorrentInv, WorkerPc
  <1> QED
    BY <1>1, <1>3, <1>4 DEF IInv

(***************************************************************************)
(* Scans: they leave the worker, the qB and, but for an enqueued row, the  *)
(* rows alone.                                                             *)
(***************************************************************************)
LEMMA ScanSub ==
  ASSUME SubInv, NEW s \in Scanners, Scan(s)
  PROVE  SubInv'
  <1>1. Current \in {Done} \cup Episodes
    BY CurrentEpisode
  <1>2. CASE ClaimSubscription(s)
    BY <1>1, <1>2, MovieOneEpisode
       DEF ClaimSubscription, SubInv, FreshScanIsCurrent, Current, LeaseState, ScanPc
  <1>3. ASSUME NEW known \in 0 .. LastEpisode, NEW terminal \in BOOLEAN,
               ScanRefresh(s, known, terminal)
        PROVE  SubInv'
    <2>1. PlanTvTargets(start, known, terminal) \in
            [Episodes -> TargetStatus \ {"queued", "submitted"}]
      BY PlanShape, LastEpisodeAssumption DEF SubInv
    <2>2. target' \in [Episodes -> TargetStatus]
      BY <1>3, <2>1, SyncShape DEF ScanRefresh, SubInv
    <2> QED
      BY <1>3, <2>2 DEF ScanRefresh, ScanStays, SubInv, FreshScanIsCurrent, Current, ScanPc
  <1>4. CASE ScanDue(s)
    BY <1>4 DEF ScanDue, ScanStays, SubInv, subVars, FreshScanIsCurrent, Current, ScanPc
  <1>5. ASSUME NEW t \in Torrents, ScanEnqueue(s, t)
        PROVE  SubInv'
    BY <1>5
       DEF ScanEnqueue, ScanStays, SubInv, FreshScanIsCurrent, Current, ScanPc, TargetStatus
  <1>6. CASE ScanComplete(s)
    BY <1>6, VersionBumpedFresh DEF ScanComplete, ScanEnds, LeaseCleared, SubInv, ScanPc, LeaseState
  <1>7. CASE ScanFinish(s)
    BY <1>7, VersionBumpedFresh DEF ScanFinish, ScanEnds, LeaseCleared, SubInv, Current, ScanPc, LeaseState
  <1>8. CASE ScanFails(s)
    <2>1. CASE ReleasesLease(s)
      BY <1>8, <2>1, VersionBumpedFresh
         DEF ScanFails, ScanEnds, LeaseCleared, SubInv, Current, ScanPc, LeaseState
    <2>2. CASE ~ReleasesLease(s)
      BY <1>8, <2>2 DEF ScanFails, ScanEnds, SubInv, ScanPc, FreshScanIsCurrent, Current
    <2> QED
      BY <2>1, <2>2
  <1>9. CASE ScanDies(s)
    BY <1>9 DEF ScanDies, ScanEnds, SubInv, subVars, ScanPc, FreshScanIsCurrent, Current
  <1> QED
    BY <1>2, <1>3, <1>4, <1>5, <1>6, <1>7, <1>8, <1>9 DEF Scan

LEMMA ScanIInv ==
  ASSUME IInv, NEW s \in Scanners, Scan(s)
  PROVE  IInv'
  <1>1. SubInv'
    BY ScanSub DEF IInv
  <1>2. UNCHANGED <<booted, qbVars>>
    BY DEF Scan, ClaimSubscription, ScanRefresh, ScanDue, ScanEnqueue, ScanComplete, ScanFinish,
           ScanFails, ScanDies, ProcessUnchanged
  <1>3. CASE \E t \in Torrents : ScanEnqueue(s, t)
    <2>1. PICK t \in Torrents : ScanEnqueue(s, t)
      BY <1>3
    <2>2. Current \in Rows
      BY <2>1, OffersAssumption, RowSets DEF ScanEnqueue
    <2>3. EnqueueRow(Current, t) /\ UNCHANGED unanswered
      BY <2>1 DEF ScanEnqueue, EnqueueRow
    <2> QED
      BY <1>1, <1>2, <2>2, <2>3, EnqueueKeeps, UnchangedQb DEF IInv
  <1>4. CASE ~\E t \in Torrents : ScanEnqueue(s, t)
    <2>1. UNCHANGED <<rowVars, workerVars, verdict, unanswered>>
      BY <1>4
         DEF Scan, ClaimSubscription, ScanRefresh, ScanDue, ScanComplete, ScanFinish,
             ScanFails, ScanDies, RowsUnchanged
    <2> QED
      BY <1>1, <1>2, <2>1, UnchangedRow, UnchangedWork, UnchangedQb, UnchangedVerdict,
         UnchangedTorrent DEF IInv, rowVars
  <1> QED
    BY <1>3, <1>4

(***************************************************************************)
(* The download loop.                                                      *)
(***************************************************************************)
LEMMA ClaimDownloadsIInv ==
  ASSUME IInv, NEW D \in SUBSET Rows, ClaimDownloads(D)
  PROVE  IInv'
  <1>1. \A d \in D : status[d] \in {"queued", "retry_wait", "reconciling"}
    BY DEF ClaimDownloads, Claimable
  <1>2. \A d \in Rows : AttemptsClaimed(d) \in 0 .. MaxAttempts
    BY MaxAttemptsAssumption DEF AttemptsClaimed, IInv, RowInv
  <1>3. RowInv'
    BY <1>1, <1>2 DEF ClaimDownloads, IInv, RowInv, NoStrandedRow, RowStatus, LeaseState, InWork
  <1>4. WorkInv'
    BY DEF ClaimDownloads, IInv, RowInv, WorkInv, WorkerPc
  <1>5. VerdictInv'
    BY <1>1 DEF ClaimDownloads, IInv, VerdictInv, VerdictHeld
  <1>6. SubInv' /\ QbInv'
    BY UnchangedSub, UnchangedQb DEF ClaimDownloads, IInv
  <1>7. TorrentInv'
    BY <1>1 DEF ClaimDownloads, IInv, RowInv, WorkInv, TorrentInv, qbVars
  <1> QED
    BY <1>3, <1>4, <1>5, <1>6, <1>7 DEF IInv

(* Where the worker only goes on.                                          *)
LEMMA WorkerGoesIInv ==
  ASSUME IInv, NEW d \in Rows, NEW from, from # "idle", NEW to \in WorkerPc,
         WorkerGoes(d, from, to), UNCHANGED unanswered \/ Told(d),
         to \in {"seen", "confirmed"} => job[d] \in qb
  PROVE  IInv'
  <1>1. WorkInv'
    BY DEF WorkerGoes, IInv, WorkInv
  <1>2. QbInv'
    BY DEF WorkerGoes, Told, IInv, QbInv, qbVars
  <1>3. TorrentInv'
    BY DEF WorkerGoes, IInv, WorkInv, TorrentInv, rowVars, qbVars
  <1> QED
    BY <1>1, <1>2, <1>3, UnchangedRow, UnchangedSub, UnchangedVerdict DEF WorkerGoes, IInv, rowVars

LEMMA WorkerEndsWork == ASSUME WorkInv, NEW d \in Rows, WorkerEnds(d) PROVE WorkInv'
  BY DEF WorkInv, WorkerEnds, WorkerPc

LEMMA SettleIInv ==
  ASSUME IInv, NEW d \in Rows, MarkSubmitted(d) \/ MarkQbPresent(d)
  PROVE  IInv'
  <1>1. /\ WorkerEnds(d)
        /\ \E coverages : SettleTarget(d, coverages)
        /\ UNCHANGED <<attempts, release, booted, verdict, qbVars, unanswered>>
        /\ status[d] \in InWork
        /\ status' = [status EXCEPT ![d] = "submitted"]
        /\ lease' = [lease EXCEPT ![d] = "none"]
    BY DEF MarkSubmitted, MarkQbPresent, InWork
  <1>2. infohash' \in [Rows -> Torrents \cup {NoTorrent}]
    BY DEF MarkSubmitted, MarkQbPresent, IInv, RowInv, WorkInv
  <1>3. RowInv'
    BY <1>1, <1>2 DEF IInv, RowInv, NoStrandedRow, RowStatus, LeaseState, InWork
  <1>4. VerdictInv'
    BY <1>1 DEF IInv, RowInv, VerdictInv, VerdictHeld, InWork
  <1>5. \A o \in Rows \ {d} : infohash'[o] = infohash[o]
    BY DEF MarkSubmitted, MarkQbPresent, IInv, RowInv
  <1>6. TorrentInv'
    BY <1>1, <1>5 DEF IInv, RowInv, WorkInv, TorrentInv, WorkerEnds, InWork, qbVars
  <1> QED
    BY <1>1, <1>3, <1>4, <1>6, SettleSub, WorkerEndsWork, UnchangedQb DEF IInv

LEMMA SendIInv ==
  ASSUME IInv, NEW d \in Rows, SendTorrent(d) \/ SendRestored(d)
  PROVE  IInv'
  <1>1. WorkInv'
    BY DEF SendTorrent, SendRestored, IInv, WorkInv, WorkerPc
  <1>2. QbInv'
    BY DEF SendTorrent, SendRestored, IInv, QbInv, TorrentInv
  <1>3. TorrentInv'
    BY DEF SendTorrent, SendRestored, IInv, WorkInv, TorrentInv, rowVars
  <1> QED
    BY <1>1, <1>2, <1>3, UnchangedRow, UnchangedSub, UnchangedVerdict
       DEF SendTorrent, SendRestored, IInv, rowVars

LEMMA MarkSubmittingIInv ==
  ASSUME IInv, NEW d \in Rows, MarkSubmitting(d)
  PROVE  IInv'
  <1>1. RowInv'
    BY DEF MarkSubmitting, IInv, RowInv, TorrentInv, NoStrandedRow, RowStatus, LeaseState, InWork
  <1>2. WorkInv'
    BY DEF MarkSubmitting, IInv, WorkInv, WorkerPc
  <1>3. VerdictInv'
    BY DEF MarkSubmitting, IInv, RowInv, VerdictInv, VerdictHeld
  <1>4. TorrentInv'
    BY DEF MarkSubmitting, IInv, RowInv, WorkInv, TorrentInv, qbVars
  <1> QED
    BY <1>1, <1>2, <1>3, <1>4, UnchangedSub, UnchangedQb DEF MarkSubmitting, IInv

LEMMA RecordUnknownIInv ==
  ASSUME IInv, NEW d \in Rows, RecordUnknown(d)
  PROVE  IInv'
  <1>1. RowInv'
    BY DEF RecordUnknown, IInv, RowInv, NoStrandedRow, RowStatus, LeaseState, InWork
  <1>2. WorkInv'
    BY WorkerEndsWork DEF RecordUnknown, IInv
  <1>3. VerdictInv'
    BY DEF RecordUnknown, IInv, RowInv, VerdictInv, VerdictHeld
  <1>4. TorrentInv'
    BY DEF RecordUnknown, IInv, RowInv, WorkInv, TorrentInv, WorkerEnds, qbVars
  <1> QED
    BY <1>1, <1>2, <1>3, <1>4, UnchangedSub, UnchangedQb DEF RecordUnknown, IInv, scanVars

LEMMA WorkerErrorIInv ==
  ASSUME IInv, NEW d \in Rows, WorkerFails(d) \/ ReleaseAbsent(d)
  PROVE  IInv'
  <1>1. /\ WorkerEnds(d)
        /\ \E absent : ReleaseAfterError(d, absent)
        /\ UNCHANGED <<booted, verdict, qbVars, unanswered>>
    BY DEF WorkerFails, ReleaseAbsent
  <1> QED
    BY <1>1, ReleaseKeeps, WorkerEndsWork, UnchangedQb DEF IInv

LEMMA WorkerDiesIInv ==
  ASSUME IInv, NEW d \in Rows, WorkerDies(d)
  PROVE  IInv'
  <1>1. TorrentInv'
    BY DEF WorkerDies, WorkerEnds, IInv, WorkInv, TorrentInv, rowVars, qbVars
  <1> QED
    BY <1>1, WorkerEndsWork, UnchangedRow, UnchangedSub, UnchangedQb, UnchangedVerdict
       DEF WorkerDies, IInv, rowVars

LEMMA WorkerIInv ==
  ASSUME IInv, NEW d \in Rows, Worker(d)
  PROVE  IInv'
  <1>1. CASE \/ FetchedPresent(d) \/ FetchedAbsent(d)
             \/ ReconciledPresent(d) \/ ReconciledAbsent(d)
             \/ AnswerPresent(d) \/ AnswerAbsent(d) \/ AnswerUnknown(d)
             \/ RestoreSubmitted(d)
             \/ RestoredPresent(d) \/ RestoredAbsent(d) \/ RestoredUnknown(d)
    <2>1. PICK from, to \in WorkerPc :
            /\ from # "idle"
            /\ WorkerGoes(d, from, to)
            /\ UNCHANGED unanswered \/ Told(d)
            /\ to \in {"seen", "confirmed"} => job[d] \in qb
      BY <1>1
         DEF FetchedPresent, FetchedAbsent, ReconciledPresent, ReconciledAbsent, AnswerPresent,
             AnswerAbsent, AnswerUnknown, RestoreSubmitted, RestoredPresent, RestoredAbsent,
             RestoredUnknown, WorkerPc
    <2> QED
      BY <2>1, WorkerGoesIInv
  <1>2. CASE ~(\/ FetchedPresent(d) \/ FetchedAbsent(d)
               \/ ReconciledPresent(d) \/ ReconciledAbsent(d)
               \/ AnswerPresent(d) \/ AnswerAbsent(d) \/ AnswerUnknown(d)
               \/ RestoreSubmitted(d)
               \/ RestoredPresent(d) \/ RestoredAbsent(d) \/ RestoredUnknown(d))
    BY <1>2, MarkSubmittingIInv, SendIInv, SettleIInv, RecordUnknownIInv, WorkerErrorIInv,
       WorkerDiesIInv DEF Worker
  <1> QED
    BY <1>1, <1>2

(***************************************************************************)
(* Leases, crashes, recovery and qBittorrent.                              *)
(***************************************************************************)
LEMMA LeaseExpiresIInv ==
  ASSUME IInv, NEW d \in Rows, LeaseExpires(d)
  PROVE  IInv'
  <1>1. RowInv'
    BY DEF LeaseExpires, LeaseActive, IInv, RowInv, NoStrandedRow, LeaseState
  <1> QED
    BY <1>1, UnchangedSub, UnchangedWork, UnchangedQb, UnchangedVerdict, UnchangedTorrent
       DEF LeaseExpires, IInv

LEMMA SubscriptionLeaseExpiresIInv ==
  ASSUME IInv, SubscriptionLeaseExpires
  PROVE  IInv'
  <1>1. SubInv'
    BY DEF SubscriptionLeaseExpires, IInv, SubInv, LeaseState, scanVars, FreshScanIsCurrent, Current
  <1> QED
    BY <1>1, UnchangedRow, UnchangedWork, UnchangedQb, UnchangedVerdict, UnchangedTorrent
       DEF SubscriptionLeaseExpires, IInv, rowVars

LEMMA CrashIInv ==
  ASSUME IInv, Crash
  PROVE  IInv'
  <1>1. RowInv'
    BY DEF Crash, Orphaned, IInv, RowInv, NoStrandedRow, LeaseState
  <1>2. SubInv'
    BY DEF Crash, Orphaned, IInv, SubInv, LeaseState, FreshScanIsCurrent, Current, ScanPc
  <1>3. WorkInv' /\ QbInv' /\ VerdictInv' /\ TorrentInv'
    BY DEF Crash, IInv, WorkInv, QbInv, VerdictInv, VerdictHeld, TorrentInv, WorkerPc, qbVars
  <1> QED
    BY <1>1, <1>2, <1>3 DEF IInv

LEMMA RecoverIInv ==
  ASSUME IInv, Recover
  PROVE  IInv'
  <1>1. CASE RecoverOrphanSubscription
    <2>1. SubInv'
      BY <1>1 DEF RecoverOrphanSubscription, IInv, SubInv, LeaseState, FreshScanIsCurrent, Current
    <2> QED
      BY <1>1, <2>1, UnchangedRow, UnchangedWork, UnchangedQb, UnchangedVerdict,
         UnchangedTorrent DEF RecoverOrphanSubscription, IInv, rowVars
  <1>2. CASE RecoverOrphanDownloads
    BY <1>2, RecoverKeeps, ReopenSub, UnchangedQb DEF RecoverOrphanDownloads, IInv
  <1>3. CASE RecoverExpired
    <2> DEFINE expired == {d \in Rows : status[d] \in InWork /\ lease[d] = "stale"}
    <2>1. /\ RecoverRows(expired)
          /\ booted' = TRUE
          /\ UNCHANGED <<verdict, qbVars, unanswered>>
      BY <1>3 DEF RecoverExpired
    <2>2. RowInv' /\ WorkInv' /\ VerdictInv' /\ TorrentInv'
      BY <2>1, RecoverKeeps
    <2>3. QbInv'
      BY <2>1 DEF IInv, QbInv, qbVars
    <2>4. SubInv'
      <3>1. CASE subLease = "stale"
        BY <1>3, <3>1 DEF RecoverExpired, IInv, SubInv, LeaseState, TargetStatus, Current,
                FreshScanIsCurrent
      <3>2. CASE subLease # "stale"
        <4>1. ReopenTargets(Lost(expired))
          BY <1>3, <3>2 DEF RecoverExpired
        <4> QED
          BY <4>1, ReopenSub DEF IInv
      <3> QED
        BY <3>1, <3>2
    <2> QED
      BY <2>2, <2>3, <2>4 DEF IInv
  <1> QED
    BY <1>1, <1>2, <1>3 DEF Recover

LEMMA QbIInv ==
  ASSUME IInv, Qb
  PROVE  IInv'
  <1>1. QbUnchanged
    BY DEF Qb, Land, Refuse, RemoveTorrent
  <1>2. QbInv' /\ TorrentInv'
    BY DEF Qb, Land, Refuse, RemoveTorrent, QbUnchanged, IInv, QbInv, TorrentInv, rowVars, workerVars
  <1> QED
    BY <1>1, <1>2, UnchangedRow, UnchangedSub, UnchangedWork, UnchangedVerdict
       DEF QbUnchanged, IInv, rowVars

(***************************************************************************)
(* The web API.                                                            *)
(***************************************************************************)
LEMMA CreateSubscriptionIInv ==
  ASSUME IInv, NEW e \in Episodes, CreateSubscription(e)
  PROVE  IInv'
  <1>1. target' \in [Episodes -> TargetStatus]
    BY CreateShape DEF CreateSubscription
  <1>2. SubInv'
    BY <1>1, MovieOneEpisode DEF CreateSubscription, IInv, SubInv, scanVars, FreshScanIsCurrent, Current
  <1> QED
    BY <1>2, UnchangedRow, UnchangedWork, UnchangedQb, UnchangedVerdict, UnchangedTorrent
       DEF CreateSubscription, RowsUnchanged, ProcessUnchanged, IInv, rowVars

LEMMA DeleteSubscriptionIInv ==
  ASSUME IInv, DeleteSubscription
  PROVE  IInv'
  <1>1. 1 \in Episodes
    BY LastEpisodeAssumption DEF Episodes
  <1>2. SubInv'
    BY <1>1, VersionBumpedFresh DEF DeleteSubscription, LeaseCleared, IInv, SubInv, TargetStatus, LeaseState
  <1> QED
    BY <1>2, DropKeeps DEF DeleteSubscription, ProcessUnchanged, IInv, QbInv, qbVars

LEMMA UpdateSubscriptionIInv ==
  ASSUME IInv, NEW e \in Episodes, NEW reset \in BOOLEAN, NEW on \in BOOLEAN,
         UpdateSubscription(e, reset, on)
  PROVE  IInv'
  <1>1. target \in [Episodes -> TargetStatus]
    BY DEF IInv, SubInv
  <1>2. target' \in [Episodes -> TargetStatus]
    <2>1. CASE reset
      <3>1. PICK r \in ResetTargets(target, e) : target' = PlaceCursor(r, e)
        BY <2>1 DEF UpdateSubscription
      <3>2. r \in [Episodes -> TargetStatus]
        BY <1>1, PlaceShape
      <3> QED
        BY <3>1, <3>2, PlaceShape
    <2>2. CASE ~reset
      BY <1>1, <2>2, PlaceShape DEF UpdateSubscription
    <2> QED
      BY <2>1, <2>2
  <1>3. SubInv'
    BY <1>2, VersionBumpedFresh, MovieOneEpisode
       DEF UpdateSubscription, LeaseCleared, IInv, SubInv, LeaseState, Current
  <1>4. UNCHANGED <<booted, qbVars>>
    BY DEF UpdateSubscription, ProcessUnchanged
  <1>5. CASE reset
    BY <1>3, <1>4, <1>5, DropKeeps DEF UpdateSubscription, IInv, QbInv, qbVars
  <1>6. CASE ~reset
    BY <1>3, <1>4, <1>6, UnchangedRow, UnchangedWork, UnchangedQb, UnchangedVerdict,
       UnchangedTorrent DEF UpdateSubscription, RowsUnchanged, IInv, rowVars
  <1> QED
    BY <1>5, <1>6

LEMMA SetEnabledIInv ==
  ASSUME IInv, NEW on \in BOOLEAN, SetEnabled(on)
  PROVE  IInv'
  <1>1. SubInv'
    BY VersionBumpedFresh DEF SetEnabled, LeaseCleared, IInv, SubInv, Current, LeaseState
  <1> QED
    BY <1>1, UnchangedRow, UnchangedWork, UnchangedQb, UnchangedVerdict, UnchangedTorrent
       DEF SetEnabled, RowsUnchanged, ProcessUnchanged, IInv, rowVars

LEMMA QueueIInv ==
  ASSUME IInv, \/ \E t \in Torrents : QueueLinked(t)
               \/ \E m \in Manual : QueueManual(m)
  PROVE  IInv'
  <1>1. CASE \E t \in Torrents : QueueLinked(t)
    <2>1. PICK t \in Torrents : QueueLinked(t)
      BY <1>1
    <2>2. Current \in Rows
      BY <2>1, RowSets DEF QueueLinked, IInv, SubInv
    <2>3. EnqueueRow(Current, t) /\ UNCHANGED <<unanswered, booted, qbVars>>
      BY <2>1 DEF QueueLinked, EnqueueRow, ProcessUnchanged
    <2>4. SubInv'
      BY <2>1, VersionBumpedFresh DEF QueueLinked, IInv, SubInv, Current, TargetStatus
    <2> QED
      BY <2>2, <2>3, <2>4, EnqueueKeeps, UnchangedQb DEF IInv
  <1>2. CASE \E m \in Manual : QueueManual(m)
    <2>1. PICK m \in Manual : QueueManual(m)
      BY <1>2
    <2>2. /\ m \in Rows /\ m \in Torrents
          /\ EnqueueRow(m, m)
          /\ UNCHANGED <<subVars, scanVars, unanswered, booted, qbVars>>
      BY <2>1, RowSets DEF QueueManual, EnqueueRow, ProcessUnchanged
    <2> QED
      BY <2>2, EnqueueKeeps, UnchangedSub, UnchangedQb DEF IInv
  <1> QED
    BY <1>1, <1>2

LEMMA AskQbIInv ==
  ASSUME IInv, NEW d \in Rows, AskQb(d) \/ RequestDropped(d)
  PROVE  IInv'
  <1>1. VerdictInv'
    BY DEF AskQb, RequestDropped, IInv, VerdictInv, VerdictHeld, rowVars
  <1>2. QbInv'
    BY DEF AskQb, RequestDropped, ProcessUnchanged, IInv, QbInv, qbVars
  <1> QED
    BY <1>1, <1>2, UnchangedRow, UnchangedSub, UnchangedWork, UnchangedTorrent
       DEF AskQb, RequestDropped, ProcessUnchanged, IInv, rowVars

LEMMA RequeueMissingIInv ==
  ASSUME IInv, NEW m \in Manual, RequeueMissing(m)
  PROVE  IInv'
  <1>1. m \in Rows /\ status[m] = "submitted"
    BY RowSets DEF RequeueMissing, IInv, VerdictInv, VerdictHeld
  <1>2. RowInv'
    BY <1>1, MaxAttemptsAssumption
       DEF RequeueMissing, IInv, RowInv, NoStrandedRow, RowStatus, InWork
  <1>3. WorkInv' /\ VerdictInv'
    BY <1>1 DEF RequeueMissing, RequestEnds, IInv, WorkInv, VerdictInv, VerdictHeld
  <1>4. TorrentInv'
    BY <1>1
       DEF RequeueMissing, RequestEnds, ProcessUnchanged, IInv, RowInv, WorkInv, TorrentInv, qbVars
  <1> QED
    BY <1>2, <1>3, <1>4, UnchangedSub, UnchangedQb
       DEF RequeueMissing, RequestEnds, ProcessUnchanged, IInv

LEMMA ResolveIInv ==
  ASSUME IInv, NEW d \in Rows, ResolvePresent(d) \/ ResolveAbsent(d)
  PROVE  IInv'
  <1>1. status[d] = "failed" /\ RequestEnds(d) /\ ProcessUnchanged
    BY DEF ResolvePresent, ResolveAbsent, Resolvable
  <1>2. WorkInv'
    BY <1>1 DEF RequestEnds, IInv, WorkInv
  <1>3. QbInv'
    BY <1>1, UnchangedQb DEF RequestEnds, ProcessUnchanged, IInv
  <1>4. CASE ResolvePresent(d)
    <2>1. RowInv'
      BY <1>1, <1>4 DEF ResolvePresent, IInv, RowInv, NoStrandedRow, RowStatus, InWork
    <2>2. VerdictInv'
      BY <1>4 DEF ResolvePresent, RequestEnds, IInv, RowInv, VerdictInv, VerdictHeld
    <2>3. TorrentInv'
      BY <1>1, <1>4
         DEF ResolvePresent, RequestEnds, ProcessUnchanged, IInv, RowInv, WorkInv, TorrentInv, qbVars
    <2> QED
      BY <1>2, <1>3, <1>4, <2>1, <2>2, <2>3, SettleSub DEF ResolvePresent, IInv
  <1>5. CASE ResolveAbsent(d)
    <2>1. VerdictInv'
      BY <1>5 DEF ResolveAbsent, RequestEnds, IInv, VerdictInv, VerdictHeld, rowVars
    <2>2. TorrentInv'
      BY <1>1, <1>5
         DEF ResolveAbsent, RequestEnds, ProcessUnchanged, IInv, WorkInv, TorrentInv, rowVars, qbVars
    <2> QED
      BY <1>2, <1>3, <1>5, <2>1, <2>2, ReopenSub, UnchangedRow DEF ResolveAbsent, IInv
  <1> QED
    BY <1>4, <1>5

LEMMA DeleteRecordIInv ==
  ASSUME IInv, NEW d \in Rows, DeleteRecord(d)
  PROVE  IInv'
  <1>1. DropRows({d}) /\ UNCHANGED <<booted, qbVars>>
    BY DEF DeleteRecord, ProcessUnchanged
  <1>2. SubInv'
    <2>1. CASE d \in Episodes /\ target[d] = "submitted"
      BY <2>1, VersionBumpedFresh, MovieOneEpisode
         DEF DeleteRecord, LeaseCleared, FreshStatus, IInv, SubInv, LeaseState, TargetStatus,
             Current
    <2>2. CASE ~(d \in Episodes /\ target[d] = "submitted")
      BY <2>2, UnchangedSub DEF DeleteRecord, IInv
    <2> QED
      BY <2>1, <2>2
  <1> QED
    BY <1>1, <1>2, DropKeeps DEF IInv, QbInv, qbVars

(***************************************************************************)
(* Every step keeps the invariant.                                         *)
(***************************************************************************)
LEMMA NextIInv == IInv /\ [Next]_vars => IInv'
  <1> SUFFICES ASSUME IInv, [Next]_vars PROVE IInv'
    OBVIOUS
  <1>1. CASE UserEditsSubscription
    BY <1>1, CreateSubscriptionIInv, DeleteSubscriptionIInv, UpdateSubscriptionIInv,
       SetEnabledIInv DEF UserEditsSubscription
  <1>2. CASE UserEditsDownloads
    BY <1>2, QueueIInv, AskQbIInv, RequeueMissingIInv, ResolveIInv, DeleteRecordIInv
       DEF UserEditsDownloads
  <1>3. CASE UNCHANGED vars
    BY <1>3, UnchangedRow, UnchangedSub, UnchangedWork, UnchangedQb, UnchangedVerdict,
       UnchangedTorrent DEF vars, rowVars, IInv
  <1> QED
    BY <1>1, <1>2, <1>3, ScanIInv, ClaimDownloadsIInv, WorkerIInv, LeaseExpiresIInv,
       SubscriptionLeaseExpiresIInv, CrashIInv, RecoverIInv, QbIInv DEF Next

LEMMA AlwaysIInv == Spec => []IInv
  BY InitIInv, NextIInv, PTL DEF Spec

(***************************************************************************)
(* The theorems.                                                           *)
(***************************************************************************)
(* Rows, subscription, scans, workers and requests keep their types; in    *)
(* particular the attempts of a row never exceed their limit.              *)
THEOREM SpecTypeOK == Spec => []TypeOK
  <1>1. IInv => TypeOK
    BY DEF IInv, RowInv, SubInv, WorkInv, QbInv, VerdictInv, TypeOK
  <1> QED
    BY <1>1, AlwaysIInv, PTL

(* A row in a status the claim query never takes keeps a lease, so that    *)
(* lease recovery finds it; and only such rows have one.                   *)
THEOREM SpecNoStrandedRow == Spec => []NoStrandedRow
  <1>1. IInv => NoStrandedRow
    BY DEF IInv, RowInv
  <1> QED
    BY <1>1, AlwaysIInv, PTL

(* The version of a subscription fences its scans: a scan whose copy is    *)
(* current works on the target the cursor names, for any number of scans.  *)
THEOREM SpecFreshScanIsCurrent == Spec => []FreshScanIsCurrent
  <1>1. IInv => FreshScanIsCurrent
    BY DEF IInv, SubInv
  <1> QED
    BY <1>1, AlwaysIInv, PTL

(* While one scan holds the lease, another one, or the error handling of   *)
(* one that lost it, changes nothing the holder relies on.                 *)
THEOREM SpecStaleScanIsHarmless == Spec => StaleScanIsHarmless
  <1>1. ASSUME IInv, [Next]_vars, NEW s \in Scanners, NEW r \in Scanners, s # r,
               Fenced(r), spc'[s] # spc[s], spc'[r] = spc[r]
        PROVE  UNCHANGED <<status, state, cursor, target, subLease, subOwner>>
    <2>1. /\ spc \in [Scanners -> ScanPc]
          /\ spc[r] # "idle" /\ subOwner = r /\ subLease = "live"
      BY <1>1 DEF Fenced, IInv, SubInv, FreshScanIsCurrent
    <2>2. PICK q \in Scanners : Scan(q)
      <3>1. spc' # spc
        BY <1>1
      <3>2. ~Crash
        BY <1>1, <2>1 DEF Crash
      <3>3. \E q \in Scanners : Scan(q)
        BY <1>1, <3>1, <3>2
           DEF Next, ClaimDownloads, LeaseExpires, SubscriptionLeaseExpires, vars, scanVars,
               Worker, WorkerGoes, FetchedPresent, FetchedAbsent, ReconciledPresent,
               ReconciledAbsent, MarkSubmitting, SendTorrent, AnswerPresent, AnswerAbsent,
               AnswerUnknown, RestoreSubmitted, SendRestored, RestoredPresent, RestoredAbsent,
               RestoredUnknown, MarkSubmitted, MarkQbPresent, SettleTarget, RecordUnknown,
               ReleaseAbsent, ReleaseAfterError, ReopenTargets, WorkerFails, WorkerDies,
               Recover, RecoverOrphanSubscription, RecoverOrphanDownloads, RecoverExpired,
               Qb, Land, Refuse, RemoveTorrent, QbUnchanged, UserEditsSubscription,
               CreateSubscription, UpdateSubscription, SetEnabled, DeleteSubscription,
               UserEditsDownloads, QueueLinked, QueueManual, RequeueMissing, AskQb,
               ResolvePresent, ResolveAbsent, RequestDropped, DeleteRecord
      <3> QED
        BY <3>3
    <2>3. q = s
      BY <1>1, <2>1, <2>2
         DEF Scan, ClaimSubscription, ScanRefresh, ScanDue, ScanEnqueue, ScanComplete,
             ScanFinish, ScanFails, ScanDies, ScanStays, ScanEnds
    <2>4. ~Fenced(s) /\ ~ReleasesLease(s)
      BY <1>1, <2>1 DEF Fenced, ReleasesLease
    <2>5. ScanDue(s) \/ ScanFails(s) \/ ScanDies(s)
      BY <2>1, <2>2, <2>3, <2>4
         DEF Scan, ClaimSubscription, LeaseActive, ScanRefresh, ScanEnqueue, ScanComplete,
             ScanFinish
    <2> QED
      BY <2>4, <2>5 DEF ScanDue, ScanFails, ScanDies, subVars, RowsUnchanged, rowVars
  <1>2. IInv /\ [Next]_vars =>
          [\A s, r \in Scanners :
             s # r /\ Fenced(r) /\ spc'[s] # spc[s] /\ spc'[r] = spc[r] =>
               UNCHANGED <<status, state, cursor, target, subLease, subOwner>>]_vars
    BY <1>1
  <1> QED
    BY <1>2, AlwaysIInv, PTL DEF Spec, StaleScanIsHarmless
=============================================================================
