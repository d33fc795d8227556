----------------------- MODULE MediaRefinementProofs ------------------------
(***************************************************************************)
(* The pipeline implements MediaCursor, for all values of the constants,   *)
(* and inherits its invariants.  With them: what the pipeline says of a    *)
(* torrent is what qBittorrent did with it, and no queued target is lost.  *)
(***************************************************************************)
EXTENDS MediaPipelineProofs

(* MediaCursor with its invariants; Cursor of MediaPipeline is the same    *)
(* specification without them.                                             *)
C == INSTANCE MediaCursorProofs WITH work <- WorkOf

LEMMA SameEpisodes ==
  /\ C!Episodes = Episodes /\ Cursor!Episodes = Episodes
  /\ Offers \in [Torrents -> SUBSET C!Episodes]
  BY OffersAssumption DEF Episodes, C!Episodes, Cursor!Episodes

LEMMA CursorInitIInv == C!Init => C!IInv
  BY C!InitIInv, SameEpisodes, MovieAssumption, LastEpisodeAssumption

LEMMA CursorNextIInv == C!IInv /\ [C!Next]_C!cursorVars => C!IInv'
  BY C!NextIInv, SameEpisodes, MovieAssumption, LastEpisodeAssumption

(* The instances evaluate the functions of MediaTargets as the pipeline.   *)
LEMMA SamePlans ==
  /\ \A e : C!CreatePlans(e) = CreatePlans(e) /\ Cursor!CreatePlans(e) = CreatePlans(e)
  /\ \A e, k, t : /\ C!PlanAccepted(e, k, t) = PlanAccepted(e, k, t)
                  /\ Cursor!PlanAccepted(e, k, t) = PlanAccepted(e, k, t)
                  /\ C!PlanTvTargets(e, k, t) = PlanTvTargets(e, k, t)
                  /\ Cursor!PlanTvTargets(e, k, t) = PlanTvTargets(e, k, t)
  /\ \A tgt, plan : /\ C!SyncTargets(tgt, plan) = SyncTargets(tgt, plan)
                    /\ Cursor!SyncTargets(tgt, plan) = SyncTargets(tgt, plan)
  BY SameEpisodes
     DEF CreatePlans, PlanAccepted, PlanTvTargets, SyncTargets,
         C!CreatePlans, C!PlanAccepted, C!PlanTvTargets, C!SyncTargets,
         Cursor!CreatePlans, Cursor!PlanAccepted, Cursor!PlanTvTargets, Cursor!SyncTargets

LEMMA SameSubmissions ==
  /\ \A tgt, e, c : /\ C!CursorAfter(tgt, e, c) = CursorAfter(tgt, e, c)
                    /\ Cursor!CursorAfter(tgt, e, c) = CursorAfter(tgt, e, c)
  /\ \A tgt, e, c, n : /\ C!TargetsAfter(tgt, e, c, n) = TargetsAfter(tgt, e, c, n)
                       /\ Cursor!TargetsAfter(tgt, e, c, n) = TargetsAfter(tgt, e, c, n)
  /\ \A t : C!Coverages(t) = Coverages(t) /\ Cursor!Coverages(t) = Coverages(t)
  /\ C!Done = Done /\ Cursor!Done = Done
  BY SameEpisodes
     DEF CursorAfter, TargetsAfter, AfterSubmit, OpenAfter, UncoveredAfter, Covered, OpenStatus,
         Least, Done, Coverages, NoCoverage, Announced,
         C!CursorAfter, C!TargetsAfter, C!AfterSubmit, C!OpenAfter, C!UncoveredAfter, C!Covered,
         C!OpenStatus, C!Least, C!Done, C!Coverages, C!NoCoverage, C!Announced,
         Cursor!CursorAfter, Cursor!TargetsAfter, Cursor!AfterSubmit, Cursor!OpenAfter,
         Cursor!UncoveredAfter, Cursor!Covered, Cursor!OpenStatus, Cursor!Least, Cursor!Done,
         Cursor!Coverages, Cursor!NoCoverage, Cursor!Announced

LEMMA SameEdits ==
  /\ \A tgt, e : /\ C!ResetTargets(tgt, e) = ResetTargets(tgt, e)
                 /\ Cursor!ResetTargets(tgt, e) = ResetTargets(tgt, e)
                 /\ C!PlaceCursor(tgt, e) = PlaceCursor(tgt, e)
                 /\ Cursor!PlaceCursor(tgt, e) = PlaceCursor(tgt, e)
  /\ C!FreshStatus = FreshStatus /\ Cursor!FreshStatus = FreshStatus
  /\ C!Current = Current /\ Cursor!Current = Current
  /\ \A e : C!CursorMovable(e) = CursorMovable(e) /\ Cursor!CursorMovable(e) = CursorMovable(e)
  BY SameEpisodes
     DEF ResetTargets, PlaceCursor, FreshStatus, Current, CursorMovable,
         C!ResetTargets, C!PlaceCursor, C!FreshStatus, C!Current, C!CursorMovable,
         Cursor!ResetTargets, Cursor!PlaceCursor, Cursor!FreshStatus, Cursor!Current,
         Cursor!CursorMovable

LEMMA SameInit == C!Init => Cursor!Init
  BY SameEpisodes, SameSubmissions DEF C!Init, Cursor!Init

LEMMA SameNext == [C!Next]_C!cursorVars => [Cursor!Next]_Cursor!cursorVars
  <1>1. \A e \in Episodes :
          /\ C!Create(e) => Cursor!Create(e)
          /\ C!Enqueue(e) => Cursor!Enqueue(e)
          /\ C!Reopen(e) => Cursor!Reopen(e)
          /\ C!GiveUp(e) => Cursor!GiveUp(e)
    BY SamePlans, SameEdits
       DEF C!Create, Cursor!Create, C!Enqueue, Cursor!Enqueue, C!Reopen, Cursor!Reopen,
           C!GiveUp, Cursor!GiveUp
  <1>2. (C!Delete => Cursor!Delete) /\ (C!Complete => Cursor!Complete)
    BY SameEpisodes, SameSubmissions DEF C!Delete, Cursor!Delete, C!Complete, Cursor!Complete
  <1>3. \A e \in Episodes : \A coverage : C!Submit(e, coverage) => Cursor!Submit(e, coverage)
    BY SameSubmissions, SameEdits DEF C!Submit, Cursor!Submit
  <1>4. \A known, terminal : C!Refresh(known, terminal) => Cursor!Refresh(known, terminal)
    BY SamePlans DEF C!Refresh, Cursor!Refresh
  <1>5. \A e \in Episodes, reset \in BOOLEAN : C!MoveCursor(e, reset) => Cursor!MoveCursor(e, reset)
    BY SameEdits, SameEpisodes DEF C!MoveCursor, Cursor!MoveCursor
  <1>6. \A e \in Episodes : C!DeleteRecord(e) => Cursor!DeleteRecord(e)
    BY SameEdits, SameEpisodes DEF C!DeleteRecord, Cursor!DeleteRecord
  <1> QED
    BY <1>1, <1>2, <1>3, <1>4, <1>5, <1>6, SameEpisodes, SameSubmissions
       DEF C!Next, Cursor!Next, C!cursorVars, Cursor!cursorVars

LEMMA InitRefines == Init => C!Init
  BY SameEpisodes, RowSets DEF Init, C!Init, WorkOf, Rows, ActiveStatus, C!Done, Done

(***************************************************************************)
(* What a step does to the state that MediaCursor sees.                    *)
(***************************************************************************)
Stutter == UNCHANGED <<state, cursor, start, target, WorkOf>>

Refines == [C!Next]_C!cursorVars

(* A row of an episode looks the same to MediaCursor.                      *)
LooksSame(e) ==
  /\ status'[e] = status[e] \/ {status[e], status'[e]} \subseteq ActiveStatus
  /\ target'[e] = "queued" <=> target[e] = "queued"

LEMMA StutterRefines == Stutter => Refines
  BY DEF Stutter, Refines, C!cursorVars

LEMMA SameWork == (\A e \in Episodes : LooksSame(e)) => WorkOf' = WorkOf
  BY DEF WorkOf, LooksSame, ActiveStatus

LEMMA WorkAt ==
  ASSUME NEW d \in Episodes, \A e \in Episodes \ {d} : LooksSame(e)
  PROVE  WorkOf' = [WorkOf EXCEPT ![d] = WorkOf'[d]]
  BY DEF WorkOf, LooksSame, ActiveStatus

LEMMA UnchangedStutter ==
  UNCHANGED <<state, cursor, start, target, status>> => Stutter
  BY DEF Stutter, WorkOf

(* Rows in work go on, or a row of no subscription changes.                *)
LEMMA ActiveStutter ==
  ASSUME UNCHANGED <<state, cursor, start, target>>,
         \A e \in Episodes :
           status'[e] = status[e] \/ {status[e], status'[e]} \subseteq ActiveStatus
  PROVE  Stutter
  BY SameWork DEF Stutter, LooksSame

LEMMA WorkValue ==
  ASSUME NEW e \in Episodes
  PROVE  /\ WorkOf[e] = IF status[e] \in ActiveStatus THEN "active"
                        ELSE IF status[e] = "failed"
                          THEN IF target[e] = "queued" THEN "unresolved" ELSE "failed"
                        ELSE status[e]
         /\ WorkOf'[e] = IF status'[e] \in ActiveStatus THEN "active"
                         ELSE IF status'[e] = "failed"
                           THEN IF target'[e] = "queued" THEN "unresolved" ELSE "failed"
                         ELSE status'[e]
  BY DEF WorkOf

(* The invariants of MediaCursor, said of the rows.                        *)
LEMMA Coupled ==
  ASSUME IInv, C!IInv, NEW e \in Episodes
  PROVE  /\ status[e] \in RowStatus
         /\ e \in Rows /\ e \notin Manual
         /\ status[e] \in ActiveStatus => state = "active" /\ e = Current /\ target[e] = "queued"
         /\ target[e] = "queued" => status[e] \in ActiveStatus \cup {"failed"}
         /\ status[e] = "submitted" => target[e] = "submitted"
  <1>1. e \in Rows /\ e \notin Manual /\ status[e] \in RowStatus
    BY ManualAssumption DEF Rows, IInv, RowInv
  <1>2. /\ WorkOf[e] = "active" => state = "active" /\ e = Current
        /\ target[e] = "queued" <=> WorkOf[e] \in {"active", "unresolved"}
        /\ WorkOf[e] = "submitted" => target[e] = "submitted"
    BY SameEpisodes, SameEdits
       DEF C!IInv, C!ActiveIsCurrent, C!QueuedHasWork, C!SubmittedRowSubmittedTarget
  <1> QED
    BY <1>1, <1>2, WorkValue DEF ActiveStatus, RowStatus

(***************************************************************************)
(* Shared transactions.                                                    *)
(***************************************************************************)

(* A row is given up: its target is reopened, or it stays unresolved.      *)
LEMMA GiveUpRefines ==
  ASSUME IInv, C!IInv, NEW D, D \subseteq {d \in Rows : status[d] \in ActiveStatus},
         NEW lost, lost \subseteq D,
         \A d \in Rows \ D : status'[d] = status[d],
         \A d \in D : status'[d] \in ActiveStatus \cup {"failed"},
         \A d \in lost : status'[d] = "failed",
         UNCHANGED <<state, cursor, start>>,
         target' = [e \in Episodes |-> IF e \in Reopened(lost) THEN "pending" ELSE target[e]]
  PROVE  Refines
  <1>1. \A e \in Episodes : e # Current => LooksSame(e) /\ target'[e] = target[e]
    BY Coupled DEF LooksSame, Reopened
  <1>2. target \in [Episodes -> TargetStatus]
    BY DEF IInv, SubInv
  <1>3. CASE Current \in D \cap Episodes /\ status'[Current] = "failed"
    <2>1. /\ state = "active" /\ target[Current] = "queued" /\ status[Current] \in ActiveStatus
          /\ WorkOf[Current] = "active"
      BY <1>3, Coupled, WorkValue
    <2>2. WorkOf' = [WorkOf EXCEPT ![Current] = WorkOf'[Current]]
      BY <1>1, <1>3, WorkAt
    <2>3. CASE Current \in lost
      <3>1. Reopened(lost) = {Current}
        BY <1>3, <2>1, <2>3 DEF Reopened
      <3>2. target' = [target EXCEPT ![Current] = "pending"]
        BY <1>2, <1>3, <3>1
      <3>3. WorkOf'[Current] = "failed"
        BY <1>2, <1>3, <3>2, WorkValue DEF ActiveStatus
      <3>4. C!Reopen(Current)
        BY <2>1, <2>2, <3>2, <3>3, SameEdits DEF C!Reopen
      <3> QED
        BY <1>3, <3>4, SameEpisodes DEF Refines, C!Next
    <2>4. CASE Current \notin lost
      <3>1. Reopened(lost) = {}
        BY <2>4 DEF Reopened
      <3>2. target' = target
        BY <1>2, <3>1
      <3>3. WorkOf'[Current] = "unresolved"
        BY <1>3, <2>1, <3>2, WorkValue DEF ActiveStatus
      <3>4. C!GiveUp(Current)
        BY <2>1, <2>2, <3>2, <3>3 DEF C!GiveUp
      <3> QED
        BY <1>3, <3>4, SameEpisodes DEF Refines, C!Next
    <2> QED
      BY <2>3, <2>4
  <1>4. CASE ~(Current \in D \cap Episodes /\ status'[Current] = "failed")
    <2>1. Reopened(lost) = {}
      BY <1>4 DEF Reopened
    <2>2. target' = target
      BY <1>2, <2>1
    <2>3. \A e \in Episodes : LooksSame(e)
      BY <1>1, <1>4, <2>2 DEF LooksSame, Rows
    <2> QED
      BY <2>2, <2>3, SameWork, StutterRefines DEF Stutter
  <1> QED
    BY <1>3, <1>4

LEMMA SettleRefines ==
  ASSUME IInv, C!IInv, NEW d \in Rows, NEW t \in Torrents,
         NEW coverages, coverages \subseteq Coverages(t),
         status[d] \in ActiveStatus \/ (d \in Episodes /\ Resolvable(d)),
         status' = [status EXCEPT ![d] = "submitted"],
         SettleTarget(d, coverages)
  PROVE  Refines
  <1>1. status \in [Rows -> RowStatus]
    BY DEF IInv, RowInv
  <1>2. start' = start
    BY DEF SettleTarget
  <1>3. CASE d \in Manual
    <2>1. \A e \in Episodes : status'[e] = status[e]
      BY <1>1, <1>3, Coupled
    <2> QED
      BY <1>3, <2>1, ActiveStutter, StutterRefines DEF SettleTarget
  <1>4. CASE d \notin Manual
    <2>1. d \in Episodes
      BY <1>4 DEF Rows
    <2>2. d = Current /\ state = "active" /\ WorkOf[d] \in {"active", "unresolved"}
      BY <2>1, Coupled, WorkValue DEF Resolvable, ActiveStatus
    <2>3. PICK coverage \in coverages : \E c \in CursorAfter(target, d, coverage) :
            /\ cursor' = c
            /\ target' = TargetsAfter(target, d, coverage, c)
            /\ state' = IF c = Done THEN "completed" ELSE state
      BY <1>4, <2>2 DEF SettleTarget
    <2>4. WorkOf' = [WorkOf EXCEPT ![d] = "submitted"]
      <3>1. \A e \in Episodes \ {d} : target'[e] = "queued" <=> target[e] = "queued"
        <4>1. PICK c \in CursorAfter(target, d, coverage) :
                target' = TargetsAfter(target, d, coverage, c)
          BY <2>3
        <4>2. \A n \in Episodes :
                target'[n] = IF n = d \/ n \in Covered(target, d, coverage) THEN "submitted"
                             ELSE IF n = c /\ target[n] = "none" THEN "metadata_pending"
                             ELSE target[n]
          BY <2>1, <4>1, SubmitShape DEF IInv, SubInv
        <4>3. \A n \in Covered(target, d, coverage) : target[n] # "queued"
          <5> SUFFICES ASSUME NEW n \in Covered(target, d, coverage) PROVE target[n] # "queued"
            OBVIOUS
          <5>1. n \in (d + 1) .. n
            BY <2>1, LastEpisodeNumber DEF Covered
          <5> QED
            BY <5>1 DEF Covered
        <4> QED
          BY <4>2, <4>3
      <3>2. \A e \in Episodes \ {d} : LooksSame(e)
        BY <1>1, <2>1, <3>1 DEF LooksSame
      <3>3. WorkOf'[d] = "submitted"
        BY <1>1, <2>1, WorkValue DEF ActiveStatus
      <3> QED
        BY <2>1, <3>2, <3>3, WorkAt
    <2>5. C!Submit(d, coverage)
      BY <1>2, <2>2, <2>3, <2>4, SameSubmissions, SameEdits DEF C!Submit
    <2>6. C!Next
      BY <2>1, <2>3, <2>5, SameEpisodes, SameSubmissions DEF C!Next
    <2> QED
      BY <2>6 DEF Refines
  <1> QED
    BY <1>3, <1>4

LEMMA EnqueueRefines ==
  ASSUME IInv, C!IInv, NEW t,
         state = "active", target[Current] = "pending",
         EnqueueRow(Current, t),
         target' = [target EXCEPT ![Current] = "queued"],
         UNCHANGED <<state, cursor, start>>
  PROVE  Refines
  <1>1. /\ Current \in Episodes
        /\ target \in [Episodes -> TargetStatus]
        /\ status \in [Rows -> RowStatus]
        /\ Current \in Rows
    BY RowSets DEF IInv, SubInv, RowInv
  <1>2. status[Current] \in {"none", "failed"}
    BY <1>1, Coupled DEF EnqueueRow, ActiveStatus
  <1>3. WorkOf[Current] \in {"none", "failed"}
    BY <1>1, <1>2, WorkValue DEF ActiveStatus
  <1>4. status' = [status EXCEPT ![Current] = "queued"]
    BY DEF EnqueueRow
  <1>5. \A e \in Episodes \ {Current} : LooksSame(e)
    BY <1>1, <1>4 DEF LooksSame
  <1>6. WorkOf'[Current] = "active"
    BY <1>1, <1>4, WorkValue DEF ActiveStatus
  <1>7. WorkOf' = [WorkOf EXCEPT ![Current] = "active"]
    BY <1>1, <1>5, <1>6, WorkAt
  <1>8. C!Enqueue(Current)
    BY <1>3, <1>7, SameEdits DEF C!Enqueue
  <1> QED
    BY <1>1, <1>8, SameEpisodes DEF Refines, C!Next

(***************************************************************************)
(* One lemma per group of actions.                                         *)
(***************************************************************************)
LEMMA ScanRefines ==
  ASSUME IInv, C!IInv, NEW s \in Scanners, Scan(s)
  PROVE  Refines
  <1>1. Fenced(s) => state = "active" /\ scanKey[s] = Current
    BY DEF Fenced, IInv, SubInv, FreshScanIsCurrent
  <1>2. CASE ClaimSubscription(s) \/ ScanDue(s) \/ ScanFinish(s) \/ ScanFails(s) \/ ScanDies(s)
    BY <1>2, UnchangedStutter, StutterRefines
       DEF ClaimSubscription, ScanDue, ScanFinish, ScanFails, ScanDies, RowsUnchanged, subVars,
           rowVars
  <1>3. ASSUME NEW known \in 0 .. LastEpisode, NEW terminal \in BOOLEAN,
               ScanRefresh(s, known, terminal)
        PROVE  Refines
    <2>1. /\ state = "active" /\ ~Movie /\ scanKey[s] = cursor
          /\ target[cursor] \in {"pending", "metadata_pending"}
          /\ PlanAccepted(start, known, terminal)
          /\ target' = SyncTargets(target, PlanTvTargets(start, known, terminal))
          /\ UNCHANGED <<state, cursor, start, status>>
      BY <1>1, <1>3 DEF ScanRefresh, RowsUnchanged, rowVars, Current
    <2>2. known \in Nat /\ start \in Episodes /\ target \in [Episodes -> TargetStatus]
      BY LastEpisodeAssumption DEF IInv, SubInv
    <2>3. PlanTvTargets(start, known, terminal) \in
            [Episodes -> TargetStatus \ {"queued", "submitted"}]
      BY <2>2, PlanShape
    <2>4. \A e \in Episodes : LooksSame(e)
      BY <2>1, <2>2, <2>3, SyncShape DEF LooksSame
    <2>5. C!Refresh(known, terminal)
      BY <2>1, <2>4, SameWork, SamePlans DEF C!Refresh
    <2> QED
      BY <2>5 DEF Refines, C!Next
  <1>4. ASSUME NEW t \in Torrents, ScanEnqueue(s, t)
        PROVE  Refines
    BY <1>4, EnqueueRefines DEF ScanEnqueue
  <1>5. CASE ScanComplete(s)
    <2>1. /\ state = "active" /\ ~Movie /\ target[cursor] = "skipped"
          /\ state' = "completed" /\ cursor' = Done
          /\ UNCHANGED <<start, target, status>>
      BY <1>1, <1>5 DEF ScanComplete, RowsUnchanged, rowVars, Current
    <2>2. C!Complete
      BY <2>1, SameWork, SameSubmissions DEF C!Complete, LooksSame
    <2> QED
      BY <2>2 DEF Refines, C!Next
  <1> QED
    BY <1>2, <1>3, <1>4, <1>5 DEF Scan

LEMMA ClaimRefines ==
  ASSUME IInv, NEW D \in SUBSET Rows, ClaimDownloads(D)
  PROVE  Refines
  <1>1. \A e \in Episodes :
          status'[e] = status[e] \/ {status[e], status'[e]} \subseteq ActiveStatus
    BY RowSets DEF ClaimDownloads, Claimable, ActiveStatus
  <1> QED
    BY <1>1, ActiveStutter, StutterRefines DEF ClaimDownloads, subVars

LEMMA ReleaseRefines ==
  ASSUME IInv, C!IInv, NEW d \in Rows, NEW absent, ReleaseAfterError(d, absent)
  PROVE  Refines
  <1>1. CASE Owned(d) /\ status[d] \in InWork
    <2> DEFINE lost == {r \in {d} : StatusAfterError(r, absent) = "failed" /\ KnownAbsent(r, absent)}
    <2>1. /\ status' = [status EXCEPT ![d] = StatusAfterError(d, absent)]
          /\ ReopenTargets(lost)
      BY <1>1 DEF ReleaseAfterError
    <2>2. /\ UNCHANGED <<state, cursor, start>>
          /\ target' = [e \in Episodes |-> IF e \in Reopened(lost) THEN "pending" ELSE target[e]]
      BY <2>1 DEF ReopenTargets
    <2>3. StatusAfterError(d, absent) \in ActiveStatus \cup {"failed"}
      BY DEF StatusAfterError, ActiveStatus
    <2>4. /\ \A r \in Rows \ {d} : status'[r] = status[r]
          /\ status'[d] = StatusAfterError(d, absent)
      BY <2>1 DEF IInv, RowInv
    <2>5. /\ lost \subseteq {d} /\ {d} \subseteq {r \in Rows : status[r] \in ActiveStatus}
          /\ \A r \in {d} : status'[r] \in ActiveStatus \cup {"failed"}
          /\ \A r \in lost : status'[r] = "failed"
      BY <1>1, <2>3, <2>4 DEF InWork, ActiveStatus
    <2> HIDE DEF lost
    <2> QED
      BY <2>2, <2>4, <2>5, GiveUpRefines
  <1>2. CASE ~(Owned(d) /\ status[d] \in InWork)
    BY <1>2, UnchangedStutter, StutterRefines DEF ReleaseAfterError, rowVars, subVars
  <1> QED
    BY <1>1, <1>2

LEMMA WorkerRefines ==
  ASSUME IInv, C!IInv, NEW d \in Rows, Worker(d)
  PROVE  Refines
  <1>1. CASE WorkerFails(d) \/ ReleaseAbsent(d)
    BY <1>1, ReleaseRefines DEF WorkerFails, ReleaseAbsent
  <1>2. CASE MarkSubmitted(d) \/ MarkQbPresent(d)
    <2>1. /\ status[d] \in ActiveStatus
          /\ status' = [status EXCEPT ![d] = "submitted"]
          /\ SettleTarget(d, Coverages(job[d]))
      BY <1>2 DEF MarkSubmitted, MarkQbPresent, ActiveStatus
    <2>2. job[d] \in Torrents
      BY <1>2 DEF MarkSubmitted, MarkQbPresent, IInv, TorrentInv
    <2> QED
      BY <2>1, <2>2, SettleRefines
  <1>3. CASE MarkSubmitting(d) \/ RecordUnknown(d)
    <2>1. /\ UNCHANGED <<state, cursor, start, target>>
          /\ \A e \in Episodes :
               status'[e] = status[e] \/ {status[e], status'[e]} \subseteq ActiveStatus
      BY <1>3, RowSets
         DEF MarkSubmitting, RecordUnknown, subVars, IInv, RowInv, ActiveStatus
    <2> QED
      BY <2>1, ActiveStutter, StutterRefines
  <1>4. CASE ~(\/ WorkerFails(d) \/ ReleaseAbsent(d) \/ MarkSubmitted(d) \/ MarkQbPresent(d)
               \/ MarkSubmitting(d) \/ RecordUnknown(d))
    <2>1. UNCHANGED <<state, cursor, start, target, status>>
      BY <1>4
         DEF Worker, FetchedPresent, FetchedAbsent, ReconciledPresent, ReconciledAbsent,
             SendTorrent, AnswerPresent, AnswerAbsent, AnswerUnknown, RestoreSubmitted,
             SendRestored, RestoredPresent, RestoredAbsent, RestoredUnknown, WorkerDies,
             WorkerGoes, rowVars, subVars
    <2> QED
      BY <2>1, UnchangedStutter, StutterRefines
  <1> QED
    BY <1>1, <1>2, <1>3, <1>4

LEMMA RecoverRowsRefines ==
  ASSUME IInv, C!IInv, NEW D, D \subseteq {d \in Rows : status[d] \in InWork}, RecoverRows(D),
         UNCHANGED <<state, cursor, start>>,
         target' = [e \in Episodes |-> IF e \in Reopened(Lost(D)) THEN "pending" ELSE target[e]]
  PROVE  Refines
  <1>1. \A d \in D : RecoveredStatus(d) \in ActiveStatus \cup {"failed"}
    BY DEF RecoveredStatus, ActiveStatus
  <1>2. /\ \A d \in Rows \ D : status'[d] = status[d]
        /\ \A d \in D : status'[d] = RecoveredStatus(d)
    BY DEF RecoverRows
  <1>3. Lost(D) \subseteq D /\ \A d \in Lost(D) : RecoveredStatus(d) = "failed"
    BY DEF Lost, RecoveredStatus
  <1>4. D \subseteq {d \in Rows : status[d] \in ActiveStatus}
    BY DEF InWork, ActiveStatus
  <1>5. /\ \A d \in D : status'[d] \in ActiveStatus \cup {"failed"}
        /\ \A d \in Lost(D) : status'[d] = "failed"
    BY <1>1, <1>2, <1>3
  <1> QED
    BY <1>2, <1>3, <1>4, <1>5, GiveUpRefines

LEMMA RecoverRefines ==
  ASSUME IInv, C!IInv, Recover
  PROVE  Refines
  <1>1. CASE RecoverOrphanSubscription
    BY <1>1, UnchangedStutter, StutterRefines DEF RecoverOrphanSubscription, rowVars
  <1>2. CASE RecoverOrphanDownloads
    BY <1>2, RecoverRowsRefines DEF RecoverOrphanDownloads, ReopenTargets
  <1>3. CASE RecoverExpired
    BY <1>3, RecoverRowsRefines DEF RecoverExpired, ReopenTargets
  <1> QED
    BY <1>1, <1>2, <1>3 DEF Recover

LEMMA EnvironmentRefines ==
  ASSUME \/ \E d \in Rows : LeaseExpires(d)
         \/ SubscriptionLeaseExpires \/ Crash \/ Qb
  PROVE  Refines
  <1>1. UNCHANGED <<state, cursor, start, target, status>>
    BY DEF LeaseExpires, SubscriptionLeaseExpires, Crash, Qb, Land, Refuse, RemoveTorrent,
           QbUnchanged, rowVars, subVars
  <1> QED
    BY <1>1, UnchangedStutter, StutterRefines

LEMMA UpdateRefines ==
  ASSUME IInv, C!IInv, NEW e \in Episodes, NEW reset \in BOOLEAN, NEW on \in BOOLEAN,
         UpdateSubscription(e, reset, on)
  PROVE  Refines
  <1>1. /\ target \in [Episodes -> TargetStatus]
        /\ status \in [Rows -> RowStatus]
        /\ Episodes \subseteq Rows
    BY RowSets DEF IInv, SubInv, RowInv
  <1>2. /\ state # "absent" /\ cursor' = e /\ start' = e /\ state' = "active"
        /\ Movie => state # "completed" /\ ~reset
        /\ CursorMovable(e)
    BY DEF UpdateSubscription
  <1>3. CASE ~reset
    <2>1. /\ ~Movie => target[e] # "submitted"
          /\ target' = PlaceCursor(target, e)
          /\ status' = status
      BY <1>3 DEF UpdateSubscription, RowsUnchanged, rowVars
    <2>2. \A n \in Episodes : target'[n] = "queued" <=> target[n] = "queued"
      BY <1>1, <2>1 DEF PlaceCursor, FreshStatus
    <2>3. WorkOf' = WorkOf
      BY <2>1, <2>2, SameWork DEF LooksSame
    <2>4. C!MoveCursor(e, reset)
      BY <1>2, <1>3, <2>1, <2>3, SameEdits DEF C!MoveCursor
    <2> QED
      BY <2>4, SameEpisodes DEF Refines, C!Next
  <1>4. CASE reset
    <2>1. /\ \A n \in e .. LastEpisode : target[n] # "queued" /\ status[n] \notin ActiveStatus
          /\ \E r \in ResetTargets(target, e) : target' = PlaceCursor(r, e)
          /\ DropRows({n \in e .. LastEpisode : target[n] # "none"})
      BY <1>4 DEF UpdateSubscription
    <2>2. /\ e .. LastEpisode \subseteq Episodes
          /\ \A n \in Episodes : n >= e <=> n \in e .. LastEpisode
      BY LastEpisodeNumber, LastEpisodeAssumption DEF Episodes
    <2>3. PICK r \in ResetTargets(target, e) : target' = PlaceCursor(r, e)
      BY <2>1
    <2>4. /\ r \in [Episodes -> TargetStatus]
          /\ \A n \in Episodes :
               r[n] = target[n] \/ (n >= e /\ r[n] \in {"pending", "metadata_pending"})
      BY <1>1, PlaceShape
    <2>5. \A n \in Episodes : target'[n] = "queued" <=> target[n] = "queued"
      BY <2>1, <2>2, <2>3, <2>4 DEF PlaceCursor, FreshStatus
    <2>6. \A n \in Episodes :
            status'[n] = IF n >= e /\ target[n] # "none" THEN "none" ELSE status[n]
      BY <1>1, <2>1, <2>2 DEF DropRows
    <2>7. \A n \in Episodes :
            WorkOf'[n] = IF n >= e /\ target[n] # "none" THEN "none" ELSE WorkOf[n]
      BY <2>5, <2>6, WorkValue DEF ActiveStatus
    <2>8. WorkOf' = [n \in Episodes |-> IF n >= e /\ target[n] # "none"
                                          THEN "none" ELSE WorkOf[n]]
      BY <2>7 DEF WorkOf
    <2>9. \A n \in e .. LastEpisode : target[n] # "queued" /\ WorkOf[n] # "active"
      BY <1>1, <2>1, <2>2, WorkValue DEF ActiveStatus, RowStatus
    <2>10. C!MoveCursor(e, reset)
      BY <1>2, <1>4, <2>1, <2>8, <2>9, SameEdits, SameEpisodes DEF C!MoveCursor
    <2> QED
      BY <2>10, SameEpisodes DEF Refines, C!Next
  <1> QED
    BY <1>3, <1>4

LEMMA EditsRefine ==
  ASSUME IInv, C!IInv, UserEditsSubscription
  PROVE  Refines
  <1>1. ASSUME NEW e \in Episodes, CreateSubscription(e)
        PROVE  Refines
    <2>1. \A n \in Episodes : target[n] = "none" /\ target'[n] # "queued" /\ status'[n] = status[n]
      BY <1>1, CreateShape, SameEpisodes
         DEF CreateSubscription, RowsUnchanged, rowVars, C!IInv, C!AbsentEmpty
    <2>2. C!Create(e)
      BY <1>1, <2>1, SameWork, SamePlans DEF CreateSubscription, C!Create, LooksSame
    <2> QED
      BY <2>2, SameEpisodes DEF Refines, C!Next
  <1>2. CASE DeleteSubscription
    <2>1. \A n \in Episodes : status'[n] = "none"
      BY <1>2, RowSets DEF DeleteSubscription, DropRows
    <2>2. WorkOf' = [n \in Episodes |-> "none"]
      BY <2>1 DEF WorkOf, ActiveStatus
    <2>3. C!Delete
      BY <1>2, <2>2, SameEpisodes, SameSubmissions DEF DeleteSubscription, C!Delete
    <2> QED
      BY <2>3 DEF Refines, C!Next
  <1>3. ASSUME NEW on \in BOOLEAN, SetEnabled(on)
        PROVE  Refines
    BY <1>3, UnchangedStutter, StutterRefines DEF SetEnabled, RowsUnchanged, rowVars
  <1> QED
    BY <1>1, <1>2, <1>3, UpdateRefines DEF UserEditsSubscription

LEMMA ResolveRefines ==
  ASSUME IInv, C!IInv, NEW d \in Rows, ResolvePresent(d) \/ ResolveAbsent(d)
  PROVE  Refines
  <1>1. CASE ResolvePresent(d)
    <2>1. /\ d \in Episodes /\ Resolvable(d) /\ status[d] = "failed"
          /\ status' = [status EXCEPT ![d] = "submitted"]
          /\ SettleTarget(d, {NoCoverage})
      BY <1>1 DEF ResolvePresent, Resolvable
    <2>2. release[d] \in Torrents /\ {NoCoverage} \subseteq Coverages(release[d])
      BY <2>1 DEF IInv, TorrentInv, Coverages
    <2> QED
      BY <2>1, <2>2, SettleRefines
  <1>2. CASE ResolveAbsent(d)
    <2>1. /\ d \in Episodes /\ d = Current /\ state = "active"
          /\ status[d] = "failed" /\ target[d] = "queued"
          /\ status' = status
          /\ ReopenTargets({d})
      BY <1>2 DEF ResolveAbsent, Resolvable, rowVars
    <2>2. target \in [Episodes -> TargetStatus]
      BY DEF IInv, SubInv
    <2>3. Reopened({d}) = {d}
      BY <2>1 DEF Reopened
    <2>4. target' = [target EXCEPT ![d] = "pending"] /\ UNCHANGED <<state, cursor, start>>
      BY <2>1, <2>2, <2>3 DEF ReopenTargets
    <2>5. WorkOf[d] = "unresolved" /\ WorkOf'[d] = "failed"
      BY <2>1, <2>2, <2>4, WorkValue DEF ActiveStatus
    <2>6. WorkOf' = [WorkOf EXCEPT ![d] = "failed"]
      BY <2>1, <2>2, <2>4, <2>5, WorkAt DEF LooksSame
    <2>7. C!Reopen(d)
      BY <2>1, <2>4, <2>5, <2>6, SameEdits DEF C!Reopen
    <2> QED
      BY <2>1, <2>7, SameEpisodes DEF Refines, C!Next
  <1> QED
    BY <1>1, <1>2

LEMMA DeleteRecordRefines ==
  ASSUME IInv, C!IInv, NEW d \in Rows, DeleteRecord(d)
  PROVE  Refines
  <1>1. /\ status[d] \in {"submitted", "failed"}
        /\ \A r \in Rows : status'[r] = IF r = d THEN "none" ELSE status[r]
        /\ target \in [Episodes -> TargetStatus]
        /\ Episodes \subseteq Rows
    BY RowSets DEF DeleteRecord, DropRows, IInv, SubInv
  <1>2. CASE d \in Episodes
    <2>1. WorkOf'[d] = "none"
      BY <1>1, <1>2, WorkValue DEF ActiveStatus
    <2>2. CASE target[d] = "submitted"
      <3>1. /\ \A o \in Episodes \ {d} : status[o] \notin ActiveStatus
            /\ target' = [target EXCEPT ![d] = FreshStatus]
            /\ cursor' = d /\ start' = d /\ state' = "active"
        BY <1>2, <2>2 DEF DeleteRecord
      <3>2. WorkOf' = [WorkOf EXCEPT ![d] = "none"]
        BY <1>1, <1>2, <2>1, <3>1, WorkAt DEF LooksSame
      <3>3. \A o \in Episodes : WorkOf[o] # "active"
        BY <1>1, <1>2, <3>1, WorkValue, Coupled DEF ActiveStatus, RowStatus
      <3>4. WorkOf[d] \in {"failed", "submitted"}
        BY <1>1, <1>2, <2>2, WorkValue DEF ActiveStatus
      <3>5. C!DeleteRecord(d)
        BY <2>2, <3>1, <3>2, <3>3, <3>4, SameEdits, SameEpisodes DEF C!DeleteRecord
      <3> QED
        BY <1>2, <3>5, SameEpisodes DEF Refines, C!Next
    <2>3. CASE target[d] # "submitted"
      <3>1. target[d] # "queued" /\ UNCHANGED <<state, cursor, start, target>>
        BY <1>2, <2>3 DEF DeleteRecord, subVars
      <3>2. WorkOf' = [WorkOf EXCEPT ![d] = "none"]
        BY <1>1, <1>2, <2>1, <3>1, WorkAt DEF LooksSame
      <3>3. WorkOf[d] \in {"failed", "submitted"}
        BY <1>1, <1>2, <3>1, WorkValue DEF ActiveStatus
      <3>4. C!DeleteRecord(d)
        BY <2>3, <3>1, <3>2, <3>3, SameEdits DEF C!DeleteRecord
      <3> QED
        BY <1>2, <3>4, SameEpisodes DEF Refines, C!Next
    <2> QED
      BY <2>2, <2>3
  <1>3. CASE d \notin Episodes
    <2>1. UNCHANGED <<state, cursor, start, target>>
      BY <1>3 DEF DeleteRecord, subVars
    <2>2. \A e \in Episodes : status'[e] = status[e]
      BY <1>1, <1>3
    <2> QED
      BY <2>1, <2>2, ActiveStutter, StutterRefines
  <1> QED
    BY <1>2, <1>3

LEMMA DownloadEditsRefine ==
  ASSUME IInv, C!IInv, UserEditsDownloads
  PROVE  Refines
  <1>1. ASSUME NEW t \in Torrents, QueueLinked(t)
        PROVE  Refines
    BY <1>1, EnqueueRefines DEF QueueLinked
  <1>2. ASSUME NEW m \in Manual, QueueManual(m) \/ RequeueMissing(m)
        PROVE  Refines
    <2>1. \A e \in Episodes : status'[e] = status[e]
      BY <1>2, Coupled DEF QueueManual, RequeueMissing, EnqueueRow, IInv, RowInv
    <2> QED
      BY <1>2, <2>1, ActiveStutter, StutterRefines DEF QueueManual, RequeueMissing, subVars
  <1>3. ASSUME NEW d \in Rows, AskQb(d) \/ RequestDropped(d)
        PROVE  Refines
    BY <1>3, UnchangedStutter, StutterRefines DEF AskQb, RequestDropped, rowVars, subVars
  <1> QED
    BY <1>1, <1>2, <1>3, ResolveRefines, DeleteRecordRefines DEF UserEditsDownloads

(***************************************************************************)
(* The refinement.                                                         *)
(***************************************************************************)
LEMMA NextRefines ==
  ASSUME IInv, C!IInv, [Next]_vars
  PROVE  Refines
  <1>1. CASE UNCHANGED vars
    BY <1>1, UnchangedStutter, StutterRefines DEF vars, rowVars, subVars
  <1> QED
    BY <1>1, ScanRefines, ClaimRefines, WorkerRefines, RecoverRefines, EnvironmentRefines,
       EditsRefine, DownloadEditsRefine DEF Next

LEMMA AlwaysCursorIInv == Spec => [](IInv /\ C!IInv)
  <1>1. Init => IInv /\ C!IInv
    BY InitIInv, InitRefines, CursorInitIInv
  <1>2. IInv /\ C!IInv /\ [Next]_vars => (IInv /\ C!IInv)'
    BY NextIInv, NextRefines, CursorNextIInv DEF Refines
  <1> QED
    BY <1>1, <1>2, PTL DEF Spec

(* Leases, workers, scans, qBittorrent, crashes and recovery never do more *)
(* to a subscription than the atomic operations of MediaCursor, whose      *)
(* invariants the pipeline therefore has.                                  *)
THEOREM SpecImplementsCursor == Spec => CursorSpec
  <1>1. Init => Cursor!Init
    BY InitRefines, SameInit
  <1>2. IInv /\ C!IInv /\ [Next]_vars => [Cursor!Next]_Cursor!cursorVars
    BY NextRefines, SameNext DEF Refines
  <1> QED
    BY <1>1, <1>2, AlwaysCursorIInv, PTL DEF Spec, CursorSpec, Cursor!Spec

-----------------------------------------------------------------------------
(* The delivery of torrents.                                               *)

(* Steps a worker takes before, or instead of, storing the infohash of its *)
(* torrent in its row.                                                     *)
Unrecorded == {"fetch", "vacant", "restore"}

(* A row that failed with its target left queued carries the infohash of   *)
(* its release, and no worker is about to send another torrent for it.     *)
UnresolvedHeld ==
  \A e \in Episodes :
    status[e] = "failed" /\ target[e] = "queued" =>
      infohash[e] = release[e] /\ wpc[e] \notin Unrecorded

(* A user's request about the row of an episode holds a verdict qB gave of *)
(* its release, and no worker has sent the torrent since.                  *)
RequestHeld ==
  \A e \in Episodes :
    /\ verdict[e] = "present" => release[e] \in landed
    /\ verdict[e] # "none" =>
         e \notin unanswered /\ infohash[e] \in Torrents /\ wpc[e] \notin Unrecorded

(* A row being submitted or reconciled has left these steps behind, and a  *)
(* worker that was told "absent" has not sent the torrent since.           *)
WorkerHeld ==
  \A d \in Rows :
    /\ status[d] \in {"submitting", "reconciling"} => wpc[d] \notin Unrecorded
    /\ wpc[d] = "denied" => d \notin unanswered

DeliveryInv == DeliveredOnly /\ UnresolvedHeld /\ RequestHeld /\ WorkerHeld

(* A target that is queued after a step, with a failed row, was queued.    *)
QueuedBefore ==
  \A e \in Episodes : status'[e] = "failed" /\ target'[e] = "queued" => target[e] = "queued"

LEMMA NextQueuedBefore == IInv /\ C!IInv /\ [Next]_vars => QueuedBefore
  <1> SUFFICES ASSUME IInv, C!IInv, [Next]_vars,
                      NEW e \in Episodes, status'[e] = "failed", target'[e] = "queued",
                      target[e] # "queued"
               PROVE  FALSE
    BY DEF QueuedBefore
  <1>1. WorkOf'[e] = "unresolved"
    BY WorkValue DEF ActiveStatus
  <1>2. WorkOf[e] # "unresolved"
    BY WorkValue, Coupled DEF ActiveStatus, RowStatus
  <1>3. WorkOf \in [Episodes -> C!WorkStatus]
    BY SameEpisodes DEF C!IInv, C!TypeOK
  <1>4. Refines
    BY NextRefines
  <1>5. CASE C!Next
    <2>1. WorkOf'[e] = "unresolved" => WorkOf[e] = "unresolved" \/ target' = target
      BY <1>3, <1>5, SameEpisodes
         DEF C!Next, C!Create, C!Delete, C!Enqueue, C!Submit, C!Reopen, C!GiveUp, C!Refresh,
             C!Complete, C!MoveCursor, C!DeleteRecord
    <2> QED
      BY <1>1, <1>2, <2>1
  <1>6. CASE UNCHANGED C!cursorVars
    BY <1>6 DEF C!cursorVars
  <1> QED
    BY <1>4, <1>5, <1>6 DEF Refines

(***************************************************************************)
(* Steps that leave the rows, the workers and the requests alone.          *)
(***************************************************************************)
LEMMA UnchangedDelivery ==
  ASSUME IInv, DeliveryInv, QueuedBefore,
         UNCHANGED <<status, infohash, release, wpc, verdict, unanswered>>,
         landed \subseteq landed'
  PROVE  DeliveryInv'
  BY DEF DeliveryInv, DeliveredOnly, UnresolvedHeld, RequestHeld, WorkerHeld, QueuedBefore

LEMMA EnqueueDelivery ==
  ASSUME IInv, DeliveryInv, QueuedBefore, NEW d \in Rows, NEW t, EnqueueRow(d, t),
         UNCHANGED qbVars
  PROVE  DeliveryInv'
  BY RowSets DEF EnqueueRow, IInv, RowInv, VerdictInv, DeliveryInv, DeliveredOnly, UnresolvedHeld,
         RequestHeld, WorkerHeld, QueuedBefore, qbVars

LEMMA DropDelivery ==
  ASSUME IInv, DeliveryInv, QueuedBefore, NEW D, DropRows(D), UNCHANGED qbVars
  PROVE  DeliveryInv'
  BY RowSets DEF DropRows, IInv, RowInv, VerdictInv, DeliveryInv, DeliveredOnly, UnresolvedHeld,
         RequestHeld, WorkerHeld, QueuedBefore, qbVars

LEMMA InitDelivery == Init => DeliveryInv
  BY RowSets DEF Init, DeliveryInv, DeliveredOnly, UnresolvedHeld, RequestHeld, WorkerHeld, Unrecorded


(***************************************************************************)
(* The download loop.                                                      *)
(***************************************************************************)
LEMMA ClaimDelivery ==
  ASSUME IInv, DeliveryInv, QueuedBefore, NEW D \in SUBSET Rows, ClaimDownloads(D)
  PROVE  DeliveryInv'
  <1>1. \A d \in D : status[d] \in {"queued", "retry_wait", "reconciling"}
    BY DEF ClaimDownloads, Claimable
  <1>2. /\ \A d \in Rows : status'[d] = status[d] \/ (d \in D /\ status'[d] = "fetching")
        /\ \A d \in Rows : wpc'[d] = wpc[d] \/ wpc'[d] = "reconcile"
                             \/ (d \in D /\ wpc'[d] = "fetch" /\ status'[d] = "fetching")
        /\ UNCHANGED <<infohash, release, target, verdict, landed, unanswered>>
    BY DEF ClaimDownloads, subVars, qbVars
  <1>3. \A e \in Episodes : verdict[e] # "none" => e \notin D
    BY <1>1, RowSets, ManualAssumption DEF IInv, VerdictInv, VerdictHeld, Rows
  <1>4. DeliveredOnly' /\ WorkerHeld'
    BY <1>1, <1>2 DEF DeliveryInv, DeliveredOnly, WorkerHeld, Unrecorded
  <1>5. UnresolvedHeld' /\ RequestHeld'
    BY <1>1, <1>2, <1>3, RowSets DEF DeliveryInv, UnresolvedHeld, RequestHeld, Unrecorded
  <1> QED
    BY <1>4, <1>5 DEF DeliveryInv

LEMMA WorkerGoesDelivery ==
  ASSUME IInv, DeliveryInv, NEW d \in Rows, NEW from, NEW to, WorkerGoes(d, from, to),
         UNCHANGED unanswered \/ Told(d),
         to \in Unrecorded => from \in Unrecorded,
         to = "denied" => Told(d)
  PROVE  DeliveryInv'
  <1>1. /\ wpc[d] = from
        /\ \A o \in Rows : wpc'[o] = IF o = d THEN to ELSE wpc[o]
        /\ unanswered' \subseteq unanswered
        /\ to = "denied" => d \notin unanswered'
        /\ UNCHANGED <<status, infohash, release, target, verdict, landed>>
    BY DEF WorkerGoes, Told, IInv, WorkInv, rowVars, subVars, qbVars
  <1> QED
    BY <1>1, RowSets DEF DeliveryInv, DeliveredOnly, UnresolvedHeld, RequestHeld, WorkerHeld

LEMMA MarkSubmittingDelivery ==
  ASSUME IInv, DeliveryInv, NEW d \in Rows, MarkSubmitting(d)
  PROVE  DeliveryInv'
  <1>1. /\ status[d] = "fetching" /\ wpc[d] = "vacant"
        /\ \A o \in Rows : /\ status'[o] = IF o = d THEN "submitting" ELSE status[o]
                           /\ o # d => infohash'[o] = infohash[o]
                           /\ wpc'[o] = IF o = d THEN "submitting" ELSE wpc[o]
        /\ UNCHANGED <<release, target, verdict, landed, unanswered>>
    BY DEF MarkSubmitting, IInv, RowInv, WorkInv, subVars, qbVars
  <1>2. verdict[d] = "none"
    BY <1>1 DEF IInv, VerdictInv, VerdictHeld
  <1> QED
    BY <1>1, <1>2, RowSets
       DEF DeliveryInv, DeliveredOnly, UnresolvedHeld, RequestHeld, WorkerHeld, Unrecorded

LEMMA SendDelivery ==
  ASSUME IInv, DeliveryInv, NEW d \in Rows, SendTorrent(d) \/ SendRestored(d)
  PROVE  DeliveryInv'
  <1>1. /\ \A o \in Rows : wpc'[o] = wpc[o] \/ (o = d /\ wpc'[o] \in {"sent", "resent"})
        /\ wpc'[d] \in {"sent", "resent"}
        /\ unanswered' = unanswered \cup {d}
        /\ UNCHANGED <<status, infohash, release, target, verdict, landed>>
    BY DEF SendTorrent, SendRestored, IInv, WorkInv, rowVars, subVars
  <1>2. d \in Episodes => verdict[d] = "none"
    <2>1. CASE SendTorrent(d)
      BY <2>1, RowSets, ManualAssumption DEF SendTorrent, IInv, VerdictInv, VerdictHeld
    <2>2. CASE SendRestored(d)
      BY <2>2 DEF SendRestored, DeliveryInv, RequestHeld, Unrecorded
    <2> QED
      BY <2>1, <2>2
  <1> QED
    BY <1>1, <1>2, RowSets
       DEF DeliveryInv, DeliveredOnly, UnresolvedHeld, RequestHeld, WorkerHeld, Unrecorded

(* A worker is done with its row: qB has the torrent.                      *)
LEMMA SettleDelivery ==
  ASSUME IInv, DeliveryInv, QueuedBefore, NEW d \in Rows, MarkSubmitted(d) \/ MarkQbPresent(d)
  PROVE  DeliveryInv'
  <1>1. /\ wpc[d] \in {"confirmed", "seen"} /\ fresh[d] /\ status[d] \in InWork
        /\ \A o \in Rows : /\ status'[o] = IF o = d THEN "submitted" ELSE status[o]
                           /\ o # d => infohash'[o] = infohash[o]
                           /\ wpc'[o] = IF o = d THEN "idle" ELSE wpc[o]
        /\ UNCHANGED <<release, verdict, landed, unanswered>>
    BY DEF MarkSubmitted, MarkQbPresent, WorkerEnds, IInv, RowInv, WorkInv, qbVars, InWork
  <1>2. release[d] \in landed
    BY <1>1 DEF IInv, TorrentInv
  <1>3. verdict[d] = "none"
    BY <1>1 DEF IInv, VerdictInv, VerdictHeld, InWork
  <1> QED
    BY <1>1, <1>2, <1>3, RowSets
       DEF DeliveryInv, DeliveredOnly, UnresolvedHeld, RequestHeld, WorkerHeld, Unrecorded,
           QueuedBefore

(* A row that is given up, by its worker or by recovery, either held the   *)
(* infohash of its release or has its target reopened.                     *)
LEMMA GivenUp ==
  ASSUME IInv, C!IInv, NEW e \in Episodes, status[e] \in InWork, NEW D, e \in D,
         target' = [n \in Episodes |-> IF n \in Reopened(D) THEN "pending" ELSE target[n]]
  PROVE  target'[e] = "pending"
  BY Coupled DEF Reopened, InWork, ActiveStatus

LEMMA ReleaseDelivery ==
  ASSUME IInv, C!IInv, DeliveryInv, QueuedBefore, NEW d \in Rows, NEW absent,
         ReleaseAfterError(d, absent), WorkerEnds(d), UNCHANGED <<verdict, qbVars, unanswered>>
  PROVE  DeliveryInv'
  <1>1. \A o \in Rows : wpc'[o] = IF o = d THEN "idle" ELSE wpc[o]
    BY DEF WorkerEnds, IInv, WorkInv
  <1>2. CASE Owned(d) /\ status[d] \in InWork
    <2> DEFINE lost == {r \in {d} : StatusAfterError(r, absent) = "failed" /\ KnownAbsent(r, absent)}
    <2>1. /\ \A o \in Rows : status'[o] = IF o = d THEN StatusAfterError(d, absent) ELSE status[o]
          /\ target' = [n \in Episodes |-> IF n \in Reopened(lost) THEN "pending" ELSE target[n]]
          /\ UNCHANGED <<infohash, release, verdict, landed, unanswered>>
      BY <1>2 DEF ReleaseAfterError, ReopenTargets, IInv, RowInv, qbVars
    <2>2. StatusAfterError(d, absent) \in {"reconciling", "failed", "retry_wait"}
      BY DEF StatusAfterError
    <2>3. ASSUME d \in Episodes, status'[d] = "failed", target'[d] = "queued"
          PROVE  infohash[d] = release[d]
      <3>1. d \notin lost
        BY <1>2, <2>1, <2>3, GivenUp
      <3>2. status[d] \in {"submitting", "reconciling"}
        BY <1>2, <2>1, <2>3, <3>1 DEF KnownAbsent, InWork
      <3> QED
        BY <3>2 DEF IInv, TorrentInv
    <2>4. verdict[d] = "none"
      BY <1>2 DEF IInv, VerdictInv, VerdictHeld, InWork
    <2> HIDE DEF lost
    <2> QED
      BY <1>1, <2>1, <2>2, <2>3, <2>4, RowSets
         DEF DeliveryInv, DeliveredOnly, UnresolvedHeld, RequestHeld, WorkerHeld, Unrecorded,
             QueuedBefore
  <1>3. CASE ~(Owned(d) /\ status[d] \in InWork)
    <2>1. UNCHANGED <<status, infohash, release, target, verdict, landed, unanswered>>
      BY <1>3 DEF ReleaseAfterError, rowVars, subVars, qbVars
    <2> QED
      BY <1>1, <2>1, RowSets
         DEF DeliveryInv, DeliveredOnly, UnresolvedHeld, RequestHeld, WorkerHeld, Unrecorded
  <1> QED
    BY <1>2, <1>3


LEMMA WorkerDelivery ==
  ASSUME IInv, C!IInv, DeliveryInv, QueuedBefore, NEW d \in Rows, Worker(d)
  PROVE  DeliveryInv'
  <1> DEFINE Goes == \/ FetchedPresent(d) \/ FetchedAbsent(d)
                     \/ ReconciledPresent(d) \/ ReconciledAbsent(d)
                     \/ AnswerPresent(d) \/ AnswerAbsent(d) \/ AnswerUnknown(d)
                     \/ RestoreSubmitted(d)
                     \/ RestoredPresent(d) \/ RestoredAbsent(d) \/ RestoredUnknown(d)
  <1>1. CASE Goes
    <2>1. PICK from, to \in WorkerPc :
            /\ WorkerGoes(d, from, to)
            /\ UNCHANGED unanswered \/ Told(d)
            /\ to \in Unrecorded => from \in Unrecorded
            /\ to = "denied" => Told(d)
      BY <1>1
         DEF FetchedPresent, FetchedAbsent, ReconciledPresent, ReconciledAbsent, AnswerPresent,
             AnswerAbsent, AnswerUnknown, RestoreSubmitted, RestoredPresent, RestoredAbsent,
             RestoredUnknown, WorkerPc, Unrecorded
    <2> QED
      BY <2>1, WorkerGoesDelivery
  <1>2. CASE WorkerFails(d) \/ ReleaseAbsent(d)
    BY <1>2, ReleaseDelivery DEF WorkerFails, ReleaseAbsent
  <1>3. CASE RecordUnknown(d) \/ WorkerDies(d)
    <2>1. /\ \A o \in Rows : /\ status'[o] = status[o]
                                \/ (o = d /\ status[o] = "submitting" /\ status'[o] = "reconciling")
                             /\ wpc'[o] = IF o = d THEN "idle" ELSE wpc[o]
          /\ UNCHANGED <<infohash, release, target, verdict, landed, unanswered>>
      BY <1>3 DEF RecordUnknown, WorkerDies, WorkerEnds, IInv, RowInv, WorkInv, rowVars, subVars, qbVars
    <2> QED
      BY <2>1, RowSets
         DEF DeliveryInv, DeliveredOnly, UnresolvedHeld, RequestHeld, WorkerHeld, Unrecorded
  <1> HIDE DEF Goes
  <1>4. Goes \/ MarkSubmitting(d) \/ SendTorrent(d) \/ SendRestored(d) \/ MarkSubmitted(d)
          \/ MarkQbPresent(d) \/ RecordUnknown(d) \/ ReleaseAbsent(d) \/ WorkerFails(d)
          \/ WorkerDies(d)
    BY DEF Worker, Goes
  <1> QED
    BY <1>1, <1>2, <1>3, <1>4, MarkSubmittingDelivery, SendDelivery, SettleDelivery

(***************************************************************************)
(* Crashes and recovery.                                                   *)
(***************************************************************************)
LEMMA RecoverRowsDelivery ==
  ASSUME IInv, C!IInv, DeliveryInv, QueuedBefore,
         NEW D, D \subseteq {d \in Rows : status[d] \in InWork}, RecoverRows(D),
         target' = [e \in Episodes |-> IF e \in Reopened(Lost(D)) THEN "pending" ELSE target[e]],
         UNCHANGED <<verdict, qbVars, unanswered>>
  PROVE  DeliveryInv'
  <1>1. /\ \A d \in Rows : status'[d] = IF d \in D THEN RecoveredStatus(d) ELSE status[d]
        /\ UNCHANGED <<infohash, release, wpc, verdict, landed, unanswered>>
    BY DEF RecoverRows, qbVars
  <1>2. \A d \in Rows : /\ RecoveredStatus(d) \in {"reconciling", "failed", "retry_wait"}
                        /\ RecoveredStatus(d) = "reconciling" =>
                             status[d] \in {"submitting", "reconciling"}
    BY DEF RecoveredStatus
  <1>3. ASSUME NEW e \in Episodes, e \in D, status'[e] = "failed", target'[e] = "queued"
        PROVE  status[e] = "reconciling"
    <2>1. status[e] \in InWork /\ e \in Rows
      BY <1>3
    <2>2. e \notin Lost(D)
      BY <1>3, <2>1, GivenUp
    <2> QED
      BY <1>1, <1>3, <2>1, <2>2 DEF Lost, RecoveredStatus, InWork
  <1>4. UnresolvedHeld'
    BY <1>1, <1>3, RowSets
       DEF DeliveryInv, UnresolvedHeld, WorkerHeld, QueuedBefore, IInv, TorrentInv
  <1>5. DeliveredOnly' /\ RequestHeld' /\ WorkerHeld'
    BY <1>1, <1>2, RowSets DEF DeliveryInv, DeliveredOnly, RequestHeld, WorkerHeld
  <1> QED
    BY <1>4, <1>5 DEF DeliveryInv

LEMMA RecoverDelivery ==
  ASSUME IInv, C!IInv, DeliveryInv, QueuedBefore, Recover
  PROVE  DeliveryInv'
  <1>1. CASE RecoverOrphanSubscription
    BY <1>1, UnchangedDelivery DEF RecoverOrphanSubscription, rowVars, workerVars, qbVars
  <1>2. CASE RecoverOrphanDownloads
    BY <1>2, RecoverRowsDelivery DEF RecoverOrphanDownloads, ReopenTargets
  <1>3. CASE RecoverExpired
    BY <1>3, RecoverRowsDelivery DEF RecoverExpired, ReopenTargets
  <1> QED
    BY <1>1, <1>2, <1>3 DEF Recover

LEMMA CrashDelivery ==
  ASSUME IInv, DeliveryInv, Crash
  PROVE  DeliveryInv'
  <1>1. /\ \A d \in Rows : wpc'[d] = "idle" /\ verdict'[d] = "none"
        /\ UNCHANGED <<status, infohash, release, target, landed, unanswered>>
    BY DEF Crash, qbVars
  <1> QED
    BY <1>1, RowSets
       DEF DeliveryInv, DeliveredOnly, UnresolvedHeld, RequestHeld, WorkerHeld, Unrecorded

(***************************************************************************)
(* The web API.                                                            *)
(***************************************************************************)
LEMMA AskQbDelivery ==
  ASSUME IInv, DeliveryInv, NEW d \in Rows, AskQb(d) \/ RequestDropped(d)
  PROVE  DeliveryInv'
  <1>1. /\ UNCHANGED <<status, infohash, release, wpc, target, landed>>
        /\ unanswered' \subseteq unanswered
        /\ \A o \in Rows \ {d} : verdict'[o] = verdict[o]
    BY DEF AskQb, RequestDropped, ProcessUnchanged, IInv, VerdictInv, rowVars, subVars,
           workerVars, qbVars
  <1>2. ASSUME d \in Episodes
        PROVE  /\ verdict'[d] = "present" => release[d] \in landed
               /\ verdict'[d] # "none" =>
                    d \notin unanswered' /\ infohash[d] \in Torrents /\ wpc[d] \notin Unrecorded
    <2>1. CASE AskQb(d)
      <3>1. d \notin Manual
        BY <1>2, ManualAssumption
      <3>2. status[d] = "failed" /\ target[d] = "queued" /\ infohash[d] # NoTorrent
        BY <2>1, <3>1 DEF AskQb
      <3>3. infohash[d] = release[d] /\ wpc[d] \notin Unrecorded
        BY <1>2, <3>2 DEF DeliveryInv, UnresolvedHeld
      <3>4. /\ d \notin unanswered'
            /\ verdict'[d] = IF infohash[d] \in qb THEN "present" ELSE "absent"
        BY <2>1 DEF AskQb, IInv, VerdictInv
      <3> QED
        BY <3>2, <3>3, <3>4 DEF IInv, RowInv, TorrentInv
    <2>2. CASE RequestDropped(d)
      BY <2>2 DEF RequestDropped, IInv, VerdictInv
    <2> QED
      BY <2>1, <2>2
  <1>3. RequestHeld'
    BY <1>1, <1>2, RowSets DEF DeliveryInv, RequestHeld
  <1> QED
    BY <1>1, <1>3 DEF DeliveryInv, DeliveredOnly, UnresolvedHeld, WorkerHeld

LEMMA ResolveDelivery ==
  ASSUME IInv, DeliveryInv, QueuedBefore, NEW d \in Rows, ResolvePresent(d) \/ ResolveAbsent(d)
  PROVE  DeliveryInv'
  <1>1. /\ d \in Episodes
        /\ \A o \in Rows : status'[o] = status[o]
             \/ (o = d /\ status'[o] = "submitted" /\ verdict[o] = "present")
        /\ \A o \in Rows : verdict'[o] = IF o = d THEN "none" ELSE verdict[o]
        /\ UNCHANGED <<infohash, release, wpc, landed, unanswered>>
    BY DEF ResolvePresent, ResolveAbsent, Resolvable, RequestEnds, ProcessUnchanged, IInv,
           RowInv, VerdictInv, rowVars, qbVars
  <1> QED
    BY <1>1, RowSets
       DEF DeliveryInv, DeliveredOnly, UnresolvedHeld, RequestHeld, WorkerHeld, QueuedBefore

LEMMA RequeueDelivery ==
  ASSUME IInv, DeliveryInv, NEW m \in Manual, RequeueMissing(m)
  PROVE  DeliveryInv'
  <1>1. /\ m \in Rows /\ m \notin Episodes
        /\ \A o \in Rows : /\ status'[o] = IF o = m THEN "queued" ELSE status[o]
                           /\ o # m => infohash'[o] = infohash[o] /\ verdict'[o] = verdict[o]
        /\ UNCHANGED <<release, wpc, target, landed, unanswered>>
    BY RowSets, ManualAssumption
       DEF RequeueMissing, RequestEnds, ProcessUnchanged, IInv, RowInv, VerdictInv, subVars, qbVars
  <1> QED
    BY <1>1, RowSets DEF DeliveryInv, DeliveredOnly, UnresolvedHeld, RequestHeld, WorkerHeld


LEMMA EditsDelivery ==
  ASSUME IInv, C!IInv, DeliveryInv, QueuedBefore, UserEditsSubscription \/ UserEditsDownloads
  PROVE  DeliveryInv'
  <1>1. CASE DeleteSubscription \/ \E d \in Rows : DeleteRecord(d)
    BY <1>1, DropDelivery DEF DeleteSubscription, DeleteRecord, ProcessUnchanged
  <1>2. CASE \E e \in Episodes : CreateSubscription(e)
    BY <1>2, UnchangedDelivery
       DEF CreateSubscription, RowsUnchanged, ProcessUnchanged, rowVars, workerVars, qbVars
  <1>3. ASSUME NEW e \in Episodes, NEW reset \in BOOLEAN, NEW on \in BOOLEAN,
               UpdateSubscription(e, reset, on)
        PROVE  DeliveryInv'
    <2>1. CASE reset
      BY <1>3, <2>1, DropDelivery DEF UpdateSubscription, ProcessUnchanged
    <2>2. CASE ~reset
      BY <1>3, <2>2, UnchangedDelivery
         DEF UpdateSubscription, RowsUnchanged, ProcessUnchanged, rowVars, workerVars, qbVars
    <2> QED
      BY <2>1, <2>2
  <1>4. ASSUME NEW t \in Torrents, QueueLinked(t)
        PROVE  DeliveryInv'
    <2>1. Current \in Rows
      BY <1>4, RowSets DEF QueueLinked, IInv, SubInv
    <2> QED
      BY <1>4, <2>1, EnqueueDelivery DEF QueueLinked, ProcessUnchanged
  <1>5. ASSUME NEW m \in Manual, QueueManual(m)
        PROVE  DeliveryInv'
    BY <1>5, RowSets, EnqueueDelivery DEF QueueManual, ProcessUnchanged
  <1>6. CASE \E on \in BOOLEAN : SetEnabled(on)
    BY <1>6, UnchangedDelivery
       DEF SetEnabled, RowsUnchanged, ProcessUnchanged, rowVars, workerVars, qbVars
  <1> QED
    BY <1>1, <1>2, <1>3, <1>4, <1>5, <1>6, AskQbDelivery, ResolveDelivery, RequeueDelivery
       DEF UserEditsSubscription, UserEditsDownloads

(***************************************************************************)
(* Every step keeps the invariant.                                         *)
(***************************************************************************)
LEMMA ScanDelivery ==
  ASSUME IInv, DeliveryInv, QueuedBefore, NEW s \in Scanners, Scan(s)
  PROVE  DeliveryInv'
  <1>1. ASSUME NEW t \in Torrents, ScanEnqueue(s, t)
        PROVE  DeliveryInv'
    <2>1. Current \in Rows
      BY <1>1, OffersAssumption, RowSets DEF ScanEnqueue
    <2> QED
      BY <1>1, <2>1, EnqueueDelivery DEF ScanEnqueue, ProcessUnchanged
  <1>2. CASE ~\E t \in Torrents : ScanEnqueue(s, t)
    BY <1>2, UnchangedDelivery
       DEF Scan, ClaimSubscription, ScanRefresh, ScanDue, ScanComplete, ScanFinish, ScanFails,
           ScanDies, RowsUnchanged, ProcessUnchanged, rowVars, workerVars, qbVars
  <1> QED
    BY <1>1, <1>2

LEMMA EnvironmentDelivery ==
  ASSUME IInv, DeliveryInv, QueuedBefore,
         Qb \/ SubscriptionLeaseExpires \/ (\E d \in Rows : LeaseExpires(d)) \/ UNCHANGED vars
  PROVE  DeliveryInv'
  BY UnchangedDelivery
     DEF Qb, Land, Refuse, RemoveTorrent, QbUnchanged, SubscriptionLeaseExpires, LeaseExpires,
         vars, rowVars, workerVars, qbVars

LEMMA NextDelivery == IInv /\ C!IInv /\ DeliveryInv /\ [Next]_vars => DeliveryInv'
  BY NextQueuedBefore, ScanDelivery, ClaimDelivery, WorkerDelivery, EnvironmentDelivery,
     CrashDelivery, RecoverDelivery, EditsDelivery DEF Next

LEMMA AlwaysDelivery == Spec => [](IInv /\ C!IInv /\ DeliveryInv)
  <1>1. Init => DeliveryInv
    BY InitDelivery
  <1> QED
    BY <1>1, NextDelivery, AlwaysCursorIInv, PTL DEF Spec

(***************************************************************************)
(* The theorems.                                                           *)
(***************************************************************************)
(* A row is only recorded as submitted when qB really had its torrent,     *)
(* whatever was retried, lost, restarted or decided by the user.           *)
THEOREM SpecDeliveredOnly == Spec => []DeliveredOnly
  <1>1. DeliveryInv => DeliveredOnly
    BY DEF DeliveryInv
  <1> QED
    BY <1>1, AlwaysDelivery, PTL

(* A queued target is worked on, or its row failed with the infohash that  *)
(* the user can have qB asked for.                                         *)
THEOREM SpecQueuedTargetRecoverable == Spec => []QueuedTargetRecoverable
  <1>1. IInv /\ C!IInv /\ DeliveryInv => QueuedTargetRecoverable
    BY Coupled DEF DeliveryInv, UnresolvedHeld, QueuedTargetRecoverable
  <1> QED
    BY <1>1, AlwaysDelivery, PTL

(***************************************************************************)
(* Which steps reopen a queued target.                                     *)
(***************************************************************************)
LEMMA SettleReopensNone ==
  ASSUME IInv, NEW d \in Rows, NEW coverages, SettleTarget(d, coverages),
         NEW e \in Episodes, ReopenedNow(e)
  PROVE  FALSE
  <1>1. target \in [Episodes -> TargetStatus] /\ target[e] = "queued"
    BY DEF IInv, SubInv, ReopenedNow
  <1>2. CASE d \in Manual \/ d # Current
    BY <1>1, <1>2 DEF SettleTarget, ReopenedNow
  <1>3. CASE d \notin Manual /\ d = Current
    <2>1. d \in Episodes
      BY <1>3 DEF Rows
    <2>2. PICK coverage \in coverages : \E c \in CursorAfter(target, d, coverage) :
            target' = TargetsAfter(target, d, coverage, c)
      BY <1>3 DEF SettleTarget
    <2>3. PICK c \in CursorAfter(target, d, coverage) :
            target' = TargetsAfter(target, d, coverage, c)
      BY <2>2
    <2>4. target'[e] \in {"submitted", "queued"}
      BY <1>1, <2>1, <2>3, SubmitShape
    <2> QED
      BY <2>4 DEF ReopenedNow
  <1> QED
    BY <1>2, <1>3

LEMMA WorkerReopens ==
  ASSUME IInv, C!IInv, DeliveryInv, NEW d \in Rows, Worker(d),
         NEW e \in Episodes, e \in unanswered, ReopenedNow(e)
  PROVE  status[e] = "fetching"
  <1>1. target' # target
    BY DEF ReopenedNow
  <1>2. ~MarkSubmitted(d) /\ ~MarkQbPresent(d)
    BY SettleReopensNone DEF MarkSubmitted, MarkQbPresent
  <1>3. PICK absent \in BOOLEAN :
          /\ ReleaseAfterError(d, absent)
          /\ absent => wpc[d] = "denied"
    <2>1. WorkerFails(d) \/ ReleaseAbsent(d)
      BY <1>1, <1>2
         DEF Worker, FetchedPresent, FetchedAbsent, ReconciledPresent, ReconciledAbsent,
             MarkSubmitting, SendTorrent, AnswerPresent, AnswerAbsent, AnswerUnknown,
             RestoreSubmitted, SendRestored, RestoredPresent, RestoredAbsent, RestoredUnknown,
             RecordUnknown, WorkerDies, WorkerGoes, subVars
    <2> QED
      BY <2>1 DEF WorkerFails, ReleaseAbsent
  <1> DEFINE lost == {r \in {d} : StatusAfterError(r, absent) = "failed" /\ KnownAbsent(r, absent)}
  <1>4. target' = [n \in Episodes |-> IF n \in Reopened(lost) THEN "pending" ELSE target[n]]
    BY <1>1, <1>3 DEF ReleaseAfterError, ReopenTargets, subVars
  <1>5. e \in lost
    BY <1>4 DEF ReopenedNow, Reopened
  <1>6. e = d /\ KnownAbsent(d, absent)
    BY <1>5
  <1>7. wpc[d] # "denied"
    BY <1>6 DEF DeliveryInv, WorkerHeld
  <1> QED
    BY <1>3, <1>6, <1>7 DEF KnownAbsent

LEMMA RecoverReopens ==
  ASSUME Recover, NEW e \in Episodes, ReopenedNow(e)
  PROVE  status[e] = "fetching"
  <1>1. PICK D : target' = [n \in Episodes |-> IF n \in Reopened(Lost(D)) THEN "pending" ELSE target[n]]
    BY DEF Recover, RecoverOrphanSubscription, RecoverOrphanDownloads, RecoverExpired,
           ReopenTargets, ReopenedNow
  <1>2. e \in Lost(D)
    BY <1>1 DEF ReopenedNow, Reopened
  <1> QED
    BY <1>2 DEF Lost

LEMMA ScanReopensNone ==
  ASSUME IInv, NEW s \in Scanners, Scan(s), NEW e \in Episodes, ReopenedNow(e)
  PROVE  FALSE
  <1>1. target \in [Episodes -> TargetStatus] /\ target[e] = "queued"
    BY DEF IInv, SubInv, ReopenedNow
  <1>2. ASSUME NEW known \in 0 .. LastEpisode, NEW terminal \in BOOLEAN,
               ScanRefresh(s, known, terminal)
        PROVE  FALSE
    <2>1. PlanTvTargets(start, known, terminal) \in
            [Episodes -> TargetStatus \ {"queued", "submitted"}]
      BY PlanShape, LastEpisodeAssumption DEF IInv, SubInv
    <2>2. target'[e] = "queued"
      BY <1>1, <1>2, <2>1, SyncShape DEF ScanRefresh
    <2> QED
      BY <2>2 DEF ReopenedNow
  <1>3. ASSUME NEW t \in Torrents, ScanEnqueue(s, t)
        PROVE  FALSE
    BY <1>1, <1>3 DEF ScanEnqueue, ReopenedNow
  <1> QED
    BY <1>1, <1>2, <1>3
       DEF Scan, ClaimSubscription, ScanDue, ScanComplete, ScanFinish, ScanFails, ScanDies,
           subVars, ReopenedNow

LEMMA EditsReopenNone ==
  ASSUME IInv, C!IInv, DeliveryInv, UserEditsSubscription \/ UserEditsDownloads,
         NEW e \in Episodes, e \in unanswered, ReopenedNow(e)
  PROVE  FALSE
  <1>1. /\ target \in [Episodes -> TargetStatus]
        /\ target[e] = "queued" /\ target'[e] \in {"pending", "metadata_pending"}
    BY DEF IInv, SubInv, ReopenedNow
  <1>2. state # "absent"
    BY <1>1, SameEpisodes DEF C!IInv, C!AbsentEmpty
  <1>3. ASSUME NEW n \in Episodes, NEW reset \in BOOLEAN, NEW on \in BOOLEAN,
               UpdateSubscription(n, reset, on)
        PROVE  FALSE
    <2>1. CASE reset
      <3>1. PICK r \in ResetTargets(target, n) : target' = PlaceCursor(r, n)
        BY <1>3, <2>1 DEF UpdateSubscription
      <3>2. r \in [Episodes -> TargetStatus]
        BY <1>1, PlaceShape
      <3>3. r[e] = "queued"
        BY <1>1 DEF ResetTargets
      <3> QED
        BY <1>1, <3>1, <3>2, <3>3 DEF PlaceCursor
    <2>2. CASE ~reset
      BY <1>1, <1>3, <2>2 DEF UpdateSubscription, PlaceCursor
    <2> QED
      BY <2>1, <2>2
  <1>4. ASSUME NEW d \in Rows, ResolvePresent(d) \/ ResolveAbsent(d)
        PROVE  FALSE
    <2>1. ResolveAbsent(d)
      BY <1>4, SettleReopensNone DEF ResolvePresent
    <2>2. e = d /\ verdict[e] # "none"
      BY <1>1, <2>1 DEF ResolveAbsent, ReopenTargets, Reopened
    <2> QED
      BY <2>2 DEF DeliveryInv, RequestHeld
  <1>5. CASE UserEditsSubscription
    BY <1>1, <1>2, <1>3, <1>5
       DEF UserEditsSubscription, CreateSubscription, SetEnabled, DeleteSubscription
  <1>6. CASE UserEditsDownloads
    BY <1>1, <1>4, <1>6
       DEF UserEditsDownloads, QueueLinked, QueueManual, RequeueMissing, AskQb, RequestDropped,
           DeleteRecord, subVars
  <1> QED
    BY <1>5, <1>6

(* Once a row entered "submitting", nobody reopens its target while it is  *)
(* unknown whether qB took the torrent.                                    *)
THEOREM SpecUnknownSubmissionHolds == Spec => UnknownSubmissionHolds
  <1>1. ASSUME IInv, C!IInv, DeliveryInv, [Next]_vars, NEW e \in Episodes \cap unanswered,
               ReopenedNow(e)
        PROVE  status[e] = "fetching"
    <2>1. target' # target
      BY <1>1 DEF ReopenedNow
    <2>2. \/ \E s \in Scanners : Scan(s)
          \/ \E d \in Rows : Worker(d)
          \/ Recover
          \/ UserEditsSubscription \/ UserEditsDownloads
      BY <1>1, <2>1
         DEF Next, ClaimDownloads, LeaseExpires, SubscriptionLeaseExpires, Crash, Qb, Land, Refuse,
             RemoveTorrent, QbUnchanged, vars, subVars
    <2> QED
      BY <1>1, <2>2, ScanReopensNone, WorkerReopens, RecoverReopens, EditsReopenNone
  <1>2. IInv /\ C!IInv /\ DeliveryInv /\ [Next]_vars =>
          [\A e \in Episodes \cap unanswered : ReopenedNow(e) => status[e] = "fetching"]_vars
    BY <1>1
  <1> QED
    BY <1>2, AlwaysDelivery, PTL DEF Spec, UnknownSubmissionHolds
=============================================================================
