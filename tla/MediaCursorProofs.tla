------------------------- MODULE MediaCursorProofs --------------------------
(***************************************************************************)
(* The properties of MediaCursor hold for seasons of any length, whatever  *)
(* the sites offer, and for movies.                                        *)
(***************************************************************************)
EXTENDS MediaCursor, MediaTargetsProofs

(***************************************************************************)
(* The inductive invariant.  CursorOpen is not inductive: the step that    *)
(* submits a target may leave the cursor on the first uncovered episode    *)
(* whatever its status, and only Frontier says that this is not a          *)
(* submitted one.                                                          *)
(***************************************************************************)

(* Behind every submitted target there is one still to do, or one that was *)
(* skipped, unless the whole range of episode numbers was submitted.       *)
Frontier(tgt) ==
  tgt[LastEpisode] # "submitted" =>
    \A n \in Episodes :
      tgt[n] = "submitted" =>
        \E m \in Episodes : m > n /\ tgt[m] \notin {"none", "submitted"}

CursorNamed == state = "active" => Current \in Episodes

AbsentEmpty == state = "absent" => \A e \in Episodes : target[e] = "none"

MovieOpen == Movie /\ state = "active" => target[1] # "submitted"

IInv ==
  /\ TypeOK
  /\ CursorNamed
  /\ AbsentEmpty
  /\ MovieOpen
  /\ Frontier(target)
  /\ QueuedHasWork
  /\ ActiveIsCurrent
  /\ SubmittedRowSubmittedTarget
  /\ CursorOpen

(* A submission keeps a frontier, and the cursor stands on an open target. *)
LEMMA SubmitFrontier ==
  ASSUME NEW tgt \in [Episodes -> TargetStatus], NEW e \in Episodes, NEW coverage,
         NEW c \in CursorAfter(tgt, e, coverage), Frontier(tgt),
         TargetsAfter(tgt, e, coverage, c)[LastEpisode] # "submitted"
  PROVE  /\ Frontier(TargetsAfter(tgt, e, coverage, c))
         /\ c # Done => TargetsAfter(tgt, e, coverage, c)[c] \notin {"none", "submitted"}
  <1> DEFINE new == TargetsAfter(tgt, e, coverage, c)
             covered == Covered(tgt, e, coverage)
             open == OpenAfter(AfterSubmit(tgt, e, coverage), e)
             rest == UncoveredAfter(tgt, e, coverage)
  <1>1. /\ c \in {Done} \cup Episodes
        /\ c # Done => c > e /\ c \notin covered
        /\ new \in [Episodes -> TargetStatus]
        /\ \A n \in Episodes :
             new[n] = IF n = e \/ n \in covered THEN "submitted"
                      ELSE IF n = c /\ tgt[n] = "none" THEN "metadata_pending" ELSE tgt[n]
    BY SubmitShape
  <1>2. covered \subseteq Episodes /\ rest \subseteq Episodes
    BY DEF Covered, UncoveredAfter
  <1>3. tgt[LastEpisode] # "submitted" /\ LastEpisode # e /\ LastEpisode \notin covered
    BY <1>1, LastEpisodeNumber
  <1>4. ~Movie
    BY <1>3, MovieOneEpisode
  <1>5. LastEpisode \in rest
    BY <1>3, LastEpisodeNumber, LastEpisodeAssumption DEF UncoveredAfter, Episodes
  <1>6. \A s \in Episodes, k \in covered : s > e /\ s \notin covered => k < s
    BY CoveredBelow
  <1>7. c # Done => new[c] \notin {"none", "submitted"}
    <2> SUFFICES ASSUME c # Done PROVE new[c] \notin {"none", "submitted"}
      OBVIOUS
    <2>1. CASE c \in open
      BY <2>1, <1>1 DEF OpenAfter, AfterSubmit, OpenStatus
    <2>2. CASE c \notin open
      <3>1. /\ open = {}
            /\ \A n \in rest : tgt[n] # "skipped"
            /\ c \in Least(rest)
        BY <2>2, <1>4 DEF CursorAfter, Least
      <3>2. c \in Episodes /\ c > e /\ c # e /\ c \notin covered /\ c \in rest
        BY <1>1, <3>1, LastEpisodeNumber DEF Least
      <3>3. tgt[c] \notin OpenStatus /\ tgt[c] # "skipped"
        BY <3>1, <3>2 DEF OpenAfter, AfterSubmit
      <3>4. tgt[c] # "submitted"
        <4> SUFFICES ASSUME tgt[c] = "submitted" PROVE FALSE
          OBVIOUS
        <4>1. PICK m \in Episodes : m > c /\ tgt[m] \notin {"none", "submitted"}
          BY <1>3, <3>2 DEF Frontier
        <4>2. m > e /\ m # e /\ m \notin covered
          BY <1>6, <3>2, <4>1, LastEpisodeNumber
        <4>3. m \in rest /\ tgt[m] \notin OpenStatus
          BY <3>1, <4>2 DEF UncoveredAfter, OpenAfter, AfterSubmit
        <4> QED
          BY <3>1, <4>1, <4>3 DEF TargetStatus, OpenStatus
      <3> QED
        BY <1>1, <3>2, <3>3, <3>4 DEF TargetStatus, OpenStatus
    <2> QED
      BY <2>1, <2>2
  <1>8. \E s \in Episodes : s > e /\ s \notin covered /\ new[s] \notin {"none", "submitted"}
    <2>1. CASE c # Done
      BY <2>1, <1>1, <1>7
    <2>2. CASE c = Done
      <3>1. open = {} /\ \E n \in rest : tgt[n] = "skipped"
        BY <2>2, <1>4, <1>5, LastEpisodeNumber DEF CursorAfter, Least, OpenAfter, UncoveredAfter, Done
      <3>2. PICK s \in rest : tgt[s] = "skipped"
        BY <3>1
      <3> QED
        BY <3>2, <1>1, <1>2, LastEpisodeNumber DEF UncoveredAfter
    <2> QED
      BY <2>1, <2>2
  <1>9. ASSUME NEW n \in Episodes, new[n] = "submitted"
        PROVE  \E m \in Episodes : m > n /\ new[m] \notin {"none", "submitted"}
    <2>1. PICK s \in Episodes : s > e /\ s \notin covered /\ new[s] \notin {"none", "submitted"}
      BY <1>8
    <2>2. \A k \in covered \cup {e} : k < s
      BY <2>1, <1>6, LastEpisodeNumber
    <2>3. CASE n \in covered \cup {e}
      BY <2>1, <2>2, <2>3, LastEpisodeNumber
    <2>4. CASE n \notin covered \cup {e}
      <3>1. tgt[n] = "submitted"
        BY <1>1, <1>9, <2>4
      <3>2. PICK m \in Episodes : m > n /\ tgt[m] \notin {"none", "submitted"}
        BY <3>1, <1>3 DEF Frontier
      <3>3. CASE m \in covered \cup {e}
        BY <3>2, <3>3, <2>1, <2>2, LastEpisodeNumber
      <3>4. CASE m \notin covered \cup {e}
        BY <3>2, <3>4, <1>1
      <3> QED
        BY <3>3, <3>4
    <2> QED
      BY <2>3, <2>4
  <1> QED
    BY <1>7, <1>9 DEF Frontier

(***************************************************************************)
(* Every step keeps the invariant.                                         *)
(***************************************************************************)
LEMMA InitIInv == Init => IInv
  BY LastEpisodeNumber, LastEpisodeAssumption
     DEF Init, IInv, TypeOK, CursorNamed, AbsentEmpty, MovieOpen, Frontier, QueuedHasWork,
         ActiveIsCurrent, SubmittedRowSubmittedTarget, CursorOpen, SubscriptionState,
         TargetStatus, WorkStatus, Episodes

LEMMA CreateIInv ==
  ASSUME IInv, NEW e \in Episodes, Create(e)
  PROVE  IInv'
  <1>1. /\ target' \in [Episodes -> TargetStatus \ {"queued", "submitted"}]
        /\ target'[e] # "none"
    BY CreateShape DEF Create
  <1>2. \A n \in Episodes : work'[n] \notin {"active", "unresolved", "submitted"}
    BY DEF Create, IInv, AbsentEmpty, QueuedHasWork, SubmittedRowSubmittedTarget
  <1>3. TypeOK' /\ CursorNamed' /\ AbsentEmpty'
    BY <1>1, MovieOneEpisode
       DEF Create, IInv, TypeOK, CursorNamed, AbsentEmpty, Current, SubscriptionState
  <1>4. Frontier(target)'
    BY <1>1 DEF Frontier
  <1>5. MovieOpen' /\ CursorOpen'
    BY <1>1, MovieOneEpisode DEF Create, MovieOpen, CursorOpen, Current
  <1>6. QueuedHasWork' /\ ActiveIsCurrent' /\ SubmittedRowSubmittedTarget'
    BY <1>1, <1>2 DEF QueuedHasWork, ActiveIsCurrent, SubmittedRowSubmittedTarget
  <1> QED
    BY <1>3, <1>4, <1>5, <1>6 DEF IInv

LEMMA DeleteIInv ==
  ASSUME IInv, Delete
  PROVE  IInv'
  BY LastEpisodeNumber, LastEpisodeAssumption
     DEF Delete, IInv, TypeOK, CursorNamed, AbsentEmpty, MovieOpen, Frontier, QueuedHasWork,
         ActiveIsCurrent, SubmittedRowSubmittedTarget, CursorOpen, SubscriptionState,
         TargetStatus, WorkStatus, Episodes

LEMMA EnqueueIInv ==
  ASSUME IInv, NEW e \in Episodes, Enqueue(e)
  PROVE  IInv'
  <1>1. TypeOK' /\ CursorNamed' /\ AbsentEmpty' /\ MovieOpen'
    BY MovieOneEpisode
       DEF Enqueue, IInv, TypeOK, CursorNamed, AbsentEmpty, MovieOpen, Current,
           TargetStatus, WorkStatus
  <1>2. Frontier(target)'
    BY LastEpisodeNumber DEF Enqueue, IInv, TypeOK, Frontier
  <1>3. QueuedHasWork' /\ ActiveIsCurrent' /\ SubmittedRowSubmittedTarget' /\ CursorOpen'
    BY LastEpisodeNumber
       DEF Enqueue, IInv, TypeOK, QueuedHasWork, ActiveIsCurrent, CursorOpen, Current,
           SubmittedRowSubmittedTarget
  <1> QED
    BY <1>1, <1>2, <1>3 DEF IInv

LEMMA SubmitIInv ==
  ASSUME IInv, NEW e \in Episodes, NEW coverage, Submit(e, coverage)
  PROVE  IInv'
  <1> DEFINE covered == Covered(target, e, coverage)
  <1>1. /\ target \in [Episodes -> TargetStatus]
        /\ state = "active" /\ e = Current
        /\ Frontier(target)
    BY DEF Submit, IInv, TypeOK
  <1>2. PICK c \in CursorAfter(target, e, coverage) :
          /\ cursor' = c
          /\ state' = IF c = Done THEN "completed" ELSE "active"
          /\ target' = TargetsAfter(target, e, coverage, c)
    BY DEF Submit
  <1>3. /\ c \in {Done} \cup Episodes
        /\ Movie => c = Done
        /\ c # Done => c > e /\ c \notin covered
        /\ target' \in [Episodes -> TargetStatus]
        /\ \A n \in Episodes :
             target'[n] = IF n = e \/ n \in covered THEN "submitted"
                          ELSE IF n = c /\ target[n] = "none" THEN "metadata_pending"
                          ELSE target[n]
    BY <1>1, <1>2, SubmitShape
  <1>4. target'[LastEpisode] # "submitted" =>
          Frontier(target') /\ (c # Done => target'[c] \notin {"none", "submitted"})
    BY <1>1, <1>2, SubmitFrontier
  <1>5. \A n \in covered : target[n] # "queued"
    <2> SUFFICES ASSUME NEW n \in covered PROVE target[n] # "queued"
      OBVIOUS
    <2>1. n \in (e + 1) .. n
      BY LastEpisodeNumber DEF Covered
    <2> QED
      BY <2>1 DEF Covered
  <1>6. /\ work' = [work EXCEPT ![e] = "submitted"]
        /\ start' = start
    BY DEF Submit
  <1>7. TypeOK' /\ CursorNamed' /\ AbsentEmpty' /\ MovieOpen'
    BY <1>2, <1>3, <1>6, LastEpisodeNumber
       DEF IInv, TypeOK, CursorNamed, AbsentEmpty, MovieOpen, Current, SubscriptionState,
           WorkStatus
  <1>8. Frontier(target)'
    BY <1>4 DEF Frontier
  <1>9. QueuedHasWork'
    BY <1>3, <1>5, <1>6 DEF IInv, TypeOK, QueuedHasWork
  <1>10. ActiveIsCurrent'
    BY <1>1, <1>6 DEF IInv, TypeOK, ActiveIsCurrent
  <1>11. SubmittedRowSubmittedTarget'
    BY <1>3, <1>6 DEF IInv, TypeOK, SubmittedRowSubmittedTarget
  <1>12. CursorOpen'
    <2>1. SUFFICES ASSUME c # Done PROVE CursorOpen'
      BY <1>2 DEF CursorOpen
    <2>2. Current' = c /\ c \in Episodes /\ c # e /\ c \notin covered
      BY <1>2, <1>3, <2>1, LastEpisodeNumber DEF Current
    <2>3. target'[c] # "none"
      BY <1>3, <2>2
    <2> QED
      BY <1>4, <2>1, <2>2, <2>3 DEF CursorOpen
  <1> QED
    BY <1>7, <1>8, <1>9, <1>10, <1>11, <1>12 DEF IInv

LEMMA ReopenIInv ==
  ASSUME IInv, NEW e \in Episodes, Reopen(e)
  PROVE  IInv'
  <1>1. target[e] = "queued"
    BY DEF Reopen, IInv, QueuedHasWork
  <1>2. TypeOK' /\ CursorNamed' /\ AbsentEmpty' /\ MovieOpen'
    BY MovieOneEpisode
       DEF Reopen, IInv, TypeOK, CursorNamed, AbsentEmpty, MovieOpen, Current,
           TargetStatus, WorkStatus
  <1>3. Frontier(target)'
    BY <1>1, LastEpisodeNumber DEF Reopen, IInv, TypeOK, Frontier
  <1>4. QueuedHasWork' /\ ActiveIsCurrent' /\ SubmittedRowSubmittedTarget' /\ CursorOpen'
    BY <1>1, LastEpisodeNumber
       DEF Reopen, IInv, TypeOK, QueuedHasWork, ActiveIsCurrent, CursorOpen, Current,
           SubmittedRowSubmittedTarget
  <1> QED
    BY <1>2, <1>3, <1>4 DEF IInv

LEMMA GiveUpIInv ==
  ASSUME IInv, NEW e \in Episodes, GiveUp(e)
  PROVE  IInv'
  BY DEF GiveUp, IInv, TypeOK, CursorNamed, AbsentEmpty, MovieOpen, Frontier, QueuedHasWork,
         ActiveIsCurrent, SubmittedRowSubmittedTarget, CursorOpen, Current, WorkStatus

LEMMA RefreshIInv ==
  ASSUME IInv, NEW known \in 0 .. LastEpisode, NEW terminal \in BOOLEAN,
         Refresh(known, terminal)
  PROVE  IInv'
  <1> DEFINE plan == PlanTvTargets(start, known, terminal)
  <1>1. /\ plan \in [Episodes -> TargetStatus \ {"queued", "submitted"}]
        /\ target \in [Episodes -> TargetStatus]
    BY PlanShape DEF IInv, TypeOK
  <1>2. target' = SyncTargets(target, plan)
    BY DEF Refresh
  <1>3. /\ target' \in [Episodes -> TargetStatus]
        /\ \A n \in Episodes : /\ target'[n] = "queued" <=> target[n] = "queued"
                               /\ target'[n] = "submitted" <=> target[n] = "submitted"
                               /\ target[n] # "none" => target'[n] # "none"
    <2> HIDE DEF plan
    <2> QED
      BY <1>1, <1>2, SyncShape
  <1>4. state = "active" /\ ~Movie /\ target[cursor] \in {"pending", "metadata_pending"}
    BY DEF Refresh
  <1>5. UNCHANGED <<state, cursor, start, work>>
    BY DEF Refresh
  <1>6. TypeOK' /\ CursorNamed' /\ AbsentEmpty' /\ MovieOpen'
    BY <1>3, <1>4, <1>5
       DEF IInv, TypeOK, CursorNamed, AbsentEmpty, MovieOpen, Current
  <1>7. Frontier(target)'
    BY <1>3, LastEpisodeNumber DEF IInv, Frontier
  <1>8. QueuedHasWork' /\ ActiveIsCurrent' /\ SubmittedRowSubmittedTarget' /\ CursorOpen'
    BY <1>3, <1>4, <1>5
       DEF IInv, QueuedHasWork, ActiveIsCurrent, SubmittedRowSubmittedTarget, CursorOpen,
           CursorNamed, Current
  <1> QED
    BY <1>6, <1>7, <1>8 DEF IInv

LEMMA CompleteIInv ==
  ASSUME IInv, Complete
  PROVE  IInv'
  <1>1. \A n \in Episodes : work[n] # "active"
    BY DEF Complete, IInv, QueuedHasWork, ActiveIsCurrent, Current
  <1> QED
    BY <1>1
       DEF Complete, IInv, TypeOK, CursorNamed, AbsentEmpty, MovieOpen, Frontier,
           QueuedHasWork, ActiveIsCurrent, SubmittedRowSubmittedTarget, CursorOpen,
           SubscriptionState, Done

(* The cursor on an open target, with no work anywhere else.               *)
LEMMA MoveCursorIInv ==
  ASSUME IInv, NEW e \in Episodes, NEW reset \in BOOLEAN, MoveCursor(e, reset)
  PROVE  IInv'
  <1>1. /\ state' = "active" /\ cursor' = e /\ start' = e
        /\ Current' = e
        /\ CursorMovable(e)
        /\ target \in [Episodes -> TargetStatus]
        /\ work \in [Episodes -> WorkStatus]
    BY MovieOneEpisode DEF MoveCursor, Current, IInv, TypeOK
  <1>2. \A n \in Episodes : work[n] = "active" => n = e
    <2> SUFFICES ASSUME NEW n \in Episodes, work[n] = "active", n # e
                 PROVE  FALSE
      OBVIOUS
    <2>1. n = Current /\ target[n] = "queued"
      BY DEF IInv, ActiveIsCurrent, QueuedHasWork
    <2> QED
      BY <1>1, <2>1 DEF CursorMovable
  <1>3. CASE ~reset
    <2>1. /\ work' = work
          /\ target' = [target EXCEPT ![e] = IF @ = "queued" THEN "queued" ELSE FreshStatus]
      BY <1>3 DEF MoveCursor, PlaceCursor
    <2>2. target[e] # "submitted"
      <3>1. CASE Movie
        BY <3>1, <1>3, MovieOneEpisode
           DEF MoveCursor, IInv, TypeOK, SubscriptionState, MovieOpen
      <3>2. CASE ~Movie
        BY <3>2, <1>3 DEF MoveCursor
      <3> QED
        BY <3>1, <3>2
    <2>3. /\ target' \in [Episodes -> TargetStatus]
          /\ target'[e] \in {"queued", "pending", "metadata_pending"}
          /\ target'[e] = "queued" <=> target[e] = "queued"
          /\ \A n \in Episodes \ {e} : target'[n] = target[n]
      BY <1>1, <2>1 DEF FreshStatus, TargetStatus
    <2>4. Frontier(target)'
      BY <2>2, <2>3, LastEpisodeNumber DEF IInv, Frontier
    <2>5. TypeOK' /\ CursorNamed' /\ AbsentEmpty' /\ MovieOpen' /\ CursorOpen'
      BY <1>1, <2>1, <2>3, MovieOneEpisode
         DEF IInv, TypeOK, CursorNamed, AbsentEmpty, MovieOpen, CursorOpen, SubscriptionState
    <2>6. QueuedHasWork' /\ ActiveIsCurrent' /\ SubmittedRowSubmittedTarget'
      BY <1>1, <1>2, <2>1, <2>2, <2>3
         DEF IInv, QueuedHasWork, ActiveIsCurrent, SubmittedRowSubmittedTarget
    <2> QED
      BY <2>4, <2>5, <2>6 DEF IInv
  <1>4. CASE reset
    <2>1. /\ ~Movie
          /\ \A n \in e .. LastEpisode : target[n] # "queued" /\ work[n] # "active"
          /\ work' = [n \in Episodes |-> IF n >= e /\ target[n] # "none"
                                            THEN "none" ELSE work[n]]
      BY <1>4 DEF MoveCursor
    <2>2. PICK r \in ResetTargets(target, e) : target' = PlaceCursor(r, e)
      BY <1>4 DEF MoveCursor
    <2>3. /\ r \in [Episodes -> TargetStatus]
          /\ \A n \in Episodes :
               r[n] = target[n] \/ (n >= e /\ r[n] \in {"pending", "metadata_pending"})
          /\ \A n \in Episodes : n >= e => r[n] # "submitted"
      BY <1>1, <2>2, PlaceShape
    <2>4. /\ target' \in [Episodes -> TargetStatus]
          /\ target'[e] \in {"queued", "pending", "metadata_pending"}
          /\ target'[e] = "queued" <=> r[e] = "queued"
          /\ \A n \in Episodes \ {e} : target'[n] = r[n]
      BY <2>2, <2>3 DEF PlaceCursor, FreshStatus, TargetStatus
    <2>5. \A n \in Episodes : n >= e => n \in e .. LastEpisode
      BY LastEpisodeAssumption DEF Episodes
    <2>6. \A n \in Episodes : n >= e \/ n < e
      BY LastEpisodeNumber
    <2>7. Frontier(target)'
      BY <2>3, <2>4, <2>6, LastEpisodeNumber DEF Frontier
    <2>8. TypeOK' /\ CursorNamed' /\ AbsentEmpty' /\ MovieOpen' /\ CursorOpen'
      BY <1>1, <2>1, <2>4
         DEF IInv, TypeOK, CursorNamed, AbsentEmpty, MovieOpen, CursorOpen,
             SubscriptionState, WorkStatus
    <2>9. \A n \in Episodes : n >= e => /\ target'[n] # "queued"
                                        /\ work'[n] \in {"none", "failed"}
      BY <1>1, <2>1, <2>3, <2>4, <2>5
         DEF IInv, QueuedHasWork, SubmittedRowSubmittedTarget, WorkStatus
    <2>10. \A n \in Episodes : n < e => target'[n] = target[n] /\ work'[n] = work[n]
      BY <2>1, <2>3, <2>4, LastEpisodeNumber
    <2>11. QueuedHasWork' /\ SubmittedRowSubmittedTarget'
      BY <2>6, <2>9, <2>10 DEF IInv, QueuedHasWork, SubmittedRowSubmittedTarget
    <2>12. ActiveIsCurrent'
      BY <1>1, <1>2, <2>6, <2>9, <2>10 DEF ActiveIsCurrent
    <2> QED
      BY <2>7, <2>8, <2>11, <2>12 DEF IInv
  <1> QED
    BY <1>3, <1>4

LEMMA DeleteRecordIInv ==
  ASSUME IInv, NEW e \in Episodes, DeleteRecord(e)
  PROVE  IInv'
  <1>1. /\ work[e] \in {"failed", "submitted"}
        /\ work' = [work EXCEPT ![e] = "none"]
        /\ target \in [Episodes -> TargetStatus]
        /\ work \in [Episodes -> WorkStatus]
        /\ target[e] # "queued"
    BY DEF DeleteRecord, IInv, TypeOK, QueuedHasWork
  <1>2. CASE target[e] = "submitted"
    <2>1. /\ \A n \in Episodes : work[n] # "active"
          /\ target' = [target EXCEPT ![e] = FreshStatus]
          /\ cursor' = e /\ start' = e /\ state' = "active" /\ Current' = e
      BY <1>2, MovieOneEpisode DEF DeleteRecord, Current
    <2>2. /\ target' \in [Episodes -> TargetStatus]
          /\ target'[e] \in {"pending", "metadata_pending"}
          /\ \A n \in Episodes \ {e} : target'[n] = target[n]
      BY <1>1, <2>1 DEF FreshStatus, TargetStatus
    <2>3. Frontier(target)'
      <3>1. CASE e = LastEpisode
        BY <3>1, <2>2, LastEpisodeAssumption DEF Frontier, Episodes
      <3>2. CASE e # LastEpisode
        BY <3>2, <1>2, <2>2, LastEpisodeNumber DEF IInv, Frontier
      <3> QED
        BY <3>1, <3>2
    <2>4. TypeOK' /\ CursorNamed' /\ AbsentEmpty' /\ MovieOpen' /\ CursorOpen'
      BY <1>1, <2>1, <2>2, MovieOneEpisode
         DEF IInv, TypeOK, CursorNamed, AbsentEmpty, MovieOpen, CursorOpen,
             SubscriptionState, WorkStatus
    <2>5. QueuedHasWork' /\ ActiveIsCurrent' /\ SubmittedRowSubmittedTarget'
      BY <1>1, <2>1, <2>2
         DEF IInv, QueuedHasWork, ActiveIsCurrent, SubmittedRowSubmittedTarget
    <2> QED
      BY <2>3, <2>4, <2>5 DEF IInv
  <1>3. CASE target[e] # "submitted"
    BY <1>1, <1>3
       DEF DeleteRecord, IInv, TypeOK, CursorNamed, AbsentEmpty, MovieOpen, Frontier,
           QueuedHasWork, ActiveIsCurrent, SubmittedRowSubmittedTarget, CursorOpen, Current,
           WorkStatus
  <1> QED
    BY <1>2, <1>3

LEMMA NextIInv == IInv /\ [Next]_cursorVars => IInv'
  <1> SUFFICES ASSUME IInv, [Next]_cursorVars PROVE IInv'
    OBVIOUS
  <1>1. CASE Next
    BY <1>1, CreateIInv, DeleteIInv, EnqueueIInv, SubmitIInv, ReopenIInv, GiveUpIInv,
       RefreshIInv, CompleteIInv, MoveCursorIInv, DeleteRecordIInv DEF Next
  <1>2. CASE UNCHANGED cursorVars
    BY <1>2
       DEF cursorVars, IInv, TypeOK, CursorNamed, AbsentEmpty, MovieOpen, Frontier,
           QueuedHasWork, ActiveIsCurrent, SubmittedRowSubmittedTarget, CursorOpen, Current
  <1> QED
    BY <1>1, <1>2

LEMMA AlwaysIInv == Spec => []IInv
  BY InitIInv, NextIInv, PTL DEF Spec

(***************************************************************************)
(* The theorems.                                                           *)
(***************************************************************************)
(* The columns of a subscription keep their types: a submission past the   *)
(* end of the number range never stores a cursor outside it.               *)
THEOREM SpecTypeOK == Spec => []TypeOK
  <1>1. IInv => TypeOK
    BY DEF IInv
  <1> QED
    BY <1>1, AlwaysIInv, PTL

(* A target is queued exactly while the outbox holds unfinished work for   *)
(* it: no edit, refresh or deletion separates the two.                     *)
THEOREM SpecQueuedHasWork == Spec => []QueuedHasWork
  <1>1. IInv => QueuedHasWork
    BY DEF IInv
  <1> QED
    BY <1>1, AlwaysIInv, PTL

(* The outbox works on at most one target of a subscription, the one its   *)
(* cursor names.                                                           *)
THEOREM SpecActiveIsCurrent == Spec => []ActiveIsCurrent
  <1>1. IInv => ActiveIsCurrent
    BY DEF IInv
  <1> QED
    BY <1>1, AlwaysIInv, PTL

(* What was delivered stays recorded in the target table: no refresh or    *)
(* edit reopens a target whose row is still submitted.                     *)
THEOREM SpecSubmittedRowSubmittedTarget == Spec => []SubmittedRowSubmittedTarget
  <1>1. IInv => SubmittedRowSubmittedTarget
    BY DEF IInv
  <1> QED
    BY <1>1, AlwaysIInv, PTL

(* The cursor of an active subscription names an existing target that was  *)
(* not submitted, unless the last episode number was.                      *)
THEOREM SpecCursorOpen == Spec => []CursorOpen
  <1>1. IInv => CursorOpen
    BY DEF IInv
  <1> QED
    BY <1>1, AlwaysIInv, PTL
=============================================================================
