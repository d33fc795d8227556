------------------------- MODULE MediaTargetsProofs -------------------------
(***************************************************************************)
(* What the functions of MediaTargets return, for seasons of any length.   *)
(***************************************************************************)
EXTENDS MediaTargets, TLAPS

LEMMA LastEpisodeNumber == LastEpisode \in Episodes /\ Episodes \subseteq Nat \ {0}
  BY LastEpisodeAssumption DEF Episodes

LEMMA MovieOneEpisode == Movie => Episodes = {1} /\ LastEpisode = 1
  BY MovieAssumption DEF Episodes

(* An episode after e that the submission leaves open lies behind all the  *)
(* covered ones.                                                           *)
LEMMA CoveredBelow ==
  ASSUME NEW tgt, NEW e \in Episodes, NEW coverage,
         NEW s \in Episodes, s > e, s \notin Covered(tgt, e, coverage),
         NEW k \in Covered(tgt, e, coverage)
  PROVE  k < s
  <1>1. k \in Nat /\ s \in Nat /\ e \in Nat
    BY LastEpisodeNumber DEF Covered
  <1> SUFFICES ASSUME s <= k PROVE FALSE
    BY <1>1
  <1>2. \A m \in e .. s : m \in e .. k
    BY <1>1
  <1>3. \A m \in (e + 1) .. s : m \in (e + 1) .. k
    BY <1>1
  <1> QED
    BY <1>2, <1>3 DEF Covered

(* What the targets and the cursor are after a submission.                 *)
LEMMA SubmitShape ==
  ASSUME NEW tgt \in [Episodes -> TargetStatus], NEW e \in Episodes, NEW coverage,
         NEW c \in CursorAfter(tgt, e, coverage)
  PROVE  /\ c \in {Done} \cup Episodes
         /\ Movie => c = Done
         /\ c # Done => c > e /\ c \notin Covered(tgt, e, coverage)
         /\ TargetsAfter(tgt, e, coverage, c) \in [Episodes -> TargetStatus]
         /\ \A n \in Episodes :
              TargetsAfter(tgt, e, coverage, c)[n] =
                IF n = e \/ n \in Covered(tgt, e, coverage) THEN "submitted"
                ELSE IF n = c /\ tgt[n] = "none" THEN "metadata_pending" ELSE tgt[n]
  <1> DEFINE after == AfterSubmit(tgt, e, coverage)
  <1>1. /\ after \in [Episodes -> TargetStatus]
        /\ \A n \in Episodes :
             after[n] = IF n = e \/ n \in Covered(tgt, e, coverage) THEN "submitted" ELSE tgt[n]
    BY DEF AfterSubmit, TargetStatus
  <1>2. /\ c \in {Done} \cup Episodes
        /\ Movie => c = Done
        /\ c # Done => \/ c \in OpenAfter(after, e)
                       \/ c \in UncoveredAfter(tgt, e, coverage)
    BY DEF CursorAfter, Least, OpenAfter, UncoveredAfter
  <1>3. c # Done => c > e /\ c \notin Covered(tgt, e, coverage)
    BY <1>1, <1>2 DEF OpenAfter, UncoveredAfter, OpenStatus
  <1>4. /\ TargetsAfter(tgt, e, coverage, c) \in [Episodes -> TargetStatus]
        /\ \A n \in Episodes :
             TargetsAfter(tgt, e, coverage, c)[n] =
               IF n = c /\ after[n] = "none" THEN "metadata_pending" ELSE after[n]
    BY <1>1 DEF TargetsAfter, TargetStatus
  <1> QED
    BY <1>1, <1>2, <1>3, <1>4

(* The plans of a new subscription.                                        *)
LEMMA PlanShape ==
  ASSUME NEW e \in Episodes, NEW known \in Nat, NEW terminal \in BOOLEAN
  PROVE  PlanTvTargets(e, known, terminal) \in
           [Episodes -> TargetStatus \ {"queued", "submitted"}]
  BY DEF PlanTvTargets, TargetStatus

LEMMA CreateShape ==
  ASSUME NEW e \in Episodes, NEW plan \in CreatePlans(e)
  PROVE  /\ plan \in [Episodes -> TargetStatus \ {"queued", "submitted"}]
         /\ plan[e] # "none"
  <1>1. CASE Movie
    BY <1>1 DEF CreatePlans, TargetStatus
  <1>2. CASE ~Movie
    <2>1. PICK p \in (e - 1 .. LastEpisode) \X BOOLEAN :
            PlanAccepted(e, p[1], p[2]) /\ plan = PlanTvTargets(e, p[1], p[2])
      BY <1>2 DEF CreatePlans
    <2>2. p[1] \in Nat /\ p[2] \in BOOLEAN /\ e \in Nat
      BY LastEpisodeNumber, LastEpisodeAssumption
    <2>3. plan[e] # "none"
      BY <2>1, <2>2 DEF PlanTvTargets
    <2> QED
      BY <2>1, <2>2, <2>3, PlanShape
  <1> QED
    BY <1>1, <1>2

(* What a refresh keeps: work that began, what was submitted, and every    *)
(* stored row.                                                             *)
LEMMA SyncShape ==
  ASSUME NEW tgt \in [Episodes -> TargetStatus],
         NEW plan \in [Episodes -> TargetStatus \ {"queued", "submitted"}]
  PROVE  /\ SyncTargets(tgt, plan) \in [Episodes -> TargetStatus]
         /\ \A n \in Episodes :
              /\ SyncTargets(tgt, plan)[n] = "queued" <=> tgt[n] = "queued"
              /\ SyncTargets(tgt, plan)[n] = "submitted" <=> tgt[n] = "submitted"
              /\ tgt[n] # "none" => SyncTargets(tgt, plan)[n] # "none"
  BY DEF SyncTargets, TargetStatus

(* Placing the cursor, after a reset or without one, keeps the types.      *)
LEMMA PlaceShape ==
  ASSUME NEW tgt \in [Episodes -> TargetStatus], NEW e \in Episodes
  PROVE  /\ PlaceCursor(tgt, e) \in [Episodes -> TargetStatus]
         /\ \A r \in ResetTargets(tgt, e) :
              /\ r \in [Episodes -> TargetStatus]
              /\ \A n \in Episodes :
                   r[n] = tgt[n] \/ (n >= e /\ r[n] \in {"pending", "metadata_pending"})
              /\ \A n \in Episodes : n >= e => r[n] # "submitted"
  BY DEF PlaceCursor, ResetTargets, FreshStatus, TargetStatus
=============================================================================
