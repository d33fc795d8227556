---------------------------- MODULE MediaTargets ----------------------------
(***************************************************************************)
(* The target table of one media subscription and the pure functions that  *)
(* move its cursor.  A TV subscription has one target per episode of one   *)
(* season; a movie subscription has the single target 1.  Seasons and      *)
(* absolute numbering are constant for a subscription and are left out of  *)
(* the target key.                                                         *)
(***************************************************************************)
EXTENDS Naturals

CONSTANTS
  LastEpisode,  \* the largest episode number a cursor holds (u32::MAX in the code)
  Torrents,     \* the torrents the configured sites can offer
  Offers,       \* Offers[t]: the episodes the title of torrent t announces
  Movie         \* TRUE for a movie subscription

ASSUME LastEpisodeAssumption == LastEpisode \in Nat \ {0}
ASSUME MovieAssumption == Movie \in BOOLEAN /\ (Movie => LastEpisode = 1)

Episodes == 1 .. LastEpisode

ASSUME OffersAssumption == Offers \in [Torrents -> SUBSET Episodes]

(* next_episode = NULL: the subscription is completed.                     *)
Done == 0

TargetStatus == {"none", "pending", "metadata_pending", "queued", "submitted", "skipped"}

OpenStatus == {"pending", "metadata_pending", "queued"}

(***************************************************************************)
(* Multi-episode coverage.  A title that announces a single episode covers *)
(* nothing else, and neither does a release the user queued against the    *)
(* decision of the rules: the recorded decision is data the model does not *)
(* keep, so a submission has either coverage.                              *)
(***************************************************************************)
Announced(t) == IF \E a, b \in Offers[t] : a # b THEN Offers[t] ELSE {}

NoCoverage == {}

Coverages(t) == {NoCoverage, Announced(t)}

(* The episodes after e that the submission of e also settles: the         *)
(* contiguous run of announced episodes that starts at e, cut before the   *)
(* first target that is queued or skipped.                                 *)
Covered(tgt, e, coverage) ==
  {n \in Episodes :
     /\ n > e
     /\ \A m \in e .. n : m \in coverage
     /\ \A m \in (e + 1) .. n : tgt[m] \notin {"queued", "skipped"}}

AfterSubmit(tgt, e, coverage) ==
  [n \in Episodes |->
     IF n = e \/ n \in Covered(tgt, e, coverage) THEN "submitted" ELSE tgt[n]]

Least(S) == {n \in S : \A m \in S : n <= m}

OpenAfter(tgt, e) == {n \in Episodes : n > e /\ tgt[n] \in OpenStatus}

UncoveredAfter(tgt, e, coverage) ==
  {n \in Episodes : n > e /\ n \notin Covered(tgt, e, coverage)}

(* Mutant: the end of the number range is not checked.                     *)
CursorAfterUnchecked(tgt, e, coverage) ==
  LET open == OpenAfter(AfterSubmit(tgt, e, coverage), e)
  IN  IF Movie THEN {Done} ELSE IF open # {} THEN Least(open) ELSE {e + 1}

(* The cursor once e was submitted, as a one-element set: the next open    *)
(* target, or Done when a skipped frontier or the end of the number range  *)
(* says there is nothing more, or the first uncovered episode.             *)
CursorAfter(tgt, e, coverage) ==
  LET open == OpenAfter(AfterSubmit(tgt, e, coverage), e)
      rest == UncoveredAfter(tgt, e, coverage)
  IN  IF Movie THEN {Done}
      ELSE IF open # {} THEN Least(open)
      ELSE IF rest = {} \/ \E n \in rest : tgt[n] = "skipped" THEN {Done}
      ELSE Least(rest)

(* Mutant: the frontier target is not created.                             *)
TargetsAfterWithoutFrontier(tgt, e, coverage, c) == AfterSubmit(tgt, e, coverage)

(* The targets once the cursor moved to c: a missing frontier is created,  *)
(* an existing row is left alone (INSERT OR IGNORE).                       *)
TargetsAfter(tgt, e, coverage, c) ==
  LET after == AfterSubmit(tgt, e, coverage)
  IN  [n \in Episodes |->
         IF n = c /\ after[n] = "none" THEN "metadata_pending" ELSE after[n]]

(***************************************************************************)
(* TMDB planning.  known is the last episode TMDB lists, terminal says     *)
(* that the season cannot grow.                                            *)
(***************************************************************************)
PlanAccepted(start, known, terminal) ==
  IF known < start THEN ~terminal ELSE known < LastEpisode \/ terminal

PlanTvTargets(start, known, terminal) ==
  [n \in Episodes |->
     IF known < start
       THEN IF n = start THEN "metadata_pending" ELSE "none"
       ELSE IF n \in start .. known THEN "pending"
       ELSE IF n = known + 1 THEN IF terminal THEN "skipped" ELSE "metadata_pending"
       ELSE "none"]

(* The targets a new subscription may start with.                          *)
CreatePlans(e) ==
  IF Movie
    THEN {[n \in Episodes |-> "pending"]}
    ELSE {PlanTvTargets(e, p[1], p[2]) :
            p \in {q \in (e - 1 .. LastEpisode) \X BOOLEAN : PlanAccepted(e, q[1], q[2])}}

(* Mutant: a refresh also resets targets that were submitted.              *)
SyncTargetsAfresh(tgt, plan) ==
  [n \in Episodes |-> IF plan[n] # "none" /\ tgt[n] # "queued" THEN plan[n] ELSE tgt[n]]

(* What a refresh does to the stored targets: planned rows take the plan's *)
(* status unless work on them began, open rows outside the plan are        *)
(* skipped.                                                                *)
SyncTargets(tgt, plan) ==
  [n \in Episodes |->
     IF plan[n] # "none"
       THEN IF tgt[n] \in {"queued", "submitted"} THEN tgt[n] ELSE plan[n]
       ELSE IF tgt[n] \in {"pending", "metadata_pending"} THEN "skipped" ELSE tgt[n]]

(***************************************************************************)
(* User edits.                                                             *)
(***************************************************************************)
(* reset_download_history from episode e on.  Whether a reopened target    *)
(* still has an air date (pending) or not (metadata_pending) is data the   *)
(* model does not keep.                                                    *)
ResetTargets(tgt, e) ==
  {[n \in Episodes |->
      IF n >= e /\ tgt[n] = "submitted"
        THEN IF n \in dated THEN "pending" ELSE "metadata_pending"
        ELSE tgt[n]] : dated \in SUBSET (e .. LastEpisode)}

FreshStatus == IF Movie THEN "pending" ELSE "metadata_pending"

(* Mutant: the upsert forgets that the destination may be queued.          *)
PlaceCursorAfresh(tgt, e) == [tgt EXCEPT ![e] = FreshStatus]

(* The upsert of the destination target when the cursor is edited.         *)
PlaceCursor(tgt, e) ==
  [tgt EXCEPT ![e] = IF @ = "queued" THEN "queued" ELSE FreshStatus]
=============================================================================
