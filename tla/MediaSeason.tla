---------------------------- MODULE MediaSeason -----------------------------
(***************************************************************************)
(* MediaCursor together with what TMDB said about the season so far.  A TV *)
(* subscription that is completed no longer looks for episodes, so a scan  *)
(* should complete it only when the season is known to be over.  To judge  *)
(* the pipeline alone, TMDB is well-behaved here: it never takes back an   *)
(* episode that it listed.                                                 *)
(***************************************************************************)
EXTENDS MediaCursor

VARIABLES
  listed,   \* the last episode TMDB listed
  ended     \* TMDB said that the season is over

seasonVars == <<cursorVars, listed, ended>>

SeasonInit == Init /\ listed = 0 /\ ended = FALSE

CreateSeason(e, known, terminal) ==
  /\ ~Movie /\ Create(e)
  /\ target' = PlanTvTargets(e, known, terminal)
  /\ listed' = known /\ ended' = terminal

RefreshSeason(known, terminal) ==
  /\ known >= listed
  /\ Refresh(known, terminal)
  /\ listed' = known /\ ended' = (ended \/ terminal)

SeasonUnchanged ==
  /\ \/ Delete
     \/ \E e \in Episodes : Enqueue(e) \/ Reopen(e) \/ GiveUp(e) \/ DeleteRecord(e)
     \/ \E e \in Episodes, t \in Torrents : \E coverage \in Coverages(t) : Submit(e, coverage)
     \/ \E e \in Episodes, reset \in BOOLEAN : MoveCursor(e, reset)
     \/ Complete
  /\ UNCHANGED <<listed, ended>>

SeasonNext ==
  \/ \E known \in 0 .. LastEpisode, terminal \in BOOLEAN :
       RefreshSeason(known, terminal) \/ \E e \in Episodes : CreateSeason(e, known, terminal)
  \/ SeasonUnchanged

SeasonSpec == SeasonInit /\ [][SeasonNext]_seasonVars

(* doc/auto-media-design.md: a skipped frontier records the evidence TMDB  *)
(* gave that the season is over, and the subscription is stopped at the    *)
(* end of the season.  So a scan only completes a subscription when TMDB   *)
(* said that the season is over.                                           *)
CompletedOnEvidence ==
  [][state = "active" /\ state' = "completed" /\ work' = work => ended]_seasonVars
=============================================================================
