---------------------------- MODULE MediaCursor -----------------------------
(***************************************************************************)
(* What the media outbox promises about one subscription: the targets, the *)
(* cursor and, per target, the state of the delivery work, each operation  *)
(* an atomic step.  Leases, workers, qBittorrent and the process live in   *)
(* MediaPipeline, which implements this specification.                     *)
(*                                                                         *)
(*   work[e] = "none"        the outbox has no row for episode e           *)
(*             "active"      a row the scheduler still works on            *)
(*             "unresolved"  the row failed, nobody knows whether qB has   *)
(*                           the torrent; only the user can settle it      *)
(*             "failed"      the row failed and the torrent is absent      *)
(*             "submitted"   the torrent is in qB                          *)
(***************************************************************************)
EXTENDS MediaTargets

VARIABLES
  state,    \* "absent", "active" or "completed"
  cursor,   \* next_episode, Done when the subscription has no cursor
  start,    \* start_episode
  target,   \* status of each target row
  work      \* state of the outbox row of each target

cursorVars == <<state, cursor, start, target, work>>

SubscriptionState == {"absent", "active", "completed"}

WorkStatus == {"none", "active", "unresolved", "failed", "submitted"}

(* The target the subscription's key names.  A movie's key has no episode, *)
(* so it keeps naming the movie after completion.                          *)
Current == IF Movie THEN 1 ELSE cursor

Init ==
  /\ state = "absent"
  /\ cursor = Done
  /\ start = 1
  /\ target = [e \in Episodes |-> "none"]
  /\ work = [e \in Episodes |-> "none"]

(***************************************************************************)
(* create_subscription: with a TMDB plan, or with one pending target.      *)
(***************************************************************************)
Create(e) ==
  /\ state = "absent"
  /\ state' = "active"
  /\ cursor' = e
  /\ start' = e
  /\ target' \in CreatePlans(e)
  /\ UNCHANGED work

Delete ==
  /\ state # "absent"
  /\ state' = "absent"
  /\ cursor' = Done
  /\ start' = 1
  /\ target' = [e \in Episodes |-> "none"]
  /\ work' = [e \in Episodes |-> "none"]

Enqueue(e) ==
  /\ state = "active"
  /\ e = Current
  /\ target[e] = "pending"
  /\ work[e] \in {"none", "failed"}
  /\ target' = [target EXCEPT ![e] = "queued"]
  /\ work' = [work EXCEPT ![e] = "active"]
  /\ UNCHANGED <<state, cursor, start>>

(* The torrent of the row of e is in qB: the targets it covers are         *)
(* submitted and the cursor leaves them.                                   *)
Submit(e, coverage) ==
  /\ work[e] \in {"active", "unresolved"}
  /\ state = "active"
  /\ e = Current
  /\ work' = [work EXCEPT ![e] = "submitted"]
  /\ \E c \in CursorAfter(target, e, coverage) :
       /\ cursor' = c
       /\ state' = IF c = Done THEN "completed" ELSE "active"
       /\ target' = TargetsAfter(target, e, coverage, c)
  /\ UNCHANGED start

(* The torrent is known to be absent: the target may be searched again.    *)
Reopen(e) ==
  /\ work[e] \in {"active", "unresolved"}
  /\ e = Current
  /\ state = "active"
  /\ work' = [work EXCEPT ![e] = "failed"]
  /\ target' = [target EXCEPT ![e] = "pending"]
  /\ UNCHANGED <<state, cursor, start>>

(* Every attempt is used up and the last submission was never answered.    *)
GiveUp(e) ==
  /\ work[e] = "active"
  /\ work' = [work EXCEPT ![e] = "unresolved"]
  /\ UNCHANGED <<state, cursor, start, target>>

Refresh(known, terminal) ==
  /\ state = "active"
  /\ ~Movie
  /\ target[cursor] \in {"pending", "metadata_pending"}
  /\ PlanAccepted(start, known, terminal)
  /\ target' = SyncTargets(target, PlanTvTargets(start, known, terminal))
  /\ UNCHANGED <<state, cursor, start, work>>

Complete ==
  /\ state = "active"
  /\ ~Movie
  /\ target[cursor] = "skipped"
  /\ state' = "completed"
  /\ cursor' = Done
  /\ UNCHANGED <<start, target, work>>

(* Mutant: only the destination is checked.                                *)
CursorMovableAway(e) == e # Current => target[e] # "queued"

(* The cursor neither leaves nor enters a target with unfinished work.     *)
CursorMovable(e) ==
  e # Current =>
    /\ target[e] # "queued"
    /\ Current \in Episodes => target[Current] # "queued"

(* update_subscription: the user edits the rules and places the cursor on  *)
(* e, with reset_download_history or without it.                           *)
MoveCursor(e, reset) ==
  /\ state # "absent"
  /\ Movie => state # "completed" /\ ~reset
  /\ CursorMovable(e)
  /\ IF reset
       THEN /\ \A n \in e .. LastEpisode : target[n] # "queued" /\ work[n] # "active"
            /\ \E r \in ResetTargets(target, e) : target' = PlaceCursor(r, e)
            /\ work' = [n \in Episodes |-> IF n >= e /\ target[n] # "none"
                                             THEN "none" ELSE work[n]]
       ELSE /\ ~Movie => target[e] # "submitted"
            /\ target' = PlaceCursor(target, e)
            /\ UNCHANGED work
  /\ cursor' = e
  /\ start' = e
  /\ state' = "active"

(* delete_media_download_record of a settled row.  The row of a submitted  *)
(* target takes the cursor back to it.                                     *)
DeleteRecord(e) ==
  /\ work[e] \in {"failed", "submitted"}
  /\ work' = [work EXCEPT ![e] = "none"]
  /\ IF target[e] = "submitted"
       THEN /\ \A n \in Episodes : work[n] # "active"
            /\ target' = [target EXCEPT ![e] = FreshStatus]
            /\ cursor' = e
            /\ start' = e
            /\ state' = "active"
       ELSE UNCHANGED <<state, cursor, start, target>>

Next ==
  \/ \E e \in Episodes : Create(e)
  \/ Delete
  \/ \E e \in Episodes : Enqueue(e)
  \/ \E e \in Episodes, t \in Torrents : \E coverage \in Coverages(t) : Submit(e, coverage)
  \/ \E e \in Episodes : Reopen(e)
  \/ \E e \in Episodes : GiveUp(e)
  \/ \E known \in 0 .. LastEpisode, terminal \in BOOLEAN : Refresh(known, terminal)
  \/ Complete
  \/ \E e \in Episodes, reset \in BOOLEAN : MoveCursor(e, reset)
  \/ \E e \in Episodes : DeleteRecord(e)

Spec == Init /\ [][Next]_cursorVars

(***************************************************************************)
(* Properties.                                                             *)
(***************************************************************************)

(* Every variable keeps to its type; in particular a submission at the end *)
(* of the episode numbers stores no cursor beyond them.                    *)
TypeOK ==
  /\ state \in SubscriptionState
  /\ cursor \in {Done} \cup Episodes
  /\ start \in Episodes
  /\ target \in [Episodes -> TargetStatus]
  /\ work \in [Episodes -> WorkStatus]

(* A target is queued exactly while the outbox holds unfinished work for   *)
(* it: enqueueing, settling, refreshing, editing and deleting never        *)
(* separate the two tables, so no target waits for work nobody does.       *)
QueuedHasWork ==
  \A e \in Episodes : target[e] = "queued" <=> work[e] \in {"active", "unresolved"}

(* The scheduler works on one target at a time, the one the cursor names:  *)
(* no edit takes the cursor away from a download that still runs.          *)
ActiveIsCurrent ==
  \A e \in Episodes : work[e] = "active" => state = "active" /\ e = Current

(* An episode whose row is submitted is never wanted again: no refresh or  *)
(* edit reopens its target while the row is kept.                          *)
SubmittedRowSubmittedTarget ==
  \A e \in Episodes : work[e] = "submitted" => target[e] = "submitted"

(* The cursor of an active subscription names an existing target that was  *)
(* not submitted, unless the episode numbers are used up: completed work,  *)
(* packs included, never leaves the cursor where no scan can go on.        *)
CursorOpen ==
  state = "active" =>
    /\ target[Current] # "none"
    /\ target[Current] = "submitted" => target[LastEpisode] = "submitted"
=============================================================================
