----------------------------- MODULE QbHandover -----------------------------
(***************************************************************************)
(* The part of a manual relocation that follows the copy: the torrent is   *)
(* exported, leaves the source qBittorrent, is added to the target one     *)
(* (which may be the same), is checked and started there, and only then    *)
(* are the source files removed, one at a time behind a checkpoint.        *)
(***************************************************************************)
EXTENDS OpenListCopy

VARIABLES
  qb,       \* the torrent: in the source qBittorrent, and at the target place
  removal,  \* what became of the request to remove a file
  removals  \* history: such requests, by job and file

qbVars == <<qb, removal, removals>>

(* listed; deleted and still listed for a while; gone.                     *)
SourceStates == {"listed", "leaving", "gone"}

(* astray: in the target qBittorrent, and not where the job wants it.      *)
TargetStates == {"none", "astray", "paused", "checking", "complete", "incomplete", "seeding"}

QbInit ==
  /\ qb = [j \in Jobs |-> [src |-> "listed", tgt |-> "none"]]
  /\ removal = [j \in Jobs |-> [f \in AllFiles |-> "none"]]
  /\ removals = [j \in Jobs |-> [f \in AllFiles |-> 0]]

(* What the target qBittorrent lists.  One that is also the source lists   *)
(* the torrent at its old place until it has let go of it.                 *)
Listed(j) == IF setup[j].same /\ qb[j].src # "gone" THEN "astray" ELSE qb[j].tgt

Complete(j) == Listed(j) \in {"complete", "seeding"}

Lists(j) == qb' = [qb EXCEPT ![j].tgt = "paused"]

At(j, stage) == Working(j, {stage}) /\ Manual(j)

Becomes(j, stage) == Decide(j, Moved(job[j], stage))

QbUnchanged == UNCHANGED <<copyVars, qbVars>>

RemovalsUnchanged == UNCHANGED <<copyVars, removal, removals>>

-----------------------------------------------------------------------------
(* Up to the torrent's being in the target qBittorrent.                    *)

(* Mutant: the exported torrent is used and not kept.                      *)
KeptNever(row) == row

(* ensure_exported_torrent_data puts it into the row.                      *)
Kept(row) == [row EXCEPT !.exported = TRUE]

Exportable(j) == job[j].exported \/ qb[j].src # "gone"

Export(j) ==
  /\ At(j, "copy_verified")
  /\ Exportable(j)
  /\ Decide(j, Kept(Moved(job[j], "qb_reconcile")))
  /\ QbUnchanged

(* classify_qb_reconcile.                                                  *)
Classified(j) ==
  IF setup[j].same /\ qb[j].src # "gone" THEN "torrent_exported"
  ELSE IF Listed(j) = "none" THEN "source_qb_removed"
  ELSE IF Listed(j) = "astray" THEN "qb_manual_review"
  ELSE "target_qb_submitted"

(* Without the torrent's data nothing is rebuilt in the same qBittorrent.  *)
QbReconcile(j) ==
  /\ At(j, "qb_reconcile")
  /\ Classified(j) \in {"torrent_exported", "source_qb_removed"} /\ ~setup[j].same => Exportable(j)
  /\ Decide(j,
       IF Classified(j) = "source_qb_removed" /\ setup[j].same /\ ~job[j].exported
         THEN Moved(job[j], "qb_manual_review")
       ELSE IF Classified(j) \in {"torrent_exported", "source_qb_removed"}
         THEN Kept(Moved(job[j], Classified(j)))
       ELSE Moved(job[j], Classified(j)))
  /\ QbUnchanged

(* The same qBittorrent: the torrent leaves its old place first.           *)
DeleteAndAdd(j) ==
  /\ At(j, "torrent_exported")
  /\ setup[j].same
  /\ qb' = IF Classified(j) = "torrent_exported" THEN [qb EXCEPT ![j].src = "leaving"] ELSE qb
  /\ Becomes(j, IF Classified(j) = "torrent_exported" THEN "source_qb_removed" ELSE Classified(j))
  /\ RemovalsUnchanged

KeepSource(j) ==
  /\ At(j, "torrent_exported")
  /\ ~setup[j].same
  /\ Becomes(j, "source_qb_removed")
  /\ QbUnchanged

(* It is in the target qBittorrent already; one that is still leaving its  *)
(* old place gets time.                                                    *)
TargetListed(j) ==
  /\ At(j, "source_qb_removed")
  /\ Listed(j) # "none"
  /\ \E stage \in IF Listed(j) # "astray" THEN {"target_qb_submitted"}
                   ELSE IF setup[j].same THEN {"source_qb_removed", "qb_manual_review"}
                   ELSE {"qb_manual_review"} : Becomes(j, stage)
  /\ QbUnchanged

(* add_torrent, and the list that shows it; when the list does not show it *)
(* the pass fails.                                                         *)
AddToTarget(j) ==
  /\ At(j, "source_qb_removed")
  /\ Listed(j) = "none"
  /\ job[j].exported
  /\ Lists(j)
  /\ Becomes(j, "target_qb_submitted")
  /\ RemovalsUnchanged

-----------------------------------------------------------------------------
(* The check at the target.                                                *)

Misplaced(j) == Listed(j) \in {"none", "astray"}

(* A check of its own is awaited; otherwise one is asked for, and it may   *)
(* not show in the time it is looked for.                                  *)
AskForCheck(j) ==
  /\ At(j, "target_qb_submitted")
  /\ IF Misplaced(j) \/ Listed(j) = "checking"
       THEN /\ Becomes(j, IF Misplaced(j) THEN "qb_manual_review" ELSE "target_qb_checking")
            /\ UNCHANGED qb
       ELSE /\ qb' = [qb EXCEPT ![j].tgt = "checking"]
            /\ \E stage \in {"target_qb_checking", "target_qb_check_requested"} :
                 Becomes(j, stage)
  /\ RemovalsUnchanged

(* What qBittorrent said of it before the check is not used.               *)
AwaitCheck(j) ==
  /\ At(j, "target_qb_check_requested")
  /\ \E stage \in IF Misplaced(j) THEN {"qb_manual_review"}
                   ELSE IF Listed(j) = "checking" THEN {"target_qb_checking"}
                   ELSE {"qb_manual_review", "target_qb_check_requested"} : Becomes(j, stage)
  /\ QbUnchanged

CheckOpen(j) ==
  /\ At(j, "target_qb_checking")
  /\ ~Complete(j)
  /\ \E stage \in IF Listed(j) = "checking" THEN {"target_qb_checking", "qb_manual_review"}
                   ELSE {"qb_manual_review"} : Becomes(j, stage)
  /\ QbUnchanged

(* start_torrent: it seeds at once, or after a while.                      *)
CheckPassed(j) ==
  /\ At(j, "target_qb_checking")
  /\ Complete(j)
  /\ \E tgt \in {qb[j].tgt, "seeding"} : qb' = [qb EXCEPT ![j].tgt = tgt]
  /\ Becomes(j, "target_qb_starting")
  /\ RemovalsUnchanged

AwaitSeeding(j) ==
  /\ At(j, "target_qb_starting")
  /\ Listed(j) # "seeding"
  /\ \E stage \in IF Complete(j) THEN {"target_qb_starting", "qb_manual_review"}
                   ELSE {"qb_manual_review"} : Becomes(j, stage)
  /\ QbUnchanged

(* Mutant: the removal begins where the copy ended.                        *)
SeedingFromTheEnd(j) ==
  /\ At(j, "target_qb_starting")
  /\ Listed(j) = "seeding"
  /\ Decide(j, Without(Moved(job[j], "source_removing")))
  /\ QbUnchanged

Seeding(j) ==
  /\ At(j, "target_qb_starting")
  /\ Listed(j) = "seeding"
  /\ Decide(j, [Without(Moved(job[j], "source_removing")) EXCEPT !.cursor = 0])
  /\ QbUnchanged


-----------------------------------------------------------------------------
(* source_removing.                                                        *)

Removing(j) == At(j, "source_removing") /\ Listed(j) = "seeding"

TargetLost(j) ==
  /\ At(j, "source_removing")
  /\ Listed(j) # "seeding"
  /\ Becomes(j, "source_remove_manual_review")
  /\ QbUnchanged

(* Another qBittorrent: the torrent leaves the source one, in the pass     *)
(* that goes on to the files.                                              *)
DropFromSource(j) ==
  /\ Removing(j)
  /\ ~setup[j].same
  /\ qb[j].src = "listed"
  /\ qb' = [qb EXCEPT ![j].src = "leaving"]
  /\ UNCHANGED jobVars
  /\ RemovalsUnchanged

(* verify_openlist_manifest: all files are at the target, by name and size.*)
AllThere(j) ==
  /\ Removing(j)
  /\ setup[j].same \/ qb[j].src # "listed"
  /\ dir[j]
  /\ \A f \in Files(j) : target[j][f] \in {"same", "other"}

AllRemoved(j) ==
  /\ AllThere(j)
  /\ job[j].cursor = setup[j].files
  /\ Decide(j, Without(Moved(job[j], "source_removed")))
  /\ QbUnchanged

SharedFile(j) ==
  /\ AllThere(j)
  /\ NextFile(j) \in Files(j) \cap setup[j].shared
  /\ Decide(j, [job[j] EXCEPT !.ck = NoCk, !.cursor = @ + 1])
  /\ QbUnchanged

OwnFile(j) == AllThere(j) /\ NextFile(j) \in Files(j) \ setup[j].shared

(* Mutant: the file is compared by name and size only.                     *)
ProvenBySize(j, f) == target[j][f] # "absent"

(* validated_manifest_removal: the source file is removed only while its   *)
(* hash is that of the file at the target; otherwise the pass fails.       *)
Proven(j, f) == setup[j].hashed /\ target[j][f] = "same"

FileGone(j) ==
  /\ OwnFile(j)
  /\ NextFile(j) \notin source[j]
  /\ Decide(j, [job[j] EXCEPT !.ck = NoCk, !.cursor = @ + 1])
  /\ QbUnchanged

(* Asked for already and still there: never asked for again.               *)
RemovalUncertain(j) ==
  /\ OwnFile(j)
  /\ NextFile(j) \in source[j]
  /\ Proven(j, NextFile(j))
  /\ job[j].ck.op = "RemoveFile"
  /\ \E stage \in {"source_removing", "source_remove_manual_review"} : Becomes(j, stage)
  /\ QbUnchanged

(* Mutant: a removal is asked for again when the file is still there.      *)
UnaskedAlways(j) == TRUE

Unasked(j) == job[j].ck.op # "RemoveFile"

CheckpointRemoval(j) ==
  /\ OwnFile(j)
  /\ NextFile(j) \in source[j]
  /\ Proven(j, NextFile(j))
  /\ Unasked(j)
  /\ Owns(j)
  /\ job' = [job EXCEPT ![j].ck = [op |-> "RemoveFile", phase |-> "Uncertain"]]
  /\ worker' = [worker EXCEPT !.pc = "sending", !.next = [job'[j] EXCEPT !.leased = FALSE]]
  /\ UNCHANGED <<setup, config>>
  /\ QbUnchanged

InRemoval(j) ==
  worker.pc = "sending" /\ worker.job = j /\ worker.next.ck.op = "RemoveFile"

(* The proof is made once more.                                            *)
SendRemoval(j) ==
  /\ InRemoval(j)
  /\ InHand \in source[j]
  /\ Proven(j, InHand)
  /\ removal' = [removal EXCEPT ![j][InHand] = "flying"]
  /\ removals' = [removals EXCEPT ![j][InHand] = IF @ < 2 THEN @ + 1 ELSE @]
  /\ worker' = [worker EXCEPT !.pc = "decided"]
  /\ UNCHANGED <<setup, config, job, copyVars, qb>>

RemovalUnneeded(j) ==
  /\ InRemoval(j)
  /\ InHand \notin source[j]
  /\ worker' = [worker EXCEPT !.pc = "decided"]
  /\ UNCHANGED <<setup, config, job>>
  /\ QbUnchanged

Finish(j) ==
  /\ At(j, "source_removed")
  /\ Decide(j, [Moved(job[j], "completed") EXCEPT !.exported = FALSE])
  /\ QbUnchanged

QbPass(j) ==
  \/ Export(j) \/ QbReconcile(j) \/ DeleteAndAdd(j) \/ KeepSource(j)
  \/ TargetListed(j) \/ AddToTarget(j) \/ AskForCheck(j) \/ AwaitCheck(j)
  \/ CheckOpen(j) \/ CheckPassed(j) \/ AwaitSeeding(j) \/ Seeding(j)
  \/ TargetLost(j) \/ DropFromSource(j) \/ AllRemoved(j) \/ SharedFile(j) \/ FileGone(j)
  \/ RemovalUncertain(j) \/ CheckpointRemoval(j) \/ SendRemoval(j) \/ RemovalUnneeded(j)
  \/ Finish(j)

-----------------------------------------------------------------------------
(* qBittorrent and OpenList.                                               *)

Leaves(j) ==
  /\ qb[j].src = "leaving"
  /\ qb' = [qb EXCEPT ![j].src = "gone"]
  /\ UNCHANGED jobVars
  /\ RemovalsUnchanged

(* The check finds the torrent complete when all files are the source's.   *)
Checked(j) ==
  /\ qb[j].tgt = "checking"
  /\ qb' = [qb EXCEPT ![j].tgt =
       IF \A f \in Files(j) : target[j][f] = "same" THEN "complete" ELSE "incomplete"]
  /\ UNCHANGED jobVars
  /\ RemovalsUnchanged

StartsSeeding(j) ==
  /\ qb[j].tgt = "complete"
  /\ qb' = [qb EXCEPT ![j].tgt = "seeding"]
  /\ UNCHANGED jobVars
  /\ RemovalsUnchanged

(* Somebody adds the torrent to the target qBittorrent beforehand, for     *)
(* another place.                                                          *)
AddElsewhere(j) ==
  /\ worker.pc = "idle"
  /\ job[j].stage = "copy_verified"
  /\ ~setup[j].same
  /\ qb[j].tgt = "none"
  /\ qb' = [qb EXCEPT ![j].tgt = "astray"]
  /\ UNCHANGED jobVars
  /\ RemovalsUnchanged

(* Somebody deletes it there, between two passes that work on it.          *)
Mislay(j) ==
  /\ worker.pc = "idle"
  /\ job[j].stage \in TargetQbStages \ {"qb_reconcile", "source_removed"}
  /\ qb[j].tgt # "none"
  /\ qb' = [qb EXCEPT ![j].tgt = "none"]
  /\ UNCHANGED jobVars
  /\ RemovalsUnchanged

(* A request to remove a file arrives, or is lost.                         *)
Remove(j, f) ==
  /\ removal[j][f] = "flying"
  /\ removal' = [removal EXCEPT ![j][f] = "none"]
  /\ source' = [source EXCEPT ![j] = @ \ {f}]
  /\ UNCHANGED <<jobVars, dir, target, op, sent, qb, removals>>

LoseRemoval(j, f) ==
  /\ removal[j][f] = "flying"
  /\ removal' = [removal EXCEPT ![j][f] = "none"]
  /\ UNCHANGED <<jobVars, copyVars, qb, removals>>

(* Between two passes somebody replaces a file at the target by another    *)
(* one of its size, while its source is there and not being removed.       *)
Replace(j, f) ==
  /\ worker.pc = "idle"
  /\ job[j].stage \in TargetQbStages
  /\ target[j][f] = "same"
  /\ f \in source[j]
  /\ removal[j][f] # "flying"
  /\ target' = [target EXCEPT ![j][f] = "other"]
  /\ UNCHANGED <<jobVars, source, dir, op, sent, qbVars>>

(* Somebody removes a source file that nothing else uses, in the meantime. *)
TakeSource(j, f) ==
  /\ job[j].stage = "source_removing"
  /\ f \in source[j] \ setup[j].shared
  /\ target[j][f] = "same"
  /\ source' = [source EXCEPT ![j] = @ \ {f}]
  /\ UNCHANGED <<jobVars, dir, target, op, sent, qbVars>>

QbStep ==
  \E j \in Jobs :
    /\ Manual(j)
    /\ \/ Leaves(j) \/ Checked(j) \/ StartsSeeding(j)
       \/ AddElsewhere(j) \/ Mislay(j)
       \/ \E f \in Files(j) : Remove(j, f) \/ LoseRemoval(j, f) \/ Replace(j, f)
                              \/ TakeSource(j, f)
=============================================================================
