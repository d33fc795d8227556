------------------------------ MODULE FileMove ------------------------------
(***************************************************************************)
(* What relocation promises of the files of its jobs, whatever requests,   *)
(* answers and passes are lost: one file at a time is copied, and then     *)
(* moved when the job moves it; one that has moved stays moved; and a job  *)
(* is done only when every file is where its kind of job brings it, after  *)
(* which nothing more is taken from the source.                            *)
(***************************************************************************)

CONSTANTS
  Job,
  File

VARIABLES
  moves,   \* jobs that take their files away from the source
  files,   \* the files of a job
  own,     \* those that no other torrent uses
  place,   \* where the content of a job's file is
  done     \* jobs that are completed

vars == <<moves, files, own, place, done>>

Places == {"source", "both", "target"}

Init ==
  /\ moves \subseteq Job
  /\ files \in [Job -> SUBSET File]
  /\ own \in [Job -> SUBSET File]
  /\ \A j \in Job : own[j] \subseteq files[j]
  /\ place = [j \in Job |-> [f \in files[j] |-> "source"]]
  /\ done = {}

Goes(j, f, from, to) ==
  /\ place[j][f] = from
  /\ place' = [place EXCEPT ![j][f] = to]
  /\ UNCHANGED <<moves, files, own, done>>

(* The content arrives at the target.                                      *)
Copied(j, f) == Goes(j, f, "source", "both")

(* Somebody puts something else in its place.                              *)
Replaced(j, f) == j \in moves \ done /\ Goes(j, f, "both", "source")

(* It leaves the source: only with its content at the target.              *)
Removed(j, f) == j \in moves \ done /\ f \in own[j] /\ Goes(j, f, "both", "target")

Brought(j) ==
  IF j \in moves THEN \A f \in own[j] : place[j][f] = "target"
                 ELSE \A f \in files[j] : place[j][f] # "source"

Complete(j) ==
  /\ Brought(j)
  /\ done' = done \cup {j}
  /\ UNCHANGED <<moves, files, own, place>>

Next ==
  \E j \in Job :
    \/ Complete(j)
    \/ \E f \in files[j] : Copied(j, f) \/ Replaced(j, f) \/ Removed(j, f)

Spec == Init /\ [][Next]_vars
=============================================================================
