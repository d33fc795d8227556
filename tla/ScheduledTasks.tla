--------------------------- MODULE ScheduledTasks ---------------------------
(***************************************************************************)
(* User-defined HTTP tasks: the tables scheduled_tasks and                 *)
(* scheduled_task_runs, the executors Scheduler::trigger spawns, each with *)
(* one of the semaphore's permits, and the scheduler's loop, which claims  *)
(* due tasks and interrupts runs that overran their deadline.              *)
(*                                                                         *)
(* Row ids are SQLite rowids without AUTOINCREMENT: a new row gets the     *)
(* largest id plus one, so ids come back after a deletion.                 *)
(***************************************************************************)
EXTENDS Naturals, FiniteSets

CONSTANTS
  MaxTask,   \* bound on task ids
  MaxRun,    \* bound on run ids
  Permits,   \* permits of the semaphore (8 in the code)
  Writes,    \* how often an executor tries to store its result (3)
  KeptRuns,  \* runs kept per task (100)
  Suspends   \* TRUE: the wall clock can run ahead of an executor's timeout

ASSUME BoundsAssumption ==
  /\ MaxTask \in Nat
  /\ MaxRun \in Nat
  /\ Writes \in Nat \ {0}
  /\ KeptRuns \in Nat \ {0}

ASSUME SuspendsAssumption == Suspends \in BOOLEAN

VARIABLES
  task,      \* scheduled_tasks, by id
  run,       \* scheduled_task_runs, by id
  job,       \* the executor that holds a permit
  snapshot,  \* overdue runs the scheduler's pass listed and has not treated
  strayed    \* history: tasks whose run was ended by somebody who held the
             \* id of another run, of a deleted task

vars == <<task, run, job, snapshot, strayed>>

TaskIds == 1 .. MaxTask
RunIds == 1 .. MaxRun

(* next_run_at: NULL, in the future, or reached.                           *)
NextRun == {"none", "later", "due"}

NoTask == [enabled |-> FALSE, next |-> "none", running |-> FALSE, stored |-> FALSE]
NoRun == [task |-> 0, status |-> "none", late |-> FALSE]
Idle == [phase |-> "idle", task |-> 0, run |-> 0, writes |-> 0, own |-> FALSE]

Stored(t) == task[t].stored
RunOf(r, t) == run[r].status # "none" /\ run[r].task = t

(* The rowid SQLite gives a new row when the ids in used are taken.        *)
NewId(id, used) ==
  /\ \A n \in used : n < id
  /\ id = 1 \/ id - 1 \in used

Init ==
  /\ task = [t \in TaskIds |-> NoTask]
  /\ run = [r \in RunIds |-> NoRun]
  /\ job = [p \in Permits |-> Idle]
  /\ snapshot = {}
  /\ strayed = {}

-----------------------------------------------------------------------------
(* The web API.                                                            *)

Planned(enabled) == IF enabled THEN "later" ELSE "none"

Create(t, enabled) ==
  /\ NewId(t, {u \in TaskIds : Stored(u)})
  /\ task' = [task EXCEPT ![t] = [enabled |-> enabled, next |-> Planned(enabled),
                                  running |-> FALSE, stored |-> TRUE]]
  /\ UNCHANGED <<run, job, snapshot, strayed>>

(* save_scheduled_task of an existing task is refused while it runs.       *)
Update(t, enabled) ==
  /\ Stored(t)
  /\ ~task[t].running
  /\ task' = [task EXCEPT ![t].enabled = enabled, ![t].next = Planned(enabled)]
  /\ UNCHANGED <<run, job, snapshot, strayed>>

(* set_scheduled_enabled is not: a pause does not stop the request.        *)
SetEnabled(t, enabled) ==
  /\ Stored(t)
  /\ task' = [task EXCEPT ![t].enabled = enabled, ![t].next = Planned(enabled)]
  /\ UNCHANGED <<run, job, snapshot, strayed>>

(* The jobs whose run row is gone no longer own the id they hold.          *)
Disowned(gone) ==
  [p \in Permits |-> IF job[p].run \in gone THEN [job[p] EXCEPT !.own = FALSE]
                                            ELSE job[p]]

Delete(t) ==
  /\ Stored(t)
  /\ ~task[t].running
  /\ task' = [task EXCEPT ![t] = NoTask]
  /\ run' = [r \in RunIds |-> IF RunOf(r, t) THEN NoRun ELSE run[r]]
  /\ job' = Disowned({r \in RunIds : RunOf(r, t)})
  /\ UNCHANGED <<snapshot, strayed>>

-----------------------------------------------------------------------------
(* Claims and executors.                                                   *)

(* Mutant: a manual run does not look at the running flag.                 *)
ClaimableAgain(t, manual) ==
  /\ Stored(t)
  /\ manual \/ (~task[t].running /\ task[t].enabled /\ task[t].next = "due")

Claimable(t, manual) ==
  /\ Stored(t)
  /\ ~task[t].running
  /\ manual \/ (task[t].enabled /\ task[t].next = "due")

(* claim_scheduled_task: an automatic claim plans from now, so that missed *)
(* runs are made up for once; a manual one keeps the plan.                 *)
Claim(t, manual, r) ==
  /\ Claimable(t, manual)
  /\ NewId(r, {q \in RunIds : run[q].status # "none"})
  /\ task' = [task EXCEPT ![t].running = TRUE,
                          ![t].next = IF manual THEN @ ELSE "later"]
  /\ run' = [run EXCEPT ![r] = [task |-> t, status |-> "running", late |-> FALSE]]

Trigger(t, manual, r, p) ==
  /\ job[p].phase = "idle"
  /\ Claim(t, manual, r)
  /\ job' = [job EXCEPT ![p] = [phase |-> "executing", task |-> t, run |-> r,
                                writes |-> Writes, own |-> TRUE]]
  /\ UNCHANGED <<snapshot, strayed>>

(* The client of a manual run hangs up while the claim commits: the        *)
(* handler is dropped before it spawns the executor.                       *)
TriggerDropped(t, r) ==
  /\ \E p \in Permits : job[p].phase = "idle"
  /\ Claim(t, TRUE, r)
  /\ UNCHANGED <<job, snapshot, strayed>>

(* The request is answered, fails, panics or runs into the hard timeout.   *)
Respond(p) ==
  /\ job[p].phase = "executing"
  /\ job' = [job EXCEPT ![p].phase = "recording"]
  /\ UNCHANGED <<task, run, snapshot, strayed>>

(* Mutant: a recorded run is finished again.                               *)
FinishesAgain(r, t) == RunOf(r, t)

(* finish_scheduled_run changes something only for a row in "running".     *)
Finishes(r, t) == RunOf(r, t) /\ run[r].status = "running"

(* Rows beyond the KeptRuns latest ones of the task.                       *)
Trimmed(t) ==
  {r \in RunIds : RunOf(r, t)
     /\ Cardinality({q \in RunIds : RunOf(q, t) /\ q > r}) >= KeptRuns}

(* finish_scheduled_run by an executor or by the scheduler; own says       *)
(* whether the caller means the run that has the id now (a ghost).         *)
FinishRun(r, t, status, own) ==
  IF Finishes(r, t)
    THEN /\ run' = [q \in RunIds |->
                       IF q \in Trimmed(t) THEN NoRun
                       ELSE IF q = r THEN [run[r] EXCEPT !.status = status]
                       ELSE run[q]]
         /\ task' = [task EXCEPT ![t].running = FALSE]
         /\ strayed' = IF own THEN strayed ELSE strayed \cup {t}
    ELSE UNCHANGED <<task, run, strayed>>

(* The row exists: whatever is in it, the executor is done.                *)
WriteResult(p) ==
  /\ job[p].phase = "recording"
  /\ run[job[p].run].status # "none"
  /\ FinishRun(job[p].run, job[p].task, "finished", job[p].own)
  /\ job' = [(IF Finishes(job[p].run, job[p].task)
                THEN Disowned(Trimmed(job[p].task)) ELSE job) EXCEPT ![p] = Idle]
  /\ UNCHANGED snapshot

(* Mutant: one write too many.                                             *)
AfterFailedWriteOneMore(j) == [j EXCEPT !.writes = @ - 1]

AfterFailedWrite(j) == IF j.writes = 1 THEN Idle ELSE [j EXCEPT !.writes = @ - 1]

(* A write fails (database busy, disk full, or the row is gone); after the *)
(* last one the result is dropped and the permit returned.                 *)
WriteFails(p) ==
  /\ job[p].phase = "recording"
  /\ job' = [job EXCEPT ![p] = AfterFailedWrite(@)]
  /\ UNCHANGED <<task, run, snapshot, strayed>>

-----------------------------------------------------------------------------
(* Time and the scheduler's loop.                                          *)

Due(t) ==
  /\ Stored(t)
  /\ task[t].next = "later"
  /\ task' = [task EXCEPT ![t].next = "due"]
  /\ UNCHANGED <<run, job, snapshot, strayed>>

(* started_at + timeout + 60 s has passed on the wall clock.  The executor *)
(* stops at the timeout on the monotonic clock, which stands still while   *)
(* the computer sleeps.                                                    *)
Late(r) ==
  /\ run[r].status = "running"
  /\ ~run[r].late
  /\ \/ Suspends
     \/ \A p \in Permits : ~(job[p].phase = "executing" /\ job[p].own /\ job[p].run = r)
  /\ run' = [run EXCEPT ![r].late = TRUE]
  /\ UNCHANGED <<task, job, snapshot, strayed>>

Latest(r, t) == RunOf(r, t) /\ \A q \in RunIds : RunOf(q, t) => q <= r

(* Mutant: paused tasks are not looked at.                                 *)
OverdueEnabled(r, t) ==
  Stored(t) /\ task[t].enabled /\ task[t].running /\ Latest(r, t) /\ run[r].late

(* A pass looks at the latest run of every running task only.              *)
Overdue(r, t) == Stored(t) /\ task[t].running /\ Latest(r, t) /\ run[r].late

Scan ==
  /\ snapshot = {}
  /\ snapshot' = {e \in RunIds \X TaskIds : Overdue(e[1], e[2])}
  /\ snapshot' # {}
  /\ UNCHANGED <<task, run, job, strayed>>

(* The pass calls finish_scheduled_run with the ids it listed.  A failed   *)
(* write changes nothing and the next pass tries again.                    *)
Interrupt(r, t) ==
  /\ <<r, t>> \in snapshot
  /\ snapshot' = snapshot \ {<<r, t>>}
  /\ FinishRun(r, t, "interrupted", run[r].late)
  /\ job' = IF Finishes(r, t) THEN Disowned(Trimmed(t)) ELSE job

(* Mutant: every record is marked.                                         *)
RecoveredAll(row) == IF row.status # "none" THEN [row EXCEPT !.status = "interrupted"] ELSE row

(* recover_scheduled_tasks runs before anything else is started.           *)
Recovered(row) == IF row.status = "running" THEN [row EXCEPT !.status = "interrupted"] ELSE row

Crash ==
  /\ run' = [r \in RunIds |-> Recovered(run[r])]
  /\ task' = [t \in TaskIds |-> [task[t] EXCEPT !.running = FALSE]]
  /\ job' = [p \in Permits |-> Idle]
  /\ snapshot' = {}
  /\ UNCHANGED strayed

-----------------------------------------------------------------------------
Next ==
  \/ \E t \in TaskIds, enabled \in BOOLEAN :
       Create(t, enabled) \/ Update(t, enabled) \/ SetEnabled(t, enabled)
  \/ \E t \in TaskIds : Delete(t) \/ Due(t)
  \/ \E t \in TaskIds, manual \in BOOLEAN, r \in RunIds, p \in Permits :
       Trigger(t, manual, r, p)
  \/ \E t \in TaskIds, r \in RunIds : TriggerDropped(t, r) \/ Interrupt(r, t)
  \/ \E p \in Permits : Respond(p) \/ WriteResult(p) \/ WriteFails(p)
  \/ \E r \in RunIds : Late(r)
  \/ Scan
  \/ Crash

Spec == Init /\ [][Next]_vars

(* Executors have timeouts, the clock runs, the loop ticks every second,   *)
(* and the database is not busy forever.                                   *)
Fairness ==
  /\ \A p \in Permits : WF_vars(Respond(p)) /\ WF_vars(WriteResult(p) \/ WriteFails(p))
  /\ \A r \in RunIds : WF_vars(Late(r))
  /\ WF_vars(Scan)
  /\ \A r \in RunIds, t \in TaskIds : WF_vars(Interrupt(r, t))

FairSpec == Spec /\ Fairness

(***************************************************************************)
(* Properties.                                                             *)
(***************************************************************************)

(* Every variable keeps to its type; in particular an executor never       *)
(* writes more often than it may.                                          *)
TypeOK ==
  /\ task \in [TaskIds -> [enabled : BOOLEAN, next : NextRun, running : BOOLEAN,
                           stored : BOOLEAN]]
  /\ run \in [RunIds -> [task : {0} \cup TaskIds,
                         status : {"none", "running", "finished", "interrupted"},
                         late : BOOLEAN]]
  /\ job \in [Permits -> [phase : {"idle"}, task : {0}, run : {0}, writes : {0},
                          own : {FALSE}]
                         \cup [phase : {"executing", "recording"}, task : TaskIds,
                               run : RunIds, writes : 1 .. Writes, own : BOOLEAN]]
  /\ snapshot \subseteq RunIds \X TaskIds
  /\ strayed \subseteq TaskIds

(* The running flag and the run records never drift apart: a task is       *)
(* flagged exactly while its latest run, the only one the scheduler looks  *)
(* at, is recorded as running, and no older one is; so no task is locked   *)
(* without a run that unlocks it, and no run outlives its task's flag.     *)
RunningHasLatestRun ==
  \A t \in TaskIds :
    /\ task[t].running => \E r \in RunIds : Latest(r, t) /\ run[r].status = "running"
    /\ \A r \in RunIds : RunOf(r, t) /\ run[r].status = "running" =>
         Stored(t) /\ task[t].running /\ Latest(r, t)

(* README: a task never overlaps itself.  Late results, interrupted runs,  *)
(* pauses, restarts and dropped requests never let a second execution in   *)
(* while one still sends its request, except where an id came back to a    *)
(* new run while somebody still held it.                                   *)
NoOverlap ==
  \A p, q \in Permits :
    job[p].phase = "executing" /\ job[q].phase = "executing"
      /\ job[p].task = job[q].task /\ job[p].task \notin strayed => p = q

(* The same without the exception, as the README says it.                  *)
NeverOverlaps ==
  \A p, q \in Permits :
    job[p].phase = "executing" /\ job[q].phase = "executing"
      /\ job[p].task = job[q].task => p = q

(* A recorded outcome is final: neither a late result nor the recovery of  *)
(* a later start rewrites a run that was finished or interrupted.          *)
RecordedIsFinal ==
  [][\A r \in RunIds : run[r].status \in {"finished", "interrupted"} =>
       run'[r].status \in {run[r].status, "none"}]_vars

(* A running task becomes claimable again, whether its result could be     *)
(* stored or not, its executor never started, or it was paused meanwhile.  *)
TaskReleased ==
  \A t \in TaskIds : task[t].running ~> ~task[t].running
=============================================================================
