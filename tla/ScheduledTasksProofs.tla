------------------------ MODULE ScheduledTasksProofs ------------------------
(***************************************************************************)
(* ScheduledTasks for any number of tasks, runs, permits and writes: the   *)
(* running flag and the run records agree, recorded outcomes are final,    *)
(* and, as long as the clocks agree, a task does not overlap itself.       *)
(***************************************************************************)
EXTENDS ScheduledTasks, TLAPS

(* Run records belong to stored tasks, and only stored tasks run.          *)
RowInv ==
  /\ \A t \in TaskIds : task[t].running => Stored(t)
  /\ \A r \in RunIds : run[r].status # "none" => run[r].task \in TaskIds /\ Stored(run[r].task)

(* An executor that owns its run id finds its run under it, and no other   *)
(* executor owns that id.                                                  *)
OwnInv ==
  /\ \A p \in Permits : job[p].own => RunOf(job[p].run, job[p].task)
  /\ \A p, q \in Permits : job[p].own /\ job[q].own /\ job[p].run = job[q].run => p = q

(* Whoever sends a request owns a run that is recorded as running and is   *)
(* not overdue, unless ids of its task went astray.                        *)
SendInv ==
  \A p \in Permits :
    job[p].phase = "executing" /\ job[p].task \notin strayed =>
      job[p].own /\ run[job[p].run].status = "running" /\ ~run[job[p].run].late

IInv == TypeOK /\ RunningHasLatestRun /\ RowInv

USE DEF TaskIds, RunIds, NextRun

-----------------------------------------------------------------------------
(* What a finish does: nothing, or it ends the running run of its task.    *)
LEMMA FinishShape ==
  ASSUME TypeOK, RunningHasLatestRun, RowInv,
         NEW r \in RunIds, NEW t \in TaskIds, NEW own \in BOOLEAN,
         NEW status \in {"finished", "interrupted"},
         FinishRun(r, t, status, own)
  PROVE  \/ ~Finishes(r, t) /\ UNCHANGED <<task, run, strayed>>
         \/ /\ Finishes(r, t)
            /\ Latest(r, t)
            /\ task' = [task EXCEPT ![t].running = FALSE]
            /\ run' \in [RunIds -> [task : {0} \cup TaskIds,
                           status : {"none", "running", "finished", "interrupted"},
                           late : BOOLEAN]]
            /\ \A q \in RunIds : ~RunOf(q, t) => run'[q] = run[q]
            /\ \A q \in RunIds : RunOf(q, t) =>
                 /\ run'[q] \in {NoRun, run[q], [run[r] EXCEPT !.status = status]}
                 /\ run'[q].status # "running"
                 /\ q # r => run'[q] \in {NoRun, run[q]}
            /\ \A q \in RunIds : RunOf(q, t) /\ q \notin Trimmed(t) =>
                 run'[q].status # "none" /\ run'[q].task = t
            /\ strayed' = IF own THEN strayed ELSE strayed \cup {t}
<1>1. CASE ~Finishes(r, t)
  BY <1>1 DEF FinishRun
<1>2. CASE Finishes(r, t)
  <2>1. /\ run' = [q \in RunIds |->
                      IF q \in Trimmed(t) THEN NoRun
                      ELSE IF q = r THEN [run[r] EXCEPT !.status = status]
                      ELSE run[q]]
        /\ task' = [task EXCEPT ![t].running = FALSE]
        /\ strayed' = IF own THEN strayed ELSE strayed \cup {t}
    BY <1>2 DEF FinishRun
  <2>2. Latest(r, t)
    BY <1>2 DEF Finishes, RunningHasLatestRun, RunOf
  <2>3. \A q \in Trimmed(t) : q \in RunIds /\ RunOf(q, t)
    BY DEF Trimmed
  <2>4. \A q \in RunIds : q \in Trimmed(t) => run'[q] = NoRun
    BY <2>1
  <2>5. \A q \in RunIds : q \notin Trimmed(t) /\ q # r => run'[q] = run[q]
    BY <2>1
  <2>6. r \notin Trimmed(t) => run'[r] = [run[r] EXCEPT !.status = status]
    BY <2>1
  <2>7. RunOf(r, t) /\ run[r].status = "running"
    BY <1>2 DEF Finishes
  <2>8. \A q \in RunIds : run[q] \in [task : {0} \cup TaskIds,
           status : {"none", "running", "finished", "interrupted"}, late : BOOLEAN]
    BY DEF TypeOK
  <2>9. [run[r] EXCEPT !.status = status] \in [task : {0} \cup TaskIds,
           status : {"none", "running", "finished", "interrupted"}, late : BOOLEAN]
    BY <2>8
  <2>10. \A q \in RunIds : run'[q] \in {NoRun, run[q], [run[r] EXCEPT !.status = status]}
    BY <2>4, <2>5, <2>6
  <2>11. run' \in [RunIds -> [task : {0} \cup TaskIds,
           status : {"none", "running", "finished", "interrupted"}, late : BOOLEAN]]
    <3>1. NoRun \in [task : {0} \cup TaskIds,
           status : {"none", "running", "finished", "interrupted"}, late : BOOLEAN]
      BY DEF NoRun
    <3>2. \A q \in RunIds : run'[q] \in [task : {0} \cup TaskIds,
           status : {"none", "running", "finished", "interrupted"}, late : BOOLEAN]
      BY <2>8, <2>9, <2>10, <3>1
    <3>3. QED
      BY <2>1, <3>2
  <2>12. \A q \in RunIds : ~RunOf(q, t) => run'[q] = run[q]
    BY <2>3, <2>5, <2>7
  <2>13. \A q \in RunIds : RunOf(q, t) => run'[q].status # "running"
    <3>1. SUFFICES ASSUME NEW q \in RunIds, RunOf(q, t), q # r, q \notin Trimmed(t)
                   PROVE  run[q].status # "running"
      BY <2>4, <2>5, <2>6, <2>8 DEF NoRun
    <3>2. QED
      BY <2>2, <3>1 DEF RunningHasLatestRun, Latest
  <2>14. \A q \in RunIds : RunOf(q, t) /\ q \notin Trimmed(t) =>
            run'[q].status # "none" /\ run'[q].task = t
    BY <2>5, <2>6, <2>8 DEF RunOf
  <2>15. \A q \in RunIds : q # r => run'[q] \in {NoRun, run[q]}
    BY <2>4, <2>5
  <2>16. QED
    BY <1>2, <2>1, <2>2, <2>10, <2>11, <2>12, <2>13, <2>14, <2>15
<1>3. QED
  BY <1>1, <1>2


-----------------------------------------------------------------------------
LEMMA InitIInv ==
  ASSUME Init PROVE IInv /\ OwnInv /\ SendInv
BY DEF Init, IInv, OwnInv, SendInv, TypeOK, RunningHasLatestRun, RowInv, RunOf, Stored,
       Idle, NoTask, NoRun

(* Steps that leave the runs alone and no task's running flag or existence *)
(* changed keep the tables consistent.                                     *)
LEMMA TablesKept ==
  ASSUME RunningHasLatestRun, RowInv, UNCHANGED run,
         \A t \in TaskIds : task'[t].running = task[t].running /\ Stored(t)' = Stored(t)
  PROVE  RunningHasLatestRun' /\ RowInv'
BY DEF RunningHasLatestRun, RowInv, RunOf, Latest, Stored

(* The same after a finish.                                                *)
LEMMA TablesFinish ==
  ASSUME IInv,
         NEW r \in RunIds, NEW t \in TaskIds, NEW own \in BOOLEAN,
         NEW status \in {"finished", "interrupted"},
         FinishRun(r, t, status, own)
  PROVE  /\ RunningHasLatestRun' /\ RowInv'
         /\ task' \in [TaskIds -> [enabled : BOOLEAN, next : NextRun, running : BOOLEAN,
                                   stored : BOOLEAN]]
         /\ run' \in [RunIds -> [task : {0} \cup TaskIds,
                        status : {"none", "running", "finished", "interrupted"},
                        late : BOOLEAN]]
         /\ strayed' \subseteq TaskIds
<1>1. CASE ~Finishes(r, t) /\ UNCHANGED <<task, run, strayed>>
  BY <1>1, TablesKept DEF IInv, TypeOK, Stored
<1>2. CASE Finishes(r, t)
  <2>1. /\ task' = [task EXCEPT ![t].running = FALSE]
        /\ run' \in [RunIds -> [task : {0} \cup TaskIds,
                       status : {"none", "running", "finished", "interrupted"},
                       late : BOOLEAN]]
        /\ \A q \in RunIds : ~RunOf(q, t) => run'[q] = run[q]
        /\ \A q \in RunIds : RunOf(q, t) =>
             /\ run'[q] \in {NoRun, run[q], [run[r] EXCEPT !.status = status]}
             /\ run'[q].status # "running"
        /\ strayed' = IF own THEN strayed ELSE strayed \cup {t}
    BY <1>2, FinishShape DEF IInv
  <2>2. RunOf(r, t) /\ run[r].status = "running"
    BY <1>2 DEF Finishes
  <2>3. \A u \in TaskIds : Stored(u)' = Stored(u) /\ (u # t => task'[u] = task[u])
    BY <2>1 DEF Stored, IInv, TypeOK
  <2>4. ~task'[t].running
    BY <2>1 DEF IInv, TypeOK
  <2>5. \A q \in RunIds : run'[q].status # "none" => run[q].status # "none" /\ run'[q].task = run[q].task
    BY <2>1, <2>2 DEF RunOf, NoRun
  <2>6. \A u \in TaskIds : u # t =>
          \A q \in RunIds : (RunOf(q, u)' <=> RunOf(q, u)) /\ (RunOf(q, u) => run'[q] = run[q])
    BY <2>1, <2>5 DEF RunOf
  <2>7. RowInv'
    BY <2>3, <2>4, <2>5 DEF IInv, RowInv
  <2>8. RunningHasLatestRun'
    <3>1. ASSUME NEW u \in TaskIds, u # t
          PROVE  /\ task'[u].running => \E q \in RunIds : Latest(q, u)' /\ run'[q].status = "running"
                 /\ \A q \in RunIds : RunOf(q, u)' /\ run'[q].status = "running" =>
                      Stored(u)' /\ task'[u].running /\ Latest(q, u)'
      BY <3>1, <2>3, <2>6 DEF IInv, RunningHasLatestRun, Latest
    <3>2. \A q \in RunIds : RunOf(q, t)' => run'[q].status # "running"
      BY <2>1, <2>5 DEF RunOf
    <3>3. QED
      BY <3>1, <3>2, <2>4 DEF RunningHasLatestRun
  <2>9. task' \in [TaskIds -> [enabled : BOOLEAN, next : NextRun, running : BOOLEAN,
                              stored : BOOLEAN]]
    <3>1. task \in [TaskIds -> [enabled : BOOLEAN, next : NextRun, running : BOOLEAN,
                                stored : BOOLEAN]]
      BY DEF IInv, TypeOK
    <3>2. task' = [task EXCEPT ![t] = [task[t] EXCEPT !.running = FALSE]]
      BY <2>1
    <3>3. [task[t] EXCEPT !.running = FALSE]
            \in [enabled : BOOLEAN, next : NextRun, running : BOOLEAN, stored : BOOLEAN]
      BY <3>1
    <3>4. QED
      BY <3>1, <3>2, <3>3
  <2>10. strayed' \subseteq TaskIds
    BY <2>1 DEF IInv, TypeOK
  <2>11. QED
    BY <2>1, <2>7, <2>8, <2>9, <2>10
<1>3. QED
  BY <1>1, <1>2, FinishShape DEF IInv

(* And after a claim.                                                      *)
LEMMA TablesClaim ==
  ASSUME IInv, NEW t \in TaskIds, NEW manual \in BOOLEAN, NEW r \in RunIds, Claim(t, manual, r)
  PROVE  /\ RunningHasLatestRun' /\ RowInv'
         /\ task' \in [TaskIds -> [enabled : BOOLEAN, next : NextRun, running : BOOLEAN,
                                   stored : BOOLEAN]]
         /\ run' \in [RunIds -> [task : {0} \cup TaskIds,
                        status : {"none", "running", "finished", "interrupted"},
                        late : BOOLEAN]]
         /\ run[r].status = "none"
         /\ ~task[t].running
         /\ run'[r] = [task |-> t, status |-> "running", late |-> FALSE]
         /\ \A q \in RunIds : q # r => run'[q] = run[q]
<1>1. /\ Stored(t) /\ ~task[t].running
      /\ \A q \in RunIds : run[q].status # "none" => q < r
      /\ task' = [task EXCEPT ![t].running = TRUE,
                              ![t].next = IF manual THEN @ ELSE "later"]
      /\ run' = [run EXCEPT ![r] = [task |-> t, status |-> "running", late |-> FALSE]]
  BY DEF Claim, Claimable, NewId
<1>2. /\ \A u \in TaskIds : Stored(u)' = Stored(u) /\ (u # t => task'[u] = task[u])
      /\ task'[t].running
      /\ task' \in [TaskIds -> [enabled : BOOLEAN, next : NextRun, running : BOOLEAN,
                                stored : BOOLEAN]]
  <2>1. /\ task \in [TaskIds -> [enabled : BOOLEAN, next : NextRun, running : BOOLEAN,
                                  stored : BOOLEAN]]
        /\ task[t] \in [enabled : BOOLEAN, next : NextRun, running : BOOLEAN, stored : BOOLEAN]
    BY DEF IInv, TypeOK
  <2>2. PICK n \in NextRun : task' = [task EXCEPT ![t] = [task[t] EXCEPT !.running = TRUE,
                                                                        !.next = n]]
    <3>1. CASE manual
      BY <1>1, <2>1, <3>1
    <3>2. CASE ~manual
      BY <1>1, <2>1, <3>2
    <3>3. QED
      BY <3>1, <3>2
  <2>3. QED
    BY <2>1, <2>2 DEF Stored
<1>3. /\ run[r].status = "none"
      /\ run'[r] = [task |-> t, status |-> "running", late |-> FALSE]
      /\ \A q \in RunIds : q # r => run'[q] = run[q]
      /\ run' \in [RunIds -> [task : {0} \cup TaskIds,
                     status : {"none", "running", "finished", "interrupted"},
                     late : BOOLEAN]]
  BY <1>1 DEF IInv, TypeOK
<1>4. RowInv'
  BY <1>1, <1>2, <1>3 DEF IInv, RowInv
<1>5. /\ RunOf(r, t)'
      /\ \A q \in RunIds, u \in TaskIds : q # r => (RunOf(q, u)' <=> RunOf(q, u))
      /\ \A u \in TaskIds : u # t => ~RunOf(r, u)' /\ ~RunOf(r, u)
  BY <1>3 DEF RunOf
<1>6. Latest(r, t)' /\ \A q \in RunIds : RunOf(q, t)' /\ q # r => run'[q].status # "running"
  BY <1>1, <1>3, <1>5 DEF Latest, RunOf, IInv, RunningHasLatestRun
<1>7. ASSUME NEW u \in TaskIds, u # t
      PROVE  /\ task'[u].running => \E q \in RunIds : Latest(q, u)' /\ run'[q].status = "running"
             /\ \A q \in RunIds : RunOf(q, u)' /\ run'[q].status = "running" =>
                  Stored(u)' /\ task'[u].running /\ Latest(q, u)'
  BY <1>2, <1>3, <1>5, <1>7 DEF IInv, RunningHasLatestRun, Latest
<1>8. RunningHasLatestRun'
  BY <1>1, <1>2, <1>3, <1>5, <1>6, <1>7 DEF RunningHasLatestRun
<1>9. QED
  BY <1>1, <1>2, <1>3, <1>4, <1>8


-----------------------------------------------------------------------------
JobType ==
  [phase : {"idle"}, task : {0}, run : {0}, writes : {0}, own : {FALSE}]
    \cup [phase : {"executing", "recording"}, task : TaskIds, run : RunIds,
          writes : 1 .. Writes, own : BOOLEAN]

LEMMA JobShape ==
  ASSUME NEW j \in JobType
  PROVE  /\ j.phase # "idle" =>
              j \in [phase : {"executing", "recording"}, task : TaskIds, run : RunIds,
                     writes : 1 .. Writes, own : BOOLEAN]
         /\ j.phase = "idle" => j.own = FALSE
         /\ [j EXCEPT !.own = FALSE] \in JobType
BY DEF JobType

LEMMA DisownedShape ==
  ASSUME job \in [Permits -> JobType], NEW gone
  PROVE  /\ Disowned(gone) \in [Permits -> JobType]
         /\ \A p \in Permits :
              /\ Disowned(gone)[p].phase = job[p].phase
              /\ Disowned(gone)[p].task = job[p].task
              /\ Disowned(gone)[p].run = job[p].run
              /\ Disowned(gone)[p].own =>
                   job[p].own /\ job[p].run \notin gone /\ Disowned(gone)[p] = job[p]
              /\ job[p].run \notin gone => Disowned(gone)[p] = job[p]
<1>1. \A p \in Permits : Disowned(gone)[p] = IF job[p].run \in gone THEN [job[p] EXCEPT !.own = FALSE]
                                                                     ELSE job[p]
  BY DEF Disowned
<1>2. \A p \in Permits : Disowned(gone)[p] \in JobType
  BY <1>1, JobShape
<1>3. \A p \in Permits : [job[p] EXCEPT !.own = FALSE].phase = job[p].phase
        /\ [job[p] EXCEPT !.own = FALSE].task = job[p].task
        /\ [job[p] EXCEPT !.own = FALSE].run = job[p].run
        /\ ~[job[p] EXCEPT !.own = FALSE].own
  BY DEF JobType
<1>4. QED
  BY <1>1, <1>2, <1>3 DEF Disowned

(* Every step keeps the types, the tables and their agreement.             *)
LEMMA StepIInv ==
  ASSUME IInv, [Next]_vars PROVE IInv'
<1> USE DEF IInv
<1>0. /\ job \in [Permits -> JobType]
      /\ task \in [TaskIds -> [enabled : BOOLEAN, next : NextRun, running : BOOLEAN,
                               stored : BOOLEAN]]
      /\ run \in [RunIds -> [task : {0} \cup TaskIds,
                     status : {"none", "running", "finished", "interrupted"}, late : BOOLEAN]]
      /\ Idle \in JobType
      /\ Writes \in Nat \ {0}
  BY BoundsAssumption DEF TypeOK, JobType, Idle
<1>1. ASSUME NEW t \in TaskIds, NEW enabled \in BOOLEAN, Create(t, enabled) PROVE IInv'
  <2>1. ~Stored(t)
    BY <1>1 DEF Create, NewId
  <2>2. \A r \in RunIds : ~RunOf(r, t)
    BY <2>1 DEF RowInv, RunOf
  <2>3. /\ task'[t] = [enabled |-> enabled, next |-> Planned(enabled), running |-> FALSE,
                       stored |-> TRUE]
        /\ \A u \in TaskIds : u # t => task'[u] = task[u]
        /\ Planned(enabled) \in NextRun
        /\ UNCHANGED <<run, job, snapshot, strayed>>
    BY <1>0, <1>1 DEF Create, Planned
  <2>4. task' \in [TaskIds -> [enabled : BOOLEAN, next : NextRun, running : BOOLEAN,
                               stored : BOOLEAN]]
    BY <1>0, <1>1, <2>3 DEF Create
  <2>5. RunningHasLatestRun' /\ RowInv'
    BY <2>1, <2>2, <2>3 DEF RunningHasLatestRun, RowInv, RunOf, Latest, Stored
  <2>6. TypeOK'
    BY <2>3, <2>4 DEF TypeOK
  <2>7. QED
    BY <2>5, <2>6
<1>2. ASSUME NEW t \in TaskIds, NEW enabled \in BOOLEAN,
             Update(t, enabled) \/ SetEnabled(t, enabled)
      PROVE  IInv'
  <2>1. /\ task' = [task EXCEPT ![t].enabled = enabled, ![t].next = Planned(enabled)]
        /\ UNCHANGED <<run, job, snapshot, strayed>>
        /\ Planned(enabled) \in NextRun
    BY <1>2 DEF Update, SetEnabled, Planned
  <2> DEFINE row == [task[t] EXCEPT !.enabled = enabled, !.next = Planned(enabled)]
  <2>a. task' = [task EXCEPT ![t] = row]
    BY <2>1
  <2>b. /\ row \in [enabled : BOOLEAN, next : NextRun, running : BOOLEAN, stored : BOOLEAN]
        /\ row.running = task[t].running /\ row.stored = task[t].stored
    BY <1>0, <2>1
  <2> HIDE DEF row
  <2>2. /\ task' \in [TaskIds -> [enabled : BOOLEAN, next : NextRun, running : BOOLEAN,
                                  stored : BOOLEAN]]
        /\ \A u \in TaskIds : task'[u].running = task[u].running /\ task'[u].stored = task[u].stored
    BY <1>0, <2>a, <2>b
  <2>3. RunningHasLatestRun' /\ RowInv'
    BY <2>1, <2>2, TablesKept DEF Stored
  <2>4. QED
    BY <2>1, <2>2, <2>3 DEF TypeOK
<1>3. ASSUME NEW t \in TaskIds, Delete(t) PROVE IInv'
  <2>1. /\ ~task[t].running
        /\ task' = [task EXCEPT ![t] = NoTask]
        /\ run' = [r \in RunIds |-> IF RunOf(r, t) THEN NoRun ELSE run[r]]
        /\ job' = Disowned({r \in RunIds : RunOf(r, t)})
        /\ UNCHANGED <<snapshot, strayed>>
    BY <1>3 DEF Delete
  <2>2. /\ task' \in [TaskIds -> [enabled : BOOLEAN, next : NextRun, running : BOOLEAN,
                                  stored : BOOLEAN]]
        /\ run' \in [RunIds -> [task : {0} \cup TaskIds,
                       status : {"none", "running", "finished", "interrupted"}, late : BOOLEAN]]
    BY <1>0, <2>1 DEF NoTask, NoRun
  <2>3. job' \in [Permits -> JobType]
    BY <1>0, <2>1, DisownedShape
  <2>4. \A u \in TaskIds : /\ u # t => task'[u] = task[u]
                           /\ u # t => \A r \in RunIds :
                                (RunOf(r, u)' <=> RunOf(r, u)) /\ (RunOf(r, u) => run'[r] = run[r])
    BY <1>0, <2>1 DEF RunOf, NoRun
  <2>5. ~task'[t].running /\ \A r \in RunIds : ~RunOf(r, t)'
    BY <1>0, <2>1 DEF NoTask, RunOf, NoRun
  <2>6. RunningHasLatestRun'
    BY <2>4, <2>5 DEF RunningHasLatestRun, Latest, Stored
  <2>7. \A r \in RunIds : run'[r].status # "none" =>
          run'[r] = run[r] /\ run[r].status # "none" /\ run[r].task # t
    BY <2>1 DEF NoRun, RunOf
  <2>8. RowInv'
    BY <2>4, <2>5, <2>7 DEF RowInv, Stored
  <2>9. QED
    BY <2>1, <2>2, <2>3, <2>6, <2>8 DEF TypeOK, JobType
<1>4. ASSUME NEW t \in TaskIds, NEW manual \in BOOLEAN, NEW r \in RunIds, NEW p \in Permits,
             Trigger(t, manual, r, p)
      PROVE  IInv'
  <2>1. Claim(t, manual, r) /\ UNCHANGED <<snapshot, strayed>>
    BY <1>4 DEF Trigger
  <2>2. [phase |-> "executing", task |-> t, run |-> r, writes |-> Writes, own |-> TRUE] \in JobType
    BY <1>0 DEF JobType
  <2>3. job' \in [Permits -> JobType]
    BY <1>0, <1>4, <2>2 DEF Trigger
  <2>4. QED
    BY <2>1, <2>3, TablesClaim DEF TypeOK, JobType
<1>5. ASSUME NEW t \in TaskIds, NEW r \in RunIds, TriggerDropped(t, r) PROVE IInv'
  BY <1>5, TablesClaim DEF TriggerDropped, TypeOK
<1>6. ASSUME NEW p \in Permits, Respond(p) PROVE IInv'
  <2>1. [job[p] EXCEPT !.phase = "recording"] \in JobType
    BY <1>0, <1>6, JobShape DEF Respond, JobType
  <2>2. job' \in [Permits -> JobType]
    BY <1>0, <1>6, <2>1 DEF Respond
  <2>3. UNCHANGED <<task, run, snapshot, strayed>>
    BY <1>6 DEF Respond
  <2>4. RunningHasLatestRun' /\ RowInv'
    BY <2>3, TablesKept DEF Stored
  <2>5. QED
    BY <2>2, <2>3, <2>4 DEF TypeOK, JobType
<1>7. ASSUME NEW p \in Permits, WriteFails(p) PROVE IInv'
  <2>a. job[p] \in [phase : {"executing", "recording"}, task : TaskIds, run : RunIds,
                     writes : 1 .. Writes, own : BOOLEAN]
    BY <1>0, <1>7, JobShape DEF WriteFails
  <2>b. job[p].writes # 1 => job[p].writes - 1 \in 1 .. Writes
    BY <1>0, <2>a
  <2>c. job[p].writes # 1 => [job[p] EXCEPT !.writes = @ - 1] \in JobType
    BY <2>a, <2>b DEF JobType
  <2>1. AfterFailedWrite(job[p]) \in JobType
    BY <1>0, <2>c DEF AfterFailedWrite
  <2>2. job' \in [Permits -> JobType]
    BY <1>0, <1>7, <2>1 DEF WriteFails
  <2>3. UNCHANGED <<task, run, snapshot, strayed>>
    BY <1>7 DEF WriteFails
  <2>4. RunningHasLatestRun' /\ RowInv'
    BY <2>3, TablesKept DEF Stored
  <2>5. QED
    BY <2>2, <2>3, <2>4 DEF TypeOK, JobType
<1>8. ASSUME NEW p \in Permits, WriteResult(p) PROVE IInv'
  <2>1. /\ job[p].phase = "recording"
        /\ FinishRun(job[p].run, job[p].task, "finished", job[p].own)
        /\ UNCHANGED snapshot
    BY <1>8 DEF WriteResult
  <2>a. job[p] \in [phase : {"executing", "recording"}, task : TaskIds, run : RunIds,
                     writes : 1 .. Writes, own : BOOLEAN]
    BY <1>0, <2>1, JobShape
  <2>2. job[p].run \in RunIds /\ job[p].task \in TaskIds /\ job[p].own \in BOOLEAN
    BY <2>a
  <2>3. Disowned(Trimmed(job[p].task)) \in [Permits -> JobType]
    BY <1>0, DisownedShape
  <2>4. job' \in [Permits -> JobType]
    BY <1>0, <1>8, <2>3 DEF WriteResult
  <2>5. /\ RunningHasLatestRun' /\ RowInv'
        /\ task' \in [TaskIds -> [enabled : BOOLEAN, next : NextRun, running : BOOLEAN,
                                  stored : BOOLEAN]]
        /\ run' \in [RunIds -> [task : {0} \cup TaskIds,
                       status : {"none", "running", "finished", "interrupted"}, late : BOOLEAN]]
        /\ strayed' \subseteq TaskIds
    BY <2>1, <2>2, TablesFinish
  <2>6. QED
    BY <2>1, <2>4, <2>5 DEF TypeOK, JobType
<1>9. ASSUME NEW r \in RunIds, NEW t \in TaskIds, Interrupt(r, t) PROVE IInv'
  <2>1. run[r].late \in BOOLEAN
    BY <1>0
  <2>2. FinishRun(r, t, "interrupted", run[r].late) /\ snapshot' \subseteq snapshot
    BY <1>9 DEF Interrupt
  <2>3. job' \in [Permits -> JobType]
    BY <1>0, <1>9, DisownedShape DEF Interrupt
  <2>5. /\ RunningHasLatestRun' /\ RowInv'
        /\ task' \in [TaskIds -> [enabled : BOOLEAN, next : NextRun, running : BOOLEAN,
                                  stored : BOOLEAN]]
        /\ run' \in [RunIds -> [task : {0} \cup TaskIds,
                       status : {"none", "running", "finished", "interrupted"}, late : BOOLEAN]]
        /\ strayed' \subseteq TaskIds
    BY <2>1, <2>2, TablesFinish
  <2>6. QED
    BY <2>2, <2>3, <2>5 DEF TypeOK, JobType
<1>10. ASSUME NEW t \in TaskIds, Due(t) PROVE IInv'
  <2>1. task' = [task EXCEPT ![t].next = "due"] /\ UNCHANGED <<run, job, snapshot, strayed>>
    BY <1>10 DEF Due
  <2>2. /\ task' \in [TaskIds -> [enabled : BOOLEAN, next : NextRun, running : BOOLEAN,
                                  stored : BOOLEAN]]
        /\ \A u \in TaskIds : task'[u].running = task[u].running /\ task'[u].stored = task[u].stored
    BY <1>0, <2>1
  <2>3. RunningHasLatestRun' /\ RowInv'
    BY <2>1, <2>2, TablesKept DEF Stored
  <2>4. QED
    BY <2>1, <2>2, <2>3 DEF TypeOK
<1>11. ASSUME NEW r \in RunIds, Late(r) PROVE IInv'
  <2>1. run' = [run EXCEPT ![r].late = TRUE] /\ UNCHANGED <<task, job, snapshot, strayed>>
    BY <1>11 DEF Late
  <2>2. /\ run' \in [RunIds -> [task : {0} \cup TaskIds,
                       status : {"none", "running", "finished", "interrupted"}, late : BOOLEAN]]
        /\ \A q \in RunIds : run'[q].status = run[q].status /\ run'[q].task = run[q].task
    BY <1>0, <2>1
  <2>3. RunningHasLatestRun' /\ RowInv'
    BY <2>1, <2>2 DEF RunningHasLatestRun, RowInv, RunOf, Latest, Stored
  <2>4. QED
    BY <2>1, <2>2, <2>3 DEF TypeOK
<1>12. ASSUME Scan PROVE IInv'
  <2>1. UNCHANGED <<task, run, job, strayed>> /\ snapshot' \subseteq RunIds \X TaskIds
    BY <1>12 DEF Scan
  <2>2. RunningHasLatestRun' /\ RowInv'
    BY <2>1, TablesKept DEF Stored
  <2>3. QED
    BY <2>1, <2>2 DEF TypeOK
<1>13. ASSUME Crash PROVE IInv'
  <2>1. /\ run' = [r \in RunIds |-> Recovered(run[r])]
        /\ task' = [t \in TaskIds |-> [task[t] EXCEPT !.running = FALSE]]
        /\ job' = [p \in Permits |-> Idle]
        /\ snapshot' = {} /\ strayed' = strayed
    BY <1>13 DEF Crash
  <2>2. /\ task' \in [TaskIds -> [enabled : BOOLEAN, next : NextRun, running : BOOLEAN,
                                  stored : BOOLEAN]]
        /\ \A t \in TaskIds : ~task'[t].running /\ task'[t].stored = task[t].stored
    BY <1>0, <2>1
  <2>3. /\ run' \in [RunIds -> [task : {0} \cup TaskIds,
                       status : {"none", "running", "finished", "interrupted"}, late : BOOLEAN]]
        /\ \A r \in RunIds : run'[r].status # "running" /\ run'[r].task = run[r].task
             /\ (run'[r].status = "none" <=> run[r].status = "none")
    <3>1. \A r \in RunIds :
            /\ Recovered(run[r]) \in [task : {0} \cup TaskIds,
                 status : {"none", "running", "finished", "interrupted"}, late : BOOLEAN]
            /\ Recovered(run[r]).status # "running" /\ Recovered(run[r]).task = run[r].task
            /\ (Recovered(run[r]).status = "none" <=> run[r].status = "none")
      BY <1>0 DEF Recovered
    <3>2. QED
      BY <2>1, <3>1
  <2>4. RunningHasLatestRun' /\ RowInv'
    BY <2>2, <2>3 DEF RunningHasLatestRun, RowInv, Stored
  <2>5. job' \in [Permits -> JobType]
    BY <1>0, <2>1
  <2>6. QED
    BY <2>1, <2>2, <2>3, <2>4, <2>5 DEF TypeOK, JobType
<1>14. CASE UNCHANGED vars
  <2>1. RunningHasLatestRun' /\ RowInv'
    BY <1>14, TablesKept DEF vars, Stored
  <2>2. QED
    BY <1>14, <2>1 DEF vars, TypeOK
<1>15. QED
  BY <1>1, <1>2, <1>3, <1>4, <1>5, <1>6, <1>7, <1>8, <1>9, <1>10, <1>11, <1>12, <1>13, <1>14
     DEF Next


-----------------------------------------------------------------------------
(* Who holds which id.                                                     *)

(* The id of a job names its task's run in the next state.                 *)
Kept(p) == run'[job[p].run].status # "none" /\ run'[job[p].run].task = job[p].task

LEMMA IdleOwnsNothing == ~Idle.own /\ Idle.phase = "idle"
BY DEF Idle

(* A finish by whoever holds run r of task t, with the jobs disowned of    *)
(* trimmed runs: ids that are still owned still name their run, and those  *)
(* who send keep theirs if the finish does not hit them.                   *)
LEMMA OwnFinish ==
  ASSUME IInv, OwnInv,
         NEW r \in RunIds, NEW t \in TaskIds, NEW own \in BOOLEAN,
         NEW status \in {"finished", "interrupted"},
         FinishRun(r, t, status, own),
         NEW p \in Permits,
         LET j == IF Finishes(r, t) THEN Disowned(Trimmed(t)) ELSE job IN
           j[p].own
  PROVE  job[p].own /\ Kept(p)
<1>1. job \in [Permits -> JobType]
  BY DEF IInv, TypeOK, JobType
<1>2. CASE ~Finishes(r, t)
  BY <1>2, FinishShape DEF OwnInv, IInv, RunOf, Kept
<1>3. CASE Finishes(r, t)
  <2>1. job[p].own /\ job[p].run \notin Trimmed(t) /\ RunOf(job[p].run, job[p].task)
    BY <1>1, <1>3, DisownedShape DEF OwnInv
  <2>2. job[p].phase # "idle"
    BY <1>1, <2>1, JobShape
  <2>a. job[p] \in [phase : {"executing", "recording"}, task : TaskIds, run : RunIds,
                    writes : 1 .. Writes, own : BOOLEAN]
    BY <1>1, <2>2, JobShape
  <2>3. job[p].run \in RunIds
    BY <2>a
  <2>4. CASE RunOf(job[p].run, t)
    <3>1. run'[job[p].run].status # "none" /\ run'[job[p].run].task = t
      BY <1>3, <2>1, <2>3, <2>4, FinishShape DEF IInv
    <3>2. job[p].task = t
      BY <2>1, <2>4 DEF RunOf, Kept
    <3>3. QED
      BY <2>1, <3>1, <3>2 DEF RunOf, Kept
  <2>5. CASE ~RunOf(job[p].run, t)
    <3>1. run'[job[p].run] = run[job[p].run]
      BY <1>3, <2>3, <2>5, FinishShape DEF IInv
    <3>2. QED
      BY <2>1, <3>1 DEF RunOf, Kept
  <2>6. QED
    BY <2>4, <2>5
<1>4. QED
  BY <1>2, <1>3

LEMMA StepOwnInv ==
  ASSUME IInv, OwnInv, [Next]_vars PROVE OwnInv'
<1>0. job \in [Permits -> JobType]
  BY DEF IInv, TypeOK, JobType
<1>1. ASSUME UNCHANGED run,
             \A p \in Permits : job'[p].own => job[p].own /\ job'[p].run = job[p].run
                                               /\ job'[p].task = job[p].task
      PROVE  OwnInv'
  BY <1>1 DEF OwnInv, RunOf
<1>2. ASSUME NEW t \in TaskIds, NEW enabled \in BOOLEAN,
             Create(t, enabled) \/ Update(t, enabled) \/ SetEnabled(t, enabled)
      PROVE  OwnInv'
  BY <1>1, <1>2 DEF Create, Update, SetEnabled
<1>3. ASSUME NEW t \in TaskIds, Delete(t) PROVE OwnInv'
  <2>1. /\ run' = [r \in RunIds |-> IF RunOf(r, t) THEN NoRun ELSE run[r]]
        /\ job' = Disowned({r \in RunIds : RunOf(r, t)})
    BY <1>3 DEF Delete
  <2>2. ASSUME NEW p \in Permits, job'[p].own
        PROVE  /\ job[p].own /\ job'[p] = job[p] /\ RunOf(job[p].run, job[p].task)
               /\ job[p].run \in RunIds /\ ~RunOf(job[p].run, t)
    <3>1. job[p].own /\ job'[p] = job[p] /\ job[p].run \notin {r \in RunIds : RunOf(r, t)}
      BY <1>0, <2>1, <2>2, DisownedShape
    <3>2. job[p].phase # "idle"
      BY <1>0, <3>1, JobShape
    <3>3. job[p] \in [phase : {"executing", "recording"}, task : TaskIds, run : RunIds,
                      writes : 1 .. Writes, own : BOOLEAN]
      BY <1>0, <3>2, JobShape
    <3>4. QED
      BY <3>1, <3>3 DEF OwnInv
  <2>3. \A r \in RunIds : ~RunOf(r, t) => run'[r] = run[r]
    BY <2>1
  <2>4. \A p \in Permits : job'[p].own => RunOf(job[p].run, job[p].task)'
    BY <2>2, <2>3 DEF RunOf
  <2>5. QED
    BY <2>2, <2>4 DEF OwnInv
<1>4. ASSUME NEW t \in TaskIds, NEW manual \in BOOLEAN, NEW r \in RunIds, NEW p \in Permits,
             Trigger(t, manual, r, p)
      PROVE  OwnInv'
  <2>1. /\ Claim(t, manual, r)
        /\ job' = [job EXCEPT ![p] = [phase |-> "executing", task |-> t, run |-> r,
                                      writes |-> Writes, own |-> TRUE]]
    BY <1>4 DEF Trigger
  <2>2. /\ run[r].status = "none"
        /\ run'[r] = [task |-> t, status |-> "running", late |-> FALSE]
        /\ \A q \in RunIds : q # r => run'[q] = run[q]
    BY <2>1, TablesClaim
  <2>3. job'[p] = [phase |-> "executing", task |-> t, run |-> r, writes |-> Writes, own |-> TRUE]
        /\ \A q \in Permits : q # p => job'[q] = job[q]
    BY <1>0, <2>1
  <2>4. ASSUME NEW q \in Permits, q # p, job[q].own
        PROVE  job[q].run # r /\ Kept(q)
    <3>1. RunOf(job[q].run, job[q].task)
      BY <2>4 DEF OwnInv
    <3>2. job[q].phase # "idle"
      BY <1>0, <2>4, JobShape
    <3>3. job[q] \in [phase : {"executing", "recording"}, task : TaskIds, run : RunIds,
                      writes : 1 .. Writes, own : BOOLEAN]
      BY <1>0, <3>2, JobShape
    <3>4. QED
      BY <2>2, <3>1, <3>3 DEF RunOf, Kept
  <2>5. \A q \in Permits : job'[q].own => RunOf(job[q].run, job[q].task)'
    BY <2>2, <2>3, <2>4 DEF RunOf, Kept
  <2>6. QED
    BY <2>3, <2>4, <2>5 DEF OwnInv
<1>5. ASSUME NEW t \in TaskIds, NEW r \in RunIds, TriggerDropped(t, r) PROVE OwnInv'
  <2>1. Claim(t, TRUE, r) /\ UNCHANGED job
    BY <1>5 DEF TriggerDropped
  <2>2. run[r].status = "none" /\ \A q \in RunIds : q # r => run'[q] = run[q]
    BY <2>1, TablesClaim
  <2>3. ASSUME NEW q \in Permits, job[q].own
        PROVE  Kept(q)
    <3>1. RunOf(job[q].run, job[q].task)
      BY <2>3 DEF OwnInv
    <3>2. job[q].phase # "idle"
      BY <1>0, <2>3, JobShape
    <3>3. job[q] \in [phase : {"executing", "recording"}, task : TaskIds, run : RunIds,
                      writes : 1 .. Writes, own : BOOLEAN]
      BY <1>0, <3>2, JobShape
    <3>4. QED
      BY <2>2, <3>1, <3>3 DEF RunOf, Kept
  <2>4. QED
    BY <2>1, <2>3 DEF OwnInv, RunOf, Kept
<1>6. ASSUME NEW p \in Permits, Respond(p) \/ WriteFails(p) PROVE OwnInv'
  <2>1. /\ UNCHANGED run
        /\ \A q \in Permits : q # p => job'[q] = job[q]
        /\ job'[p] \in {Idle, [job[p] EXCEPT !.phase = "recording"],
                        [job[p] EXCEPT !.writes = @ - 1]}
        /\ job[p].phase # "idle"
    BY <1>0, <1>6 DEF Respond, WriteFails, AfterFailedWrite
  <2>2. job[p] \in [phase : {"executing", "recording"}, task : TaskIds, run : RunIds,
                    writes : 1 .. Writes, own : BOOLEAN]
    BY <1>0, <2>1, JobShape
  <2>3. job'[p].own => job[p].own /\ job'[p].run = job[p].run /\ job'[p].task = job[p].task
    BY <2>1, <2>2, IdleOwnsNothing
  <2>4. QED
    BY <1>1, <2>1, <2>3
<1>7. ASSUME NEW p \in Permits, WriteResult(p) PROVE OwnInv'
  <2> DEFINE j == IF Finishes(job[p].run, job[p].task) THEN Disowned(Trimmed(job[p].task)) ELSE job
  <2>1. /\ job[p].phase = "recording"
        /\ FinishRun(job[p].run, job[p].task, "finished", job[p].own)
        /\ job' = [j EXCEPT ![p] = Idle]
    BY <1>7 DEF WriteResult
  <2>2. j \in [Permits -> JobType] /\ \A q \in Permits : j[q].own => j[q] = job[q]
    BY <1>0, DisownedShape
  <2>3. job[p] \in [phase : {"executing", "recording"}, task : TaskIds, run : RunIds,
                    writes : 1 .. Writes, own : BOOLEAN]
    BY <1>0, <2>1, JobShape
  <2>4. job[p].run \in RunIds /\ job[p].task \in TaskIds /\ job[p].own \in BOOLEAN
    BY <2>3
  <2>5. ASSUME NEW q \in Permits, job'[q].own
        PROVE  job[q].own /\ Kept(q) /\ job'[q] = job[q]
    <3>1. q # p /\ j[q].own /\ job'[q] = j[q]
      BY <2>1, <2>2, <2>5, IdleOwnsNothing
    <3>2. QED
      BY <2>1, <2>2, <2>4, <3>1, OwnFinish
  <2>6. QED
    BY <2>5 DEF OwnInv, RunOf, Kept
<1>8. ASSUME NEW r \in RunIds, NEW t \in TaskIds, Interrupt(r, t) PROVE OwnInv'
  <2>1. /\ FinishRun(r, t, "interrupted", run[r].late)
        /\ job' = IF Finishes(r, t) THEN Disowned(Trimmed(t)) ELSE job
    BY <1>8 DEF Interrupt
  <2>2. run[r].late \in BOOLEAN
    BY DEF IInv, TypeOK
  <2>3. ASSUME NEW q \in Permits, job'[q].own
        PROVE  job[q].own /\ Kept(q) /\ job'[q] = job[q]
    BY <1>0, <2>1, <2>2, <2>3, OwnFinish, DisownedShape
  <2>4. QED
    BY <2>3 DEF OwnInv, RunOf, Kept
<1>9. ASSUME NEW t \in TaskIds, Due(t) PROVE OwnInv'
  BY <1>1, <1>9 DEF Due
<1>10. ASSUME NEW r \in RunIds, Late(r) PROVE OwnInv'
  <2>1. \A q \in RunIds : run'[q].status = run[q].status /\ run'[q].task = run[q].task
    BY <1>10 DEF Late, IInv, TypeOK
  <2>2. ASSUME NEW q \in Permits, job[q].own
        PROVE  Kept(q)
    <3>1. RunOf(job[q].run, job[q].task)
      BY <2>2 DEF OwnInv
    <3>2. job[q].phase # "idle"
      BY <1>0, <2>2, JobShape
    <3>3. job[q] \in [phase : {"executing", "recording"}, task : TaskIds, run : RunIds,
                      writes : 1 .. Writes, own : BOOLEAN]
      BY <1>0, <3>2, JobShape
    <3>4. QED
      BY <2>1, <3>1, <3>3 DEF RunOf, Kept
  <2>3. QED
    BY <1>10, <2>2 DEF Late, OwnInv, RunOf, Kept
<1>11. ASSUME Scan PROVE OwnInv'
  BY <1>1, <1>11 DEF Scan
<1>12. ASSUME Crash PROVE OwnInv'
  <2>1. \A p \in Permits : job'[p] = Idle
    BY <1>12 DEF Crash
  <2>2. QED
    BY <2>1, IdleOwnsNothing DEF OwnInv
<1>13. CASE UNCHANGED vars
  BY <1>1, <1>13 DEF vars
<1>14. QED
  BY <1>2, <1>3, <1>4, <1>5, <1>6, <1>7, <1>8, <1>9, <1>10, <1>11, <1>12, <1>13 DEF Next


-----------------------------------------------------------------------------
(* Whoever sends.                                                          *)

LEMMA SenderHolds ==
  ASSUME IInv, OwnInv, SendInv, NEW p \in Permits,
         job[p].phase = "executing", job[p].task \notin strayed
  PROVE  /\ job[p].own /\ job[p].run \in RunIds /\ job[p].task \in TaskIds
         /\ RunOf(job[p].run, job[p].task) /\ run[job[p].run].status = "running"
         /\ ~run[job[p].run].late
         /\ Latest(job[p].run, job[p].task)
         /\ task[job[p].task].running
<1>1. job[p] \in JobType
  BY DEF IInv, TypeOK, JobType
<1>2. job[p] \in [phase : {"executing", "recording"}, task : TaskIds, run : RunIds,
                  writes : 1 .. Writes, own : BOOLEAN]
  BY <1>1, JobShape
<1>3. job[p].run \in RunIds /\ job[p].task \in TaskIds
  BY <1>2
<1>4. job[p].own /\ run[job[p].run].status = "running" /\ ~run[job[p].run].late
  BY DEF SendInv
<1>5. RunOf(job[p].run, job[p].task)
  BY <1>4 DEF OwnInv
<1>6. QED
  BY <1>3, <1>4, <1>5 DEF IInv, RunningHasLatestRun

(* A finish by an owner who does not send, or of an overdue run, hits no   *)
(* one who sends.                                                          *)
LEMMA SendFinish ==
  ASSUME IInv, OwnInv, SendInv,
         NEW r \in RunIds, NEW t \in TaskIds, NEW own \in BOOLEAN,
         NEW status \in {"finished", "interrupted"},
         FinishRun(r, t, status, own),
         own => run[r].late \/ \E q \in Permits :
                  job[q].own /\ job[q].run = r /\ job[q].phase # "executing",
         NEW p \in Permits, job[p].phase = "executing", job[p].task \notin strayed'
  PROVE  /\ job[p].task \notin strayed
         /\ run'[job[p].run] = run[job[p].run]
         /\ Finishes(r, t) => job[p].run \notin Trimmed(t)
<1>1. CASE ~Finishes(r, t)
  BY <1>1, FinishShape DEF IInv
<1>2. CASE Finishes(r, t)
  <2>1. /\ Latest(r, t)
        /\ \A q \in RunIds : ~RunOf(q, t) => run'[q] = run[q]
        /\ strayed' = IF own THEN strayed ELSE strayed \cup {t}
    BY <1>2, FinishShape DEF IInv
  <2>2. job[p].task \notin strayed /\ (job[p].task = t => own)
    BY <2>1
  <2>3. /\ job[p].own /\ job[p].run \in RunIds
        /\ RunOf(job[p].run, job[p].task) /\ ~run[job[p].run].late
        /\ Latest(job[p].run, job[p].task)
    BY <2>2, SenderHolds
  <2>4. job[p].task # t
    <3>1. SUFFICES ASSUME job[p].task = t PROVE FALSE
      OBVIOUS
    <3>2. job[p].run = r
      BY <2>1, <2>3, <3>1 DEF Latest
    <3>3. \A q \in Permits : job[q].own /\ job[q].run = r => q = p
      BY <2>3, <3>2 DEF OwnInv
    <3>4. QED
      BY <2>2, <2>3, <3>1, <3>2, <3>3
  <2>5. ~RunOf(job[p].run, t)
    BY <2>3, <2>4 DEF RunOf
  <2>6. job[p].run \notin Trimmed(t)
    BY <2>5 DEF Trimmed
  <2>7. QED
    BY <2>1, <2>2, <2>3, <2>5, <2>6
<1>3. QED
  BY <1>1, <1>2

LEMMA StepSendInv ==
  ASSUME IInv, OwnInv, SendInv, ~Suspends, [Next]_vars PROVE SendInv'
<1>0. job \in [Permits -> JobType]
  BY DEF IInv, TypeOK, JobType
<1>1. ASSUME UNCHANGED <<run, strayed>>,
             \A p \in Permits : job'[p].phase = "executing" => job'[p] = job[p]
      PROVE  SendInv'
  BY <1>1 DEF SendInv
<1>2. ASSUME NEW t \in TaskIds, NEW enabled \in BOOLEAN,
             Create(t, enabled) \/ Update(t, enabled) \/ SetEnabled(t, enabled)
      PROVE  SendInv'
  BY <1>1, <1>2 DEF Create, Update, SetEnabled
<1>3. ASSUME NEW t \in TaskIds, Delete(t) PROVE SendInv'
  <2>1. /\ ~task[t].running
        /\ run' = [r \in RunIds |-> IF RunOf(r, t) THEN NoRun ELSE run[r]]
        /\ job' = Disowned({r \in RunIds : RunOf(r, t)})
        /\ UNCHANGED strayed
    BY <1>3 DEF Delete
  <2>2. ASSUME NEW p \in Permits, job'[p].phase = "executing", job'[p].task \notin strayed'
        PROVE  job'[p] = job[p] /\ run'[job[p].run] = run[job[p].run]
    <3>1. job[p].phase = "executing" /\ job[p].task \notin strayed
      BY <1>0, <2>1, <2>2, DisownedShape
    <3>2. /\ job[p].run \in RunIds /\ job[p].task \in TaskIds
          /\ RunOf(job[p].run, job[p].task) /\ task[job[p].task].running
      BY <3>1, SenderHolds
    <3>3. ~RunOf(job[p].run, t)
      BY <2>1, <3>2 DEF RunOf
    <3>4. QED
      BY <1>0, <2>1, <3>2, <3>3, DisownedShape
  <2>3. QED
    BY <2>1, <2>2 DEF SendInv
<1>4. ASSUME NEW t \in TaskIds, NEW manual \in BOOLEAN, NEW r \in RunIds, NEW p \in Permits,
             Trigger(t, manual, r, p)
      PROVE  SendInv'
  <2>1. /\ Claim(t, manual, r)
        /\ job' = [job EXCEPT ![p] = [phase |-> "executing", task |-> t, run |-> r,
                                      writes |-> Writes, own |-> TRUE]]
        /\ UNCHANGED strayed
    BY <1>4 DEF Trigger
  <2>2. /\ run[r].status = "none"
        /\ run'[r] = [task |-> t, status |-> "running", late |-> FALSE]
        /\ \A q \in RunIds : q # r => run'[q] = run[q]
    BY <2>1, TablesClaim
  <2>3. /\ job'[p] = [phase |-> "executing", task |-> t, run |-> r, writes |-> Writes, own |-> TRUE]
        /\ \A q \in Permits : q # p => job'[q] = job[q]
    BY <1>0, <2>1
  <2>4. ASSUME NEW q \in Permits, q # p, job[q].phase = "executing", job[q].task \notin strayed
        PROVE  job[q].run # r /\ run'[job[q].run] = run[job[q].run]
    <3>1. job[q].run \in RunIds /\ run[job[q].run].status = "running"
      BY <2>4, SenderHolds
    <3>2. QED
      BY <2>2, <3>1
  <2>5. QED
    BY <2>1, <2>2, <2>3, <2>4 DEF SendInv
<1>5. ASSUME NEW t \in TaskIds, NEW r \in RunIds, TriggerDropped(t, r) PROVE SendInv'
  <2>1. Claim(t, TRUE, r) /\ UNCHANGED <<job, strayed>>
    BY <1>5 DEF TriggerDropped
  <2>2. run[r].status = "none" /\ \A q \in RunIds : q # r => run'[q] = run[q]
    BY <2>1, TablesClaim
  <2>3. ASSUME NEW q \in Permits, job[q].phase = "executing", job[q].task \notin strayed
        PROVE  run'[job[q].run] = run[job[q].run]
    <3>1. job[q].run \in RunIds /\ run[job[q].run].status = "running"
      BY <2>3, SenderHolds
    <3>2. QED
      BY <2>2, <3>1
  <2>4. QED
    BY <2>1, <2>3 DEF SendInv
<1>6. ASSUME NEW p \in Permits, Respond(p) PROVE SendInv'
  <2>1. /\ UNCHANGED <<run, strayed>>
        /\ job[p].phase = "executing"
        /\ job' = [job EXCEPT ![p].phase = "recording"]
    BY <1>6 DEF Respond
  <2>2. job[p] \in [phase : {"executing", "recording"}, task : TaskIds, run : RunIds,
                    writes : 1 .. Writes, own : BOOLEAN]
    BY <1>0, <2>1, JobShape
  <2>3. job'[p].phase = "recording" /\ \A q \in Permits : q # p => job'[q] = job[q]
    BY <1>0, <2>1, <2>2
  <2>4. QED
    BY <1>1, <2>1, <2>3
<1>7. ASSUME NEW p \in Permits, WriteFails(p) PROVE SendInv'
  <2>1. /\ UNCHANGED <<run, strayed>>
        /\ job[p].phase = "recording"
        /\ job'[p] \in {Idle, [job[p] EXCEPT !.writes = @ - 1]}
        /\ \A q \in Permits : q # p => job'[q] = job[q]
    BY <1>0, <1>7 DEF WriteFails, AfterFailedWrite
  <2>2. job[p] \in [phase : {"executing", "recording"}, task : TaskIds, run : RunIds,
                    writes : 1 .. Writes, own : BOOLEAN]
    BY <1>0, <2>1, JobShape
  <2>3. job'[p].phase # "executing"
    BY <2>1, <2>2, IdleOwnsNothing
  <2>4. QED
    BY <1>1, <2>1, <2>3
<1>8. ASSUME NEW p \in Permits, WriteResult(p) PROVE SendInv'
  <2> DEFINE j == IF Finishes(job[p].run, job[p].task) THEN Disowned(Trimmed(job[p].task)) ELSE job
  <2>1. /\ job[p].phase = "recording"
        /\ FinishRun(job[p].run, job[p].task, "finished", job[p].own)
        /\ job' = [j EXCEPT ![p] = Idle]
    BY <1>8 DEF WriteResult
  <2>2. /\ j \in [Permits -> JobType]
        /\ \A q \in Permits : j[q].phase = job[q].phase /\ j[q].task = job[q].task
    BY <1>0, DisownedShape
  <2>3. job[p] \in [phase : {"executing", "recording"}, task : TaskIds, run : RunIds,
                    writes : 1 .. Writes, own : BOOLEAN]
    BY <1>0, <2>1, JobShape
  <2>4. job[p].run \in RunIds /\ job[p].task \in TaskIds /\ job[p].own \in BOOLEAN
    BY <2>3
  <2>5. ASSUME NEW q \in Permits, job'[q].phase = "executing", job'[q].task \notin strayed'
        PROVE  job'[q] = job[q] /\ job[q].task \notin strayed /\ run'[job[q].run] = run[job[q].run]
    <3>1. q # p /\ job'[q] = j[q]
      BY <2>1, <2>2, <2>5, IdleOwnsNothing
    <3>2. job[q].phase = "executing" /\ job[q].task \notin strayed'
      BY <2>2, <2>5, <3>1
    <3>3. /\ job[q].task \notin strayed
          /\ run'[job[q].run] = run[job[q].run]
          /\ Finishes(job[p].run, job[p].task) => job[q].run \notin Trimmed(job[p].task)
      BY <2>1, <2>4, <3>2, SendFinish
    <3>4. j[q] = job[q]
      BY <1>0, <3>3, DisownedShape
    <3>5. QED
      BY <3>1, <3>3, <3>4
  <2>6. QED
    BY <2>5 DEF SendInv
<1>9. ASSUME NEW r \in RunIds, NEW t \in TaskIds, Interrupt(r, t) PROVE SendInv'
  <2>1. /\ FinishRun(r, t, "interrupted", run[r].late)
        /\ job' = IF Finishes(r, t) THEN Disowned(Trimmed(t)) ELSE job
    BY <1>9 DEF Interrupt
  <2>2. run[r].late \in BOOLEAN
    BY DEF IInv, TypeOK
  <2>3. ASSUME NEW q \in Permits, job'[q].phase = "executing", job'[q].task \notin strayed'
        PROVE  job'[q] = job[q] /\ job[q].task \notin strayed /\ run'[job[q].run] = run[job[q].run]
    <3>1. job[q].phase = "executing" /\ job[q].task \notin strayed'
      BY <1>0, <2>1, <2>3, DisownedShape
    <3>2. /\ job[q].task \notin strayed
          /\ run'[job[q].run] = run[job[q].run]
          /\ Finishes(r, t) => job[q].run \notin Trimmed(t)
      BY <2>1, <2>2, <3>1, SendFinish
    <3>3. QED
      BY <1>0, <2>1, <3>2, DisownedShape
  <2>4. QED
    BY <2>3 DEF SendInv
<1>10. ASSUME NEW t \in TaskIds, Due(t) PROVE SendInv'
  BY <1>1, <1>10 DEF Due
<1>11. ASSUME NEW r \in RunIds, Late(r) PROVE SendInv'
  <2>1. /\ \A p \in Permits : ~(job[p].phase = "executing" /\ job[p].own /\ job[p].run = r)
        /\ \A q \in RunIds : q # r => run'[q] = run[q]
        /\ UNCHANGED <<job, strayed>>
    BY <1>11 DEF Late, IInv, TypeOK
  <2>2. ASSUME NEW q \in Permits, job[q].phase = "executing", job[q].task \notin strayed
        PROVE  run'[job[q].run] = run[job[q].run]
    <3>1. job[q].own /\ job[q].run \in RunIds
      BY <2>2, SenderHolds
    <3>2. QED
      BY <2>1, <2>2, <3>1
  <2>3. QED
    BY <2>1, <2>2 DEF SendInv
<1>12. ASSUME Scan PROVE SendInv'
  BY <1>1, <1>12 DEF Scan
<1>13. ASSUME Crash PROVE SendInv'
  <2>1. \A p \in Permits : job'[p] = Idle
    BY <1>13 DEF Crash
  <2>2. QED
    BY <2>1, IdleOwnsNothing DEF SendInv
<1>14. CASE UNCHANGED vars
  BY <1>1, <1>14 DEF vars
<1>15. QED
  BY <1>2, <1>3, <1>4, <1>5, <1>6, <1>7, <1>8, <1>9, <1>10, <1>11, <1>12, <1>13, <1>14 DEF Next

LEMMA SendInvNoOverlap ==
  ASSUME IInv, OwnInv, SendInv PROVE NoOverlap
<1>1. SUFFICES ASSUME NEW p \in Permits, NEW q \in Permits,
                      job[p].phase = "executing", job[q].phase = "executing",
                      job[p].task = job[q].task, job[p].task \notin strayed
               PROVE  p = q
  BY DEF NoOverlap
<1>2. /\ job[p].own /\ job[p].run \in RunIds /\ Latest(job[p].run, job[p].task)
      /\ job[q].own /\ job[q].run \in RunIds /\ Latest(job[q].run, job[q].task)
  BY <1>1, SenderHolds
<1>3. job[p].run = job[q].run
  BY <1>1, <1>2 DEF Latest
<1>4. QED
  BY <1>2, <1>3 DEF OwnInv

-----------------------------------------------------------------------------
(* A step changes no recorded outcome.                                     *)
LEMMA StepRecorded ==
  ASSUME IInv, [Next]_vars, NEW r \in RunIds, run[r].status \in {"finished", "interrupted"}
  PROVE  run'[r].status \in {run[r].status, "none"}
<1>0. job \in [Permits -> JobType]
  BY DEF IInv, TypeOK, JobType
<1>1. ASSUME NEW q \in RunIds, NEW t \in TaskIds, NEW own \in BOOLEAN,
             NEW status \in {"finished", "interrupted"}, FinishRun(q, t, status, own)
      PROVE  run'[r].status \in {run[r].status, "none"}
  <2>1. CASE ~Finishes(q, t)
    BY <1>1, <2>1, FinishShape DEF IInv
  <2>2. CASE Finishes(q, t)
    <3>1. r # q
      BY <2>2 DEF Finishes
    <3>2. run'[r] \in {NoRun, run[r]}
      BY <1>1, <2>2, <3>1, FinishShape DEF IInv
    <3>3. QED
      BY <3>2 DEF NoRun
  <2>3. QED
    BY <2>1, <2>2
<1>2. ASSUME NEW t \in TaskIds, NEW manual \in BOOLEAN, NEW q \in RunIds, Claim(t, manual, q)
      PROVE  run'[r].status \in {run[r].status, "none"}
  BY <1>2, TablesClaim
<1>3. ASSUME NEW t \in TaskIds, Delete(t) PROVE run'[r].status \in {run[r].status, "none"}
  BY <1>3 DEF Delete, NoRun
<1>4. ASSUME NEW p \in Permits, WriteResult(p) PROVE run'[r].status \in {run[r].status, "none"}
  <2>1. job[p].phase = "recording" /\ FinishRun(job[p].run, job[p].task, "finished", job[p].own)
    BY <1>4 DEF WriteResult
  <2>2. job[p] \in [phase : {"executing", "recording"}, task : TaskIds, run : RunIds,
                    writes : 1 .. Writes, own : BOOLEAN]
    BY <1>0, <2>1, JobShape
  <2>3. job[p].run \in RunIds /\ job[p].task \in TaskIds /\ job[p].own \in BOOLEAN
    BY <2>2
  <2>4. QED
    BY <1>1, <2>1, <2>3
<1>5. ASSUME NEW q \in RunIds, NEW t \in TaskIds, Interrupt(q, t)
      PROVE  run'[r].status \in {run[r].status, "none"}
  BY <1>1, <1>5 DEF Interrupt, IInv, TypeOK
<1>6. ASSUME NEW q \in RunIds, Late(q) PROVE run'[r].status \in {run[r].status, "none"}
  BY <1>6 DEF Late, IInv, TypeOK
<1>7. ASSUME Crash PROVE run'[r].status \in {run[r].status, "none"}
  BY <1>7 DEF Crash, Recovered
<1>8. CASE UNCHANGED run
  BY <1>8
<1>9. QED
  BY <1>2, <1>3, <1>4, <1>5, <1>6, <1>7, <1>8
     DEF Next, vars, Create, Update, SetEnabled, Trigger, TriggerDropped, Respond, WriteFails,
         Due, Scan

-----------------------------------------------------------------------------
LEMMA SpecIInv == Spec => [](IInv /\ OwnInv)
<1>1. IInv /\ OwnInv /\ [Next]_vars => (IInv /\ OwnInv)'
  BY StepIInv, StepOwnInv
<1>2. QED
  BY <1>1, InitIInv, PTL DEF Spec

(* Type correctness: no executor writes more often than it may.            *)
THEOREM SpecTypeOK == Spec => []TypeOK
<1>1. IInv => TypeOK
  BY DEF IInv
<1>2. QED
  BY <1>1, SpecIInv, PTL

(* A task is flagged as running exactly while its latest run, and no       *)
(* other, is recorded as running.                                          *)
THEOREM SpecRunningHasLatestRun == Spec => []RunningHasLatestRun
<1>1. IInv => RunningHasLatestRun
  BY DEF IInv
<1>2. QED
  BY <1>1, SpecIInv, PTL

(* As long as the wall clock does not run ahead of the executors' timers,  *)
(* a task never overlaps itself, except for ids that were held beyond a    *)
(* deletion.                                                               *)
THEOREM SpecNoOverlap ==
  ASSUME ~Suspends PROVE Spec => []NoOverlap
<1>1. IInv /\ OwnInv /\ SendInv /\ [Next]_vars => (IInv /\ OwnInv /\ SendInv)'
  BY StepIInv, StepOwnInv, StepSendInv
<1>2. IInv /\ OwnInv /\ SendInv => NoOverlap
  BY SendInvNoOverlap
<1>3. QED
  BY <1>1, <1>2, InitIInv, PTL DEF Spec

(* No recorded outcome is ever rewritten.                                  *)
THEOREM SpecRecordedIsFinal == Spec => RecordedIsFinal
<1>1. IInv /\ [Next]_vars =>
        [\A r \in RunIds : run[r].status \in {"finished", "interrupted"} =>
           run'[r].status \in {run[r].status, "none"}]_vars
  BY StepRecorded
<1>2. QED
  BY <1>1, SpecIInv, PTL DEF Spec, RecordedIsFinal
=============================================================================
