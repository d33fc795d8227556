-------------------------- MODULE MCScheduledTasks --------------------------
(* ScheduledTasks with a few ids and permits; two writes of a result, and  *)
(* one finished run kept per task.                                         *)
EXTENDS ScheduledTasks
=============================================================================
