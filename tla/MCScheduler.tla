----------------------------- MODULE MCScheduler -----------------------------
(* Finite instances of Scheduler for TLC.                                  *)
EXTENDS SchedulerProperties, TLC

MCNoOverlap == [s \in Schedules |-> FALSE]
MCRetryDelay == [a \in 0..MaxAttempts |-> 1]
MCNoDelay == [a \in 0..MaxAttempts |-> 0]
=============================================================================
