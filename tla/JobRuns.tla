------------------------------- MODULE JobRuns -------------------------------
(***************************************************************************)
(* What the scheduler promises about its job runs, without clocks, leases, *)
(* cycles or executors: a run is accepted once, is executed at most        *)
(* MaxAttempts times, ends once and keeps its schedule; executions begin   *)
(* one at a time; and a schedule that forbids overlap never has two runs   *)
(* in hand.                                                                *)
(***************************************************************************)
EXTENDS Integers, FiniteSets

CONSTANTS Schedules, RunIds, NoSchedule, MaxAttempts, AllowOverlap

VARIABLE job     \* what a caller can tell of every run

InHand == {"queued", "running"}
Over   == {"succeeded", "failed", "cancelled", "skipped"}

Job == [phase : {"none", "pruned"} \cup InHand \cup Over,
        sched : Schedules \cup {NoSchedule}, attempt : 0..MaxAttempts]

Unborn == [phase |-> "none", sched |-> NoSchedule, attempt |-> 0]

(* What may happen to one run in a step.                                   *)
Accepted(old, new) ==
  /\ old = Unborn
  /\ new.sched \in Schedules
  /\ \/ new.phase \in {"queued", "skipped"} /\ new.attempt = 0
     \/ new.phase = "running" /\ new.attempt = 1

Begun(old, new) ==
  /\ old.phase \in InHand
  /\ old.attempt < MaxAttempts
  /\ new = [old EXCEPT !.phase = "running", !.attempt = @ + 1]

Requeued(old, new) ==
  /\ old.phase = "running"
  /\ old.attempt < MaxAttempts
  /\ new = [old EXCEPT !.phase = "queued"]

Closed(old, new) ==
  \/ old.phase = "running" /\ \E over \in {"succeeded", "failed", "cancelled"} :
                                new = [old EXCEPT !.phase = over]
  \/ old.phase = "queued" /\ new = [old EXCEPT !.phase = "cancelled"]

Dropped(old, new) ==
  /\ old.phase # "pruned"
  /\ new = [Unborn EXCEPT !.phase = "pruned"]

Moves(old, new) ==
  \/ new = old
  \/ Accepted(old, new) \/ Begun(old, new) \/ Requeued(old, new)
  \/ Closed(old, new) \/ Dropped(old, new)

Exclusive(j) ==
  \A s \in Schedules : ~AllowOverlap[s] =>
    \A q, r \in RunIds : /\ j[q].sched = s /\ j[q].phase \in InHand
                         /\ j[r].sched = s /\ j[r].phase \in InHand
                         => q = r

Init == job = [r \in RunIds |-> Unborn]

(* A transaction may touch several runs: it recovers leases and trims the  *)
(* history besides its own work.                                           *)
Step ==
  /\ job' \in [RunIds -> Job]
  /\ \A r \in RunIds : Moves(job[r], job'[r])
  /\ \A q, r \in RunIds : /\ job'[q].attempt > job[q].attempt
                          /\ job'[r].attempt > job[r].attempt
                          => q = r
  /\ Exclusive(job')

Spec == Init /\ [][Step]_job
=============================================================================
