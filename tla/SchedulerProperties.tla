------------------------- MODULE SchedulerProperties -------------------------
(***************************************************************************)
(* What the scheduler promises: to the user, to the executors, and about   *)
(* the two tables.                                                         *)
(***************************************************************************)
EXTENDS Scheduler

(* Every variable keeps its type; attempts stay within the retry limit.    *)
TypeOK ==
  /\ clock \in Time \ {NULL}
  /\ schedules \in [Schedules -> Schedule]
  /\ runs \in [RunIds -> JobRun]
  /\ cycle \in [Cycles -> Cycle]
  /\ exec \in [Tokens -> Execution]
  /\ active \in [RunIds -> Tokens \cup {NoToken}]
  /\ halts \in Nat

(* No-overlap: a schedule that forbids it never has two runs that are      *)
(* queued or running, however claims, manual runs, retries, lease recovery *)
(* and crashes interleave (ARCHITECTURE.md section 11).                    *)
NoOverlap ==
  \A s \in Schedules : ~AllowOverlap[s] =>
    \A q, r \in RunIds :
      /\ runs[q].sched = s /\ runs[q].state \in Open
      /\ runs[r].sched = s /\ runs[r].state \in Open
      => q = r

(* The attempt counter of a run is the number of executions it was ever    *)
(* given, over retries, lost leases and restarts: MaxAttempts bounds the   *)
(* work done, not just a column.                                           *)
AttemptsCountExecutions ==
  \A r \in RunIds : runs[r].state \notin {"none", "pruned"} =>
    Cardinality({t \in Tokens : exec[t].run = r}) = runs[r].attempt

(* A running row always carries a lease that can expire, and its token     *)
(* names an execution of that very run: nothing running is unrecoverable.  *)
RunningIsLeased ==
  \A r \in RunIds : runs[r].state = "running" =>
    /\ runs[r].until # NULL
    /\ runs[r].token \in Tokens
    /\ exec[runs[r].token].run = r

(* What activeRuns holds is a live execution of the run it is filed under, *)
(* so a user's cancellation never reaches a finished or a foreign one.     *)
ActiveIsLive ==
  \A r \in RunIds : active[r] # NoToken =>
    /\ exec[active[r]].run = r
    /\ exec[active[r]].pc \in {"executing", "returned"}

(* A cycle never runs more executors than its pool has slots, though a     *)
(* slot is taken before the claim and returned by the execution.           *)
PoolBounded == \A c \in Cycles : Cardinality(InFlight(c)) <= MaxConcurrent

(* Nothing is lost between the table of runs, the executions and what the  *)
(* process keeps about them.                                               *)
RunsAreAccounted ==
  AttemptsCountExecutions /\ RunningIsLeased /\ ActiveIsLive /\ PoolBounded

(* The next occurrence of an active interval schedule lies after every     *)
(* occurrence it has a row for, through backlog collapse, edits, pause and *)
(* resume: no occurrence comes up twice.                                   *)
IntervalMovesOn ==
  \A r \in DOMAIN runs : runs[r].sched \in Schedules /\ runs[r].trigger = "scheduled" =>
    LET sched == schedules[runs[r].sched]
    IN  sched.status = "active" /\ sched.kind = "interval"
          => runs[r].scheduledFor < sched.next

-----------------------------------------------------------------------------
(* While its lease has not expired, a run is touched by nobody but the     *)
(* execution that holds the lease: it renews, or it reports the outcome.   *)
LeaseRespected ==
  [][\A r \in RunIds :
       runs[r].state = "running" /\ runs[r].until > clock /\ runs'[r] # runs[r] =>
         \/ runs'[r].state = "running" /\ runs'[r].token = runs[r].token
         \/ /\ exec[runs[r].token].pc = "returned"
            /\ exec'[runs[r].token].pc = "done"]_vars

(* A finished run keeps its outcome: a late result, cancellation or        *)
(* recovery can only leave it alone, and the history limit may delete it.  *)
OutcomeIsFinal ==
  [][\A r \in RunIds : runs[r].state \in Terminal \cup {"pruned"} =>
       runs'[r] = runs[r] \/ runs'[r].state = "pruned"]_vars

(* The history limit deletes a row only when as many finished rows of its  *)
(* schedule, none of them older, remain.                                   *)
PruneKeepsNewest ==
  \A r \in DOMAIN runs :
    runs'[r].state = "pruned" /\ runs[r].state \notin {"none", "pruned"} =>
    Cardinality({q \in DOMAIN runs : /\ runs'[q].sched = runs[r].sched
                                     /\ runs'[q].state \in Terminal
                                     /\ runs'[q].created >= runs[r].created})
      >= HistoryLimit

(* No execution is granted for a deleted schedule, and for a paused one    *)
(* only a manual run, even when the cycle listed the work before the user  *)
(* acted ("queued scheduled retries wait until Resume").                   *)
ClaimsFollowSchedule ==
  \A t \in Tokens : exec[t].pc = "unused" /\ exec'[t].pc = "claimed" =>
    LET row == runs'[exec'[t].run]
        status == schedules[row.sched].status
    IN  /\ status # "deleted"
        /\ status = "paused" => row.trigger = "manual"

(* A deleted schedule stays deleted, whatever edit form is saved later     *)
(* ("a deleted schedule is never executable again").                       *)
DeletedIsFinal ==
  \A s \in Schedules :
    schedules[s].status = "deleted" => schedules'[s].status = "deleted"

(* Under the user's edits no occurrence comes up twice, claims follow the  *)
(* current row, deletion is final and pruning keeps the newest history.    *)
EditStep ==
  ClaimsFollowSchedule /\ DeletedIsFinal /\ PruneKeepsNewest /\ IntervalMovesOn'

EditsAreKept == [][EditStep]_vars

(* The runs as their users see them.                                       *)
Jobs == INSTANCE JobRuns WITH
          job <- [r \in RunIds |-> [phase |-> runs[r].state, sched |-> runs[r].sched,
                                    attempt |-> runs[r].attempt]]

(* The scheduler implements JobRuns: whatever interleaves, a run is        *)
(* accepted once, begins at most MaxAttempts executions, ends once, and    *)
(* shares its schedule with no other when that forbids overlap.            *)
ImplementsJobRuns == Jobs!Spec

-----------------------------------------------------------------------------
(* Statements of the repository that the code does not keep.               *)

(* "No-overlap, leases and CAS do not let two workers execute the same job *)
(* at the same time" (scheduler-plugins-and-background.md:28-29).          *)
NoConcurrentExecution ==
  \A t, u \in Tokens :
    /\ exec[t].pc = "executing" /\ exec[u].pc = "executing"
    /\ exec[t].run = exec[u].run
    => t = u

(* An operation that "would overwrite a newer version" is a conflict       *)
(* (domain/errors.go:9-11): an execution whose lease was recovered leaves  *)
(* the runs alone when it reports.                                         *)
StaleExecutorHarmless ==
  [][\A t \in Tokens :
       exec[t].pc = "returned" /\ exec'[t].pc = "done" /\ ~Holds(t)
         => runs' = runs]_vars

-----------------------------------------------------------------------------
(* Liveness.  The runtime schedules every goroutine, the poller's ticker   *)
(* keeps firing, an executor returns at the latest after its deadline, and *)
(* time passes.  Renewals, deadlines, faults and the user are not fair.    *)
Fairness ==
  /\ WF_vars(Tick)
  /\ \A c \in Cycles : WF_vars(CycleStep(c))
  /\ \A t \in Tokens :
       /\ WF_vars(Register(t))
       /\ WF_vars(\E result \in {"nil", "error", "canceled"} : Return(t, result))
       /\ WF_vars(Outcome(t))

(* Storage does not fail for ever: in the end a cycle only goes on to wait  *)
(* for its executions when it has looked at all its claims.                *)
StorageRecovers == <>[][\A c \in Cycles : AbortCycle(c) => ClaimsDone(c)]_vars

FairSpec == Spec /\ Fairness /\ StorageRecovers

(* A run does not stay running under one lease for ever: it ends, or its   *)
(* lease expires and is recovered, also when the process died under it.    *)
(* (A lease that ends beyond the modelled time cannot expire in it.)       *)
RunningEnds ==
  \A r \in RunIds, t \in Tokens :
    runs[r].token = t ~> runs[r].token # t \/ runs[r].until > MaxTime

(* A queued run whose retry time comes is eventually claimed or cancelled; *)
(* only deleting its schedule, or pausing it under a scheduled run, keeps  *)
(* it in the queue.                                                        *)
QueuedDrains ==
  \A r \in RunIds :
    runs[r].state = "queued" /\ runs[r].retryAt <= MaxTime
      ~> \/ runs[r].state # "queued"
         \/ schedules[runs[r].sched].status = "deleted"
         \/ runs[r].trigger = "scheduled" /\ schedules[runs[r].sched].status = "paused"

(* A due occurrence is eventually claimed, skipped or withdrawn by the     *)
(* user, as long as there are row identifiers left to give.  (An open run  *)
(* whose lease ends beyond the modelled time holds it up in it.)           *)
DueIsServed ==
  \A s \in Schedules, at \in 1..MaxTime :
    schedules[s].status = "active" /\ schedules[s].next = at
      ~> \/ schedules[s].status # "active"
         \/ schedules[s].next # at
         \/ \E r \in RunIds : runs[r].sched = s /\ runs[r].state = "running" /\ runs[r].until > MaxTime
         \/ FreshRuns = {}
=============================================================================
