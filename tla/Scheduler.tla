------------------------------ MODULE Scheduler ------------------------------
(***************************************************************************)
(* The durable scheduler of internal/scheduler and its SQLite repository   *)
(* internal/storage/sqlite/scheduler*.go: schedules, job runs with leases, *)
(* the worker cycles that claim them, the executors that run them, and the *)
(* user's edits, manual runs and cancellations that interleave with both.  *)
(*                                                                         *)
(* Each repository call is one action: the database has one connection     *)
(* (open.go:41), so its transactions are serial.  A cycle keeps the clock  *)
(* reading and the listings it took earlier, an executor keeps the lease   *)
(* token it was given, and both act on them after others have moved on.    *)
(***************************************************************************)
EXTENDS Integers, FiniteSets

CONSTANTS
  Schedules,       \* schedule identifiers
  RunIds,          \* identifiers a job_runs row may get, each used once
  Tokens,          \* lease tokens, each used once: a token names an execution
  Cycles, Poller,  \* RunDue invocations; Poller is the worker goroutine's
  NoSchedule, NoToken, NoRun,
  Kinds, Policies, RunAtTimes, EnabledInputs,   \* what the user may enter
  AllowOverlap,    \* [Schedules -> BOOLEAN]
  MaxAttempts, HistoryLimit, RetryDelay,
  Interval, CronPeriod, LeaseDuration,
  MaxClaims, MaxConcurrent,
  StorageFaults,   \* whether a repository call may fail for other reasons
  MaxTime, MaxVersion, MaxHalts           \* bounds of the explored instance

ASSUME SetsAssumption ==
  /\ NoSchedule \notin Schedules
  /\ NoToken \notin Tokens
  /\ NoRun \notin RunIds
  /\ Poller \in Cycles
ASSUME InputAssumption ==
  /\ Kinds \subseteq {"once", "interval", "cron"}
  /\ Policies \subseteq {"run_once", "skip"}
  /\ RunAtTimes \subseteq Nat \ {0}
  /\ EnabledInputs \subseteq {"on", "off", "unset"}
ASSUME PolicyAssumption ==
  /\ AllowOverlap \in [Schedules -> BOOLEAN]
  /\ MaxAttempts \in 1..100
  /\ HistoryLimit \in Nat \ {0}
  /\ RetryDelay \in [0..MaxAttempts -> Nat]
  /\ Interval \in Nat \ {0}
  /\ CronPeriod \in Nat \ {0}
ASSUME WorkerAssumption ==
  /\ LeaseDuration \in Nat \ {0}
  /\ MaxClaims \in Nat \ {0}
  /\ MaxConcurrent \in Nat \ {0}
  /\ StorageFaults \in BOOLEAN
ASSUME BoundAssumption ==
  /\ MaxTime \in Nat
  /\ MaxVersion \in Nat
  /\ MaxHalts \in Nat

VARIABLES
  clock,      \* domain.Clock, a reading all processes share
  schedules,  \* table schedules
  runs,       \* table job_runs
  cycle,      \* locals of the RunDue invocations
  exec,       \* locals of the executions, by lease token
  active,     \* Scheduler.activeRuns: run -> cancel function (its execution)
  halts       \* crashes of the process and stops of a cycle

vars == <<clock, schedules, runs, cycle, exec, active, halts>>

NULL == 0     \* the zero time.Time and the SQL NULL; the clock starts at 1
Time == Nat

Terminal == {"succeeded", "failed", "cancelled", "skipped"}
Open     == {"queued", "running"}

Schedule ==
  [status : {"absent", "active", "paused", "completed", "deleted"},
   version : Nat, next : Time, kind : {"once", "interval", "cron"},
   policy : {"run_once", "skip"}, start : Time]

(* A row that was never inserted is "none"; one deleted by the history     *)
(* limit is "pruned".                                                      *)
JobRun ==
  [state : {"none", "pruned"} \cup Open \cup Terminal,
   sched : Schedules \cup {NoSchedule}, trigger : {"scheduled", "manual"},
   attempt : 0..MaxAttempts, token : Tokens \cup {NoToken}, until : Time,
   scheduledFor : Time, retryAt : Time, created : Time]

Snapshot ==
  [id : Schedules, version : Nat, next : Time, kind : {"once", "interval", "cron"},
   policy : {"run_once", "skip"}, start : Time]

Cycle ==
  [pc : {"off", "idle", "list", "retry", "due", "join"}, live : BOOLEAN,
   now : Time, retry : SUBSET RunIds, due : SUBSET Snapshot, left : Nat]

Execution ==
  [pc : {"unused", "claimed", "executing", "returned", "done"},
   run : RunIds \cup {NoRun}, cycle : Cycles,
   ctx : {"live", "canceled", "deadline", "lost"},
   verdict : {"none", "complete", "fail", "cancel"}]

AbsentSchedule ==
  [status |-> "absent", version |-> 0, next |-> NULL, kind |-> "once",
   policy |-> "run_once", start |-> NULL]

Row(state) ==
  [state |-> state, sched |-> NoSchedule, trigger |-> "scheduled", attempt |-> 0,
   token |-> NoToken, until |-> NULL, scheduledFor |-> NULL, retryAt |-> NULL,
   created |-> NULL]

CycleAt(pc) ==
  [pc |-> pc, live |-> TRUE, now |-> NULL, retry |-> {}, due |-> {}, left |-> 0]

Unused ==
  [pc |-> "unused", run |-> NoRun, cycle |-> Poller, ctx |-> "live",
   verdict |-> "none"]

-----------------------------------------------------------------------------
(* Occurrences.                                                            *)

(* Mutant: an interval occurrence may be the given time itself.            *)
NextOccurrenceInclusive(d, after) ==
  CASE d.kind = "once"     -> IF d.start > after THEN d.start ELSE NULL
    [] d.kind = "interval" -> IF d.start > after THEN d.start
                              ELSE d.start + ((after - d.start) \div Interval) * Interval
    [] d.kind = "cron"     -> (after \div CronPeriod + 1) * CronPeriod

NextOccurrence(d, after) ==
  CASE d.kind = "once"     -> IF d.start > after THEN d.start ELSE NULL
    [] d.kind = "interval" -> IF d.start > after THEN d.start
                              ELSE d.start + ((after - d.start) \div Interval + 1) * Interval
    [] d.kind = "cron"     -> (after \div CronPeriod + 1) * CronPeriod

(* One nanosecond before now: an occurrence at now itself still counts.    *)
InitialOccurrence(d, now) ==
  IF d.kind = "once" THEN d.start ELSE NextOccurrence(d, now - 1)

(* What a claim made at now leaves in next_run_at: run_once drops the rest *)
(* of an overdue backlog.                                                  *)
NextAfterClaim(d, now) ==
  LET n == NextOccurrence(d, d.next)
  IN  IF now > d.next /\ d.policy = "run_once" /\ n # NULL /\ n <= now
      THEN NextOccurrence(d, now) ELSE n

-----------------------------------------------------------------------------
(* The parts the repository's transactions share.                          *)

(* Mutant: only runs with attempts left are recovered.                     *)
RecoveredUnspent(rs, now) ==
  [r \in RunIds |->
     IF rs[r].state = "running" /\ rs[r].until <= now /\ rs[r].attempt < MaxAttempts
     THEN [rs[r] EXCEPT !.state = "queued", !.token = NoToken, !.until = NULL,
                        !.retryAt = now]
     ELSE rs[r]]

(* A run whose lease has run out goes back to the queue, or fails when its *)
(* attempts are used up.                                                   *)
Recovered(rs, now) ==
  [r \in RunIds |->
     IF rs[r].state = "running" /\ rs[r].until <= now
     THEN LET spent == rs[r].attempt >= MaxAttempts
          IN  [rs[r] EXCEPT !.state = IF spent THEN "failed" ELSE "queued",
                            !.token = NoToken, !.until = NULL,
                            !.retryAt = IF spent THEN NULL ELSE now]
     ELSE rs[r]]

(* Mutant: queued runs do not count.                                       *)
BusyRunning(rs, s, except) ==
  \E r \in RunIds \ except : rs[r].sched = s /\ rs[r].state = "running"

Busy(rs, s, except) ==
  \E r \in RunIds \ except : rs[r].sched = s /\ rs[r].state \in Open

(* The unique index on (schedule_id, execution_key); a manual run's key is *)
(* random and never collides.                                              *)
KeyTaken(rs, s, at) ==
  \E r \in RunIds : /\ rs[r].sched = s
                    /\ rs[r].trigger = "scheduled"
                    /\ rs[r].scheduledFor = at

(* The subsets of S an ORDER BY key LIMIT n may return.                    *)
Firsts(S, n, key(_)) ==
  {K \in SUBSET S :
     /\ Cardinality(K) = IF Cardinality(S) < n THEN Cardinality(S) ELSE n
     /\ \A k \in K, d \in S \ K : key(k) <= key(d)}

History(rs, s) == {r \in RunIds : rs[r].sched = s /\ rs[r].state \in Terminal}

(* The newest HistoryLimit terminal rows stay, the others are deleted; the *)
(* ids that break ties are random.                                         *)
Kept(rs, s) == Firsts(History(rs, s), HistoryLimit, LAMBDA r : 0 - rs[r].created)

Pruned(rs, s, kept) ==
  [r \in RunIds |-> IF r \in History(rs, s) \ kept THEN Row("pruned") ELSE rs[r]]

FreshRuns   == {r \in RunIds : runs[r].state = "none"}
FreshTokens == {t \in Tokens : exec[t].pc = "unused"}

Claimed(c, r) ==
  [pc |-> "claimed", run |-> r, cycle |-> c, ctx |-> "live", verdict |-> "none"]

(* Mutant: the next occurrence is not written.                             *)
AdvancedInPlace(s, next) ==
  [schedules EXCEPT ![s].status = IF next = NULL THEN "completed" ELSE @,
                    ![s].version = @ + 1]

Advanced(s, next) ==
  [schedules EXCEPT ![s].status = IF next = NULL THEN "completed" ELSE @,
                    ![s].next = next, ![s].version = @ + 1]

-----------------------------------------------------------------------------
Init ==
  /\ clock = 1
  /\ schedules = [s \in Schedules |-> AbsentSchedule]
  /\ runs = [r \in RunIds |-> Row("none")]
  /\ cycle = [c \in Cycles |-> CycleAt(IF c = Poller THEN "idle" ELSE "off")]
  /\ exec = [t \in Tokens |-> Unused]
  /\ active = [r \in RunIds |-> NoToken]
  /\ halts = 0

Tick ==
  /\ clock < MaxTime
  /\ clock' = clock + 1
  /\ UNCHANGED <<schedules, runs, cycle, exec, active, halts>>

-----------------------------------------------------------------------------
(* The user's schedule operations.  Each writes only if the version it     *)
(* read is still current, and every write of the row raises the version,   *)
(* so read and write are one step; a lost race changes nothing.            *)

Saved(s, sched) ==
  /\ schedules[s].version < MaxVersion
  /\ schedules' = [schedules EXCEPT ![s] = [sched EXCEPT !.version = schedules[s].version + 1]]
  /\ UNCHANGED <<clock, runs, cycle, exec, active, halts>>

(* scheduleFromInput: a one-shot starts at the entered time, an interval   *)
(* one interval from now, a cron schedule now.                             *)
FromInput(kind, policy, at, status) ==
  [status |-> status, version |-> 0, next |-> NULL, kind |-> kind, policy |-> policy,
   start |-> CASE kind = "once"     -> at
               [] kind = "interval" -> clock + Interval
               [] kind = "cron"     -> clock]

Rescheduled(sched) ==
  [sched EXCEPT !.next = IF sched.status = "active"
                         THEN InitialOccurrence(sched, clock) ELSE NULL]

CreateSchedule(s, kind, policy, at) ==
  /\ schedules[s].status = "absent"
  /\ Saved(s, Rescheduled(FromInput(kind, policy, at, "active")))

(* Saving the form of a completed schedule arms it again; the form's own   *)
(* enabled switch, when it is sent, decides whatever the status was.       *)
StatusFor(old, enabled) ==
  CASE enabled = "on"  -> "active"
    [] enabled = "off" -> "paused"
    [] enabled = "unset" -> IF old = "completed" THEN "active" ELSE old

UpdateSchedule(s, kind, policy, at, enabled) ==
  LET old == schedules[s].status
  IN  /\ old # "absent"
      /\ Saved(s, Rescheduled(FromInput(kind, policy, at, StatusFor(old, enabled))))

Pause(s) ==
  /\ schedules[s].status \in {"active", "paused"}
  /\ Saved(s, [schedules[s] EXCEPT !.status = "paused"])

Resume(s) ==
  /\ schedules[s].status \in {"active", "paused"}
  /\ Saved(s, [schedules[s] EXCEPT !.status = "active",
                 !.next = IF @ = NULL THEN InitialOccurrence(schedules[s], clock) ELSE @])

Delete(s) ==
  /\ schedules[s].status \notin {"absent", "deleted"}
  /\ Saved(s, [schedules[s] EXCEPT !.status = "deleted", !.next = NULL])

-----------------------------------------------------------------------------
(* The user's run operations.                                              *)

(* RunScheduleNow: ManualRun queues the run, then runSchedulerSoon starts  *)
(* one more cycle.                                                         *)
RunScheduleNow(s, c) ==
  LET rs == Recovered(runs, clock)
  IN  /\ schedules[s].status \notin {"absent", "deleted"}
      /\ AllowOverlap[s] \/ ~Busy(rs, s, {})
      /\ cycle[c].pc = "off"
      /\ \E r \in FreshRuns :
           LET inserted == [rs EXCEPT ![r] = [Row("queued") EXCEPT
                              !.sched = s, !.trigger = "manual",
                              !.scheduledFor = clock, !.created = clock]]
           IN  \E kept \in Kept(inserted, s) : runs' = Pruned(inserted, s, kept)
      /\ cycle' = [cycle EXCEPT ![c] = CycleAt("idle")]
      /\ UNCHANGED <<clock, schedules, exec, active, halts>>

Ended(row, state) ==
  [row EXCEPT !.state = state, !.token = NoToken, !.until = NULL, !.retryAt = NULL]

(* Replace row r by row and trim the history of its schedule.              *)
Finished(r, row) ==
  LET rs == [runs EXCEPT ![r] = row]
  IN  \E kept \in Kept(rs, row.sched) : runs' = Pruned(rs, row.sched, kept)

Interrupt(t, why) ==
  [exec EXCEPT ![t].ctx = IF @ = "live" THEN why ELSE @]

(* A run in activeRuns has its context cancelled; a queued one is ended in *)
(* the table; a running one that is not registered is a conflict.          *)
CancelJobRun(r) ==
  \/ /\ runs[r].state \in Open
     /\ active[r] # NoToken
     /\ exec' = Interrupt(active[r], "canceled")
     /\ UNCHANGED <<clock, schedules, runs, cycle, active, halts>>
  \/ /\ runs[r].state = "queued"
     /\ active[r] = NoToken
     /\ Finished(r, Ended(runs[r], "cancelled"))
     /\ UNCHANGED <<clock, schedules, cycle, exec, active, halts>>

-----------------------------------------------------------------------------
(* A worker cycle: RunDue and claimDue.                                    *)

InFlight(c) ==
  {t \in Tokens : exec[t].cycle = c /\ exec[t].pc \in {"claimed", "executing", "returned"}}

SlotFree(c) == Cardinality(InFlight(c)) < MaxConcurrent

(* The clock is read once; every claim of the cycle uses this reading.     *)
RunDue(c) ==
  /\ cycle[c].pc = "idle"
  /\ runs' = Recovered(runs, clock)
  /\ cycle' = [cycle EXCEPT ![c] = [CycleAt("list") EXCEPT !.now = clock]]
  /\ UNCHANGED <<clock, schedules, exec, active, halts>>

RetryAllowed(r) ==
  LET sched == schedules[runs[r].sched]
  IN  /\ sched.status # "deleted"
      /\ \/ sched.status = "active"
         \/ runs[r].trigger = "manual"
         \/ sched.status = "completed" /\ sched.kind = "once"

Retryable(now) ==
  {r \in RunIds : /\ runs[r].state = "queued"
                  /\ \/ runs[r].trigger = "manual" /\ runs[r].retryAt <= now
                     \/ runs[r].retryAt \in 1..now
                  /\ RetryAllowed(r)}

ListRetryableRuns(c) ==
  /\ cycle[c].pc = "list"
  /\ \E batch \in Firsts(Retryable(cycle[c].now), MaxClaims,
                         LAMBDA r : IF runs[r].retryAt = NULL THEN runs[r].created
                                                              ELSE runs[r].retryAt) :
       cycle' = [cycle EXCEPT ![c].pc = "retry", ![c].retry = batch, ![c].left = MaxClaims]
  /\ UNCHANGED <<clock, schedules, runs, exec, active, halts>>

(* A cycle makes at most MaxClaims claims.                                 *)
Retrying(c) == cycle[c].pc = "retry" /\ cycle[c].left > 0
Claiming(c) == cycle[c].pc = "due" /\ cycle[c].left > 0

(* Mutant: the last attempt is never given.                                *)
RetryReadyShort(rs, r, now) ==
  /\ rs[r].state = "queued"
  /\ rs[r].attempt + 1 < MaxAttempts
  /\ rs[r].trigger = "manual" \/ rs[r].retryAt \in 1..now
  /\ RetryAllowed(r)
  /\ AllowOverlap[rs[r].sched] \/ ~Busy(rs, rs[r].sched, {r})

RetryReady(rs, r, now) ==
  /\ rs[r].state = "queued"
  /\ rs[r].attempt < MaxAttempts
  /\ rs[r].trigger = "manual" \/ rs[r].retryAt \in 1..now
  /\ RetryAllowed(r)
  /\ AllowOverlap[rs[r].sched] \/ ~Busy(rs, rs[r].sched, {r})

(* A claim: the row runs under token t.  The lease counts from now, which  *)
(* is the cycle's clock reading and not the clock.                         *)
Leased(row, t, now) ==
  [row EXCEPT !.state = "running", !.attempt = row.attempt + 1, !.token = t,
              !.until = now + LeaseDuration, !.retryAt = NULL]

ClaimRetry(c, r) ==
  LET now == cycle[c].now
      rs  == Recovered(runs, now)
  IN  /\ Retrying(c)
      /\ r \in cycle[c].retry
      /\ SlotFree(c)
      /\ runs[r].state # "pruned"
      /\ RetryReady(rs, r, now)
      /\ \E t \in FreshTokens :
           /\ runs' = [rs EXCEPT ![r] = Leased(rs[r], t, now)]
           /\ exec' = [exec EXCEPT ![t] = Claimed(c, r)]
      /\ cycle' = [cycle EXCEPT ![c].retry = @ \ {r}, ![c].left = @ - 1]
      /\ UNCHANGED <<clock, schedules, active, halts>>

(* ErrConflict: the transaction is rolled back and the loop goes on.       *)
RetryConflict(c, r) ==
  /\ Retrying(c)
  /\ r \in cycle[c].retry
  /\ SlotFree(c)
  /\ runs[r].state # "pruned"
  /\ ~RetryReady(Recovered(runs, cycle[c].now), r, cycle[c].now) \/ FreshTokens = {}
  /\ cycle' = [cycle EXCEPT ![c].retry = @ \ {r}]
  /\ UNCHANGED <<clock, schedules, runs, exec, active, halts>>

(* ErrNotFound, or any other error: the cycle claims nothing more.         *)
AbortCycle(c) ==
  /\ \/ /\ Retrying(c)
        /\ SlotFree(c)
        /\ \E r \in cycle[c].retry : runs[r].state = "pruned"
     \/ StorageFaults /\ cycle[c].pc \in {"list", "retry", "due"}
  /\ cycle' = [cycle EXCEPT ![c] = [CycleAt("join") EXCEPT !.live = cycle[c].live]]
  /\ UNCHANGED <<clock, schedules, runs, exec, active, halts>>

SnapshotOf(s) ==
  [id |-> s, version |-> schedules[s].version, next |-> schedules[s].next,
   kind |-> schedules[s].kind, policy |-> schedules[s].policy, start |-> schedules[s].start]

Due(now) ==
  {s \in Schedules : schedules[s].status = "active" /\ schedules[s].next \in 1..now}

ListDueSchedules(c) ==
  /\ cycle[c].pc = "retry"
  /\ cycle[c].retry = {}
  /\ cycle[c].left > 0
  /\ \E batch \in Firsts(Due(cycle[c].now), cycle[c].left, LAMBDA s : schedules[s].next) :
       cycle' = [cycle EXCEPT ![c].pc = "due", ![c].due = {SnapshotOf(s) : s \in batch}]
  /\ UNCHANGED <<clock, schedules, runs, exec, active, halts>>

Misfired(d, now) == now > d.next /\ d.policy = "skip"

(* The compare-and-set of ClaimScheduled and RecordMisfire, with the       *)
(* overlap check and the unique execution key of the insert.               *)
Claimable(rs, d, now) ==
  /\ schedules[d.id].version = d.version
  /\ schedules[d.id].status = "active"
  /\ schedules[d.id].next = d.next
  /\ d.next \in 1..now
  /\ AllowOverlap[d.id] \/ ~Busy(rs, d.id, {})
  /\ ~KeyTaken(rs, d.id, d.next)

ScheduledRow(d, now) ==
  [Row("queued") EXCEPT !.sched = d.id, !.scheduledFor = d.next, !.created = now]

Skipped(row) == [row EXCEPT !.state = "skipped"]

ClaimScheduled(c, d) ==
  LET now == cycle[c].now
      rs  == Recovered(runs, now)
  IN  /\ Claiming(c)
      /\ d \in cycle[c].due
      /\ ~Misfired(d, now)
      /\ SlotFree(c)
      /\ Claimable(rs, d, now)
      /\ \E r \in FreshRuns, t \in FreshTokens :
           LET inserted == [rs EXCEPT ![r] = Leased(ScheduledRow(d, now), t, now)]
           IN  /\ \E kept \in Kept(inserted, d.id) : runs' = Pruned(inserted, d.id, kept)
               /\ exec' = [exec EXCEPT ![t] = Claimed(c, r)]
      /\ schedules' = Advanced(d.id, NextAfterClaim(d, now))
      /\ cycle' = [cycle EXCEPT ![c].due = @ \ {d}, ![c].left = @ - 1]
      /\ UNCHANGED <<clock, active, halts>>

(* RecordMisfire needs no slot and recovers no lease.                      *)
RecordMisfire(c, d) ==
  LET now == cycle[c].now
  IN  /\ Claiming(c)
      /\ d \in cycle[c].due
      /\ Misfired(d, now)
      /\ Claimable(runs, d, now)
      /\ \E r \in FreshRuns :
           LET inserted == [runs EXCEPT ![r] = Skipped(ScheduledRow(d, now))]
           IN  \E kept \in Kept(inserted, d.id) : runs' = Pruned(inserted, d.id, kept)
      /\ schedules' = Advanced(d.id, NextOccurrence(d, now))
      /\ cycle' = [cycle EXCEPT ![c].due = @ \ {d}]
      /\ UNCHANGED <<clock, exec, active, halts>>

DueConflict(c, d) ==
  LET now == cycle[c].now
  IN  /\ Claiming(c)
      /\ d \in cycle[c].due
      /\ \/ Misfired(d, now) /\ (~Claimable(runs, d, now) \/ FreshRuns = {})
         \/ /\ ~Misfired(d, now)
            /\ SlotFree(c)
            /\ ~Claimable(Recovered(runs, now), d, now) \/ FreshRuns = {} \/ FreshTokens = {}
      /\ cycle' = [cycle EXCEPT ![c].due = @ \ {d}]
      /\ UNCHANGED <<clock, schedules, runs, exec, active, halts>>

ClaimsDone(c) ==
  /\ \/ cycle[c].pc = "retry" /\ cycle[c].left = 0
     \/ cycle[c].pc = "due" /\ (cycle[c].due = {} \/ cycle[c].left = 0)
  /\ cycle' = [cycle EXCEPT ![c] = [CycleAt("join") EXCEPT !.live = cycle[c].live]]
  /\ UNCHANGED <<clock, schedules, runs, exec, active, halts>>

(* batch.join; the poller waits for its next tick, a run-soon cycle ends.  *)
Join(c) ==
  /\ cycle[c].pc = "join"
  /\ InFlight(c) = {}
  /\ cycle' = [cycle EXCEPT ![c] = CycleAt(IF c = Poller THEN "idle" ELSE "off")]
  /\ UNCHANGED <<clock, schedules, runs, exec, active, halts>>

(* Stop, or the application's shutdown, cancels the cycle's context and    *)
(* with it the contexts of its executions; a new worker may start once the *)
(* cycle has joined.                                                       *)
StopCycle(c) ==
  /\ cycle[c].pc \in {"list", "retry", "due", "join"}
  /\ cycle[c].live
  /\ halts < MaxHalts
  /\ halts' = halts + 1
  /\ cycle' = [cycle EXCEPT ![c] = [CycleAt("join") EXCEPT !.live = FALSE]]
  /\ exec' = [t \in Tokens |-> IF t \in InFlight(c) /\ exec[t].ctx = "live"
                               THEN [exec[t] EXCEPT !.ctx = "canceled"] ELSE exec[t]]
  /\ UNCHANGED <<clock, schedules, runs, active>>

-----------------------------------------------------------------------------
(* An execution: executeClaim.                                             *)

(* Mutant: the lease token is not compared.                                *)
HoldsAny(t) == runs[exec[t].run].state = "running"

Holds(t) == LET r == exec[t].run
            IN  runs[r].state = "running" /\ runs[r].token = t

Register(t) ==
  /\ exec[t].pc = "claimed"
  /\ exec' = [exec EXCEPT ![t].pc = "executing"]
  /\ active' = [active EXCEPT ![exec[t].run] = t]
  /\ UNCHANGED <<clock, schedules, runs, cycle, halts>>

RenewLease(t) ==
  LET r == exec[t].run
  IN  /\ exec[t].pc = "executing"
      /\ exec[t].ctx = "live"
      /\ Holds(t)
      /\ runs[r].until > clock
      /\ runs' = [runs EXCEPT ![r].until = clock + LeaseDuration]
      /\ UNCHANGED <<clock, schedules, cycle, exec, active, halts>>

(* A renewal that fails cancels the execution's context.                   *)
RenewFails(t) ==
  /\ exec[t].pc = "executing"
  /\ exec[t].ctx = "live"
  /\ ~(Holds(t) /\ runs[exec[t].run].until > clock) \/ StorageFaults
  /\ exec' = Interrupt(t, "lost")
  /\ UNCHANGED <<clock, schedules, runs, cycle, active, halts>>

Deadline(t) ==
  /\ exec[t].pc = "executing"
  /\ exec[t].ctx = "live"
  /\ exec' = Interrupt(t, "deadline")
  /\ UNCHANGED <<clock, schedules, runs, cycle, active, halts>>

(* How executeClaim reads the executor's return, the renewal's error and   *)
(* the two contexts.                                                       *)
Verdict(t, result) ==
  LET err == IF result # "nil" THEN result
             ELSE CASE exec[t].ctx = "lost"     -> "error"
                    [] exec[t].ctx = "deadline" -> "error"
                    [] exec[t].ctx = "canceled" -> "canceled"
                    [] exec[t].ctx = "live"     -> "nil"
  IN  IF ~cycle[exec[t].cycle].live \/ err = "canceled" THEN "cancel"
      ELSE IF err = "nil" THEN "complete" ELSE "fail"

(* The executor may ignore its context; it reports context.Canceled only   *)
(* when the context was cancelled.                                         *)
Return(t, result) ==
  /\ exec[t].pc = "executing"
  /\ result = "canceled" => exec[t].ctx \in {"canceled", "lost"}
  /\ exec' = [exec EXCEPT ![t].pc = "returned", ![t].verdict = Verdict(t, result)]
  /\ UNCHANGED <<clock, schedules, runs, cycle, active, halts>>

(* Mutant: the execution stays in activeRuns.                              *)
LeaveRegistered(t) ==
  /\ exec' = [exec EXCEPT ![t] = [Claimed(Poller, exec[t].run) EXCEPT !.pc = "done"]]
  /\ UNCHANGED <<clock, schedules, cycle, active, halts>>

(* The execution leaves activeRuns whatever the database said.             *)
Leave(t) ==
  /\ exec' = [exec EXCEPT ![t] = [Claimed(Poller, exec[t].run) EXCEPT !.pc = "done"]]
  /\ active' = [active EXCEPT ![exec[t].run] = NoToken]
  /\ UNCHANGED <<clock, schedules, cycle, halts>>

(* Mutant: attempts are not limited.                                       *)
FailedRetried(row) ==
  IF schedules[row.sched].status # "deleted"
  THEN [Ended(row, "queued") EXCEPT !.retryAt = clock + RetryDelay[row.attempt]]
  ELSE Ended(row, "failed")

Failed(row) ==
  IF row.attempt < MaxAttempts /\ schedules[row.sched].status # "deleted"
  THEN [Ended(row, "queued") EXCEPT !.retryAt = clock + RetryDelay[row.attempt]]
  ELSE Ended(row, "failed")

CompleteRun(t) ==
  /\ exec[t].pc = "returned" /\ exec[t].verdict = "complete"
  /\ Holds(t)
  /\ Finished(exec[t].run, Ended(runs[exec[t].run], "succeeded"))
  /\ Leave(t)

FailRun(t) ==
  /\ exec[t].pc = "returned" /\ exec[t].verdict = "fail"
  /\ Holds(t)
  /\ Finished(exec[t].run, Failed(runs[exec[t].run]))
  /\ Leave(t)

(* Mutant: the row is cancelled whatever its state.                        *)
CancelRunUnchecked(t) ==
  /\ exec[t].pc = "returned" /\ exec[t].verdict = "cancel"
  /\ runs[exec[t].run].state # "pruned"
  /\ Finished(exec[t].run, Ended(runs[exec[t].run], "cancelled"))
  /\ Leave(t)

(* CancelRun compares the token only with a running row; a queued row is   *)
(* cancelled for any caller.                                               *)
CancelRun(t) ==
  /\ exec[t].pc = "returned" /\ exec[t].verdict = "cancel"
  /\ Holds(t) \/ runs[exec[t].run].state = "queued"
  /\ Finished(exec[t].run, Ended(runs[exec[t].run], "cancelled"))
  /\ Leave(t)

(* The repository refuses the outcome (ErrConflict, ErrNotFound) or fails; *)
(* executeClaim ignores the error.                                         *)
OutcomeLost(t) ==
  /\ exec[t].pc = "returned"
  /\ \/ StorageFaults
     \/ /\ ~Holds(t)
        /\ exec[t].verdict = "cancel" => runs[exec[t].run].state # "queued"
  /\ runs' = runs
  /\ Leave(t)

-----------------------------------------------------------------------------
(* The process dies and starts again: goroutines, activeRuns and contexts  *)
(* are gone, the tables are not.                                           *)
Crash ==
  /\ halts < MaxHalts
  /\ halts' = halts + 1
  /\ cycle' = [c \in Cycles |-> CycleAt(IF c = Poller THEN "idle" ELSE "off")]
  /\ exec' = [t \in Tokens |-> IF exec[t].pc = "unused" THEN Unused
                               ELSE [Claimed(Poller, exec[t].run) EXCEPT !.pc = "done"]]
  /\ active' = [r \in RunIds |-> NoToken]
  /\ UNCHANGED <<clock, schedules, runs>>

UserStep ==
  \/ \E s \in Schedules, kind \in Kinds, policy \in Policies, at \in RunAtTimes :
       \/ CreateSchedule(s, kind, policy, at)
       \/ \E enabled \in EnabledInputs : UpdateSchedule(s, kind, policy, at, enabled)
  \/ \E s \in Schedules : Pause(s) \/ Resume(s) \/ Delete(s)
  \/ \E s \in Schedules, c \in Cycles \ {Poller} : RunScheduleNow(s, c)
  \/ \E r \in RunIds : CancelJobRun(r)

CycleStep(c) ==
  \/ RunDue(c) \/ ListRetryableRuns(c) \/ ListDueSchedules(c) \/ ClaimsDone(c) \/ Join(c)
  \/ \E r \in cycle[c].retry : ClaimRetry(c, r) \/ RetryConflict(c, r)
  \/ \E d \in cycle[c].due : ClaimScheduled(c, d) \/ RecordMisfire(c, d) \/ DueConflict(c, d)

Outcome(t) == CompleteRun(t) \/ FailRun(t) \/ CancelRun(t) \/ OutcomeLost(t)

ExecStep(t) ==
  \/ Register(t) \/ RenewLease(t) \/ RenewFails(t) \/ Deadline(t) \/ Outcome(t)
  \/ \E result \in {"nil", "error", "canceled"} : Return(t, result)

Next ==
  \/ Tick
  \/ UserStep
  \/ \E c \in Cycles : CycleStep(c) \/ AbortCycle(c) \/ StopCycle(c)
  \/ \E t \in Tokens : ExecStep(t)
  \/ Crash

Spec == Init /\ [][Next]_vars
=============================================================================
