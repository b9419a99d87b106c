--------------------------- MODULE SchedulerProofs ---------------------------
(***************************************************************************)
(* Proofs about Scheduler for every number of schedules, runs, executions  *)
(* and cycles, every retry and lease setting and every kind of schedule.   *)
(*                                                                         *)
(* A later part shows that the scheduler implements JobRuns and accounts   *)
(* for every execution it grants.  Both rest on one reading of the steps:  *)
(* a step either grants one execution of one run, under a fresh token and  *)
(* a free slot, or it grants none; every other row it touches moves the    *)
(* way JobRuns allows.                                                     *)
(***************************************************************************)
EXTENDS SchedulerProperties, FiniteSetTheorems, TLAPS

-----------------------------------------------------------------------------
(* Occurrences.                                                            *)

(* Integer division of a natural number by a positive one.                 *)
LEMMA DivNat ==
  ASSUME NEW a \in Nat, NEW b \in Nat \ {0}
  PROVE  (a \div b + 1) * b \in Nat
<1>1. a \div b \in Nat
  BY SMT
<1> QED
  BY <1>1, SMT

(* An occurrence after a time is a time (NULL when there is none).         *)
LEMMA NextOccurrenceTime ==
  ASSUME NEW d, d.start \in Time, d.kind \in {"once", "interval", "cron"},
         NEW after \in Time
  PROVE  NextOccurrence(d, after) \in Time
<1>1. CASE d.kind = "once"
  BY <1>1 DEF NextOccurrence, Time, NULL
<1>2. CASE d.kind = "interval" /\ d.start > after
  BY <1>2 DEF NextOccurrence, Time
<1>3. CASE d.kind = "interval" /\ ~(d.start > after)
  <2>1. after - d.start \in Nat
    BY <1>3 DEF Time
  <2>2. ((after - d.start) \div Interval + 1) * Interval \in Nat
    BY <2>1, DivNat, PolicyAssumption
  <2>3. NextOccurrence(d, after)
          = d.start + ((after - d.start) \div Interval + 1) * Interval
    BY <1>3 DEF NextOccurrence
  <2> QED
    BY <2>2, <2>3 DEF Time
<1>4. CASE d.kind = "cron"
  <2>1. (after \div CronPeriod + 1) * CronPeriod \in Nat
    BY DivNat, PolicyAssumption DEF Time
  <2> QED
    BY <1>4, <2>1 DEF NextOccurrence, Time
<1> QED
  BY <1>1, <1>2, <1>3, <1>4

(* The first occurrence of a schedule is a time.                           *)
LEMMA InitialOccurrenceTime ==
  ASSUME NEW d, d.start \in Time, d.kind \in {"once", "interval", "cron"},
         NEW now \in Time \ {NULL}
  PROVE  InitialOccurrence(d, now) \in Time
<1>1. now - 1 \in Time
  BY DEF Time, NULL
<1> QED
  BY <1>1, NextOccurrenceTime DEF InitialOccurrence

(* So is the occurrence a claim advances to.                               *)
LEMMA NextAfterClaimTime ==
  ASSUME NEW d \in Snapshot, NEW now \in Time
  PROVE  NextAfterClaim(d, now) \in Time
BY NextOccurrenceTime DEF NextAfterClaim, Snapshot

-----------------------------------------------------------------------------
(* The parts of the transactions on the runs.                              *)

Table == [RunIds -> JobRun]

(* Taking a row's lease away leaves a row.                                 *)
Released(row, state, retryAt) ==
  [row EXCEPT !.state = state, !.token = NoToken, !.until = NULL, !.retryAt = retryAt]

(* Releasing a row changes its state and its lease only.                   *)
LEMMA ReleasedRow ==
  ASSUME NEW row \in JobRun, NEW state \in Open \cup Terminal, NEW at \in Time
  PROVE  /\ Released(row, state, at) \in JobRun
         /\ Released(row, state, at).state = state
         /\ Released(row, state, at).token = NoToken
         /\ Released(row, state, at).sched = row.sched
         /\ Released(row, state, at).attempt = row.attempt
BY DEF Released, JobRun, Time, NULL

(* What lease recovery does to one row.                                    *)
LEMMA RecoveredRow ==
  ASSUME NEW rs \in Table, NEW now \in Time, NEW r \in RunIds
  PROVE  \/ Recovered(rs, now)[r] = rs[r]
         \/ /\ rs[r].state = "running" /\ rs[r].until <= now
            /\ Recovered(rs, now)[r] \in JobRun
            /\ Recovered(rs, now)[r].state \in {"queued", "failed"}
            /\ Recovered(rs, now)[r].token = NoToken
            /\ Recovered(rs, now)[r].sched = rs[r].sched
            /\ Recovered(rs, now)[r].attempt = rs[r].attempt
            /\ Recovered(rs, now)[r].state = "queued" => rs[r].attempt < MaxAttempts
<1>1. rs[r] \in JobRun
  BY DEF Table
<1>2. CASE rs[r].state = "running" /\ rs[r].until <= now
  <2>1. CASE rs[r].attempt >= MaxAttempts
    <3>1. Recovered(rs, now)[r] =
            Released(rs[r], "failed", NULL)
      BY <1>2, <2>1 DEF Recovered, Released
    <3>2. "failed" \in Open \cup Terminal /\ NULL \in Time
      BY DEF Terminal, Time, NULL
    <3> QED
      BY <1>1, <1>2, <3>1, <3>2, ReleasedRow
  <2>2. CASE ~(rs[r].attempt >= MaxAttempts)
    <3>1. Recovered(rs, now)[r] =
            Released(rs[r], "queued", now)
      BY <1>2, <2>2 DEF Recovered, Released
    <3>2. rs[r].attempt < MaxAttempts
      BY <1>1, <2>2, PolicyAssumption DEF JobRun
    <3>3. "queued" \in Open \cup Terminal
      BY DEF Open
    <3> QED
      BY <1>1, <1>2, <3>1, <3>2, <3>3, ReleasedRow
  <2> QED
    BY <2>1, <2>2
<1>3. CASE ~(rs[r].state = "running" /\ rs[r].until <= now)
  BY <1>3 DEF Recovered
<1> QED
  BY <1>2, <1>3

(* Recovery maps tables to tables.                                         *)
LEMMA RecoveredTable ==
  ASSUME NEW rs \in Table, NEW now \in Time
  PROVE  Recovered(rs, now) \in Table
<1>1. \A r \in RunIds : Recovered(rs, now)[r] \in JobRun
  BY RecoveredRow DEF Table
<1>2. Recovered(rs, now) = [r \in RunIds |-> Recovered(rs, now)[r]]
  BY DEF Recovered
<1> QED
  BY <1>1, <1>2 DEF Table

(* A blank row is a row.                                                   *)
LEMMA RowType ==
  ASSUME NEW state \in {"none", "pruned"} \cup Open \cup Terminal
  PROVE  Row(state) \in JobRun
BY PolicyAssumption DEF Row, JobRun, Time, NULL

(* The rows the inserts write.                                             *)
LEMMA InsertedRow ==
  ASSUME NEW state \in Open \cup Terminal, NEW s \in Schedules,
         NEW trigger \in {"scheduled", "manual"}, NEW at \in Time, NEW created \in Time
  PROVE  LET row == [Row(state) EXCEPT !.sched = s, !.trigger = trigger,
                                       !.scheduledFor = at, !.created = created]
         IN  row \in JobRun /\ row.state = state /\ row.sched = s /\ row.attempt = 0
<1> DEFINE blank == Row(state)
<1>1. blank \in JobRun
  BY RowType
<1>2. blank.state = state /\ blank.attempt = 0
  BY DEF Row
<1> HIDE DEF blank
<1>3. [blank EXCEPT !.sched = s, !.trigger = trigger,
                    !.scheduledFor = at, !.created = created] \in JobRun
  BY <1>1 DEF JobRun
<1> QED
  BY <1>1, <1>2, <1>3 DEF JobRun, blank

(* The history limit deletes finished rows and leaves the others alone.    *)
LEMMA PrunedRow ==
  ASSUME NEW rs \in Table, NEW s, NEW kept, NEW r \in RunIds
  PROVE  \/ Pruned(rs, s, kept)[r] = rs[r]
         \/ rs[r].state \in Terminal /\ Pruned(rs, s, kept)[r] = Row("pruned")
BY DEF Pruned, History

(* So does pruning.                                                        *)
LEMMA PrunedTable ==
  ASSUME NEW rs \in Table, NEW s, NEW kept
  PROVE  Pruned(rs, s, kept) \in Table
<1>1. \A r \in RunIds : Pruned(rs, s, kept)[r] \in JobRun
  BY PrunedRow, RowType DEF Table
<1>2. Pruned(rs, s, kept) = [r \in RunIds |-> Pruned(rs, s, kept)[r]]
  BY DEF Pruned
<1> QED
  BY <1>1, <1>2 DEF Table

(* So does the transaction that ends a run.                                *)
LEMMA FinishedTable ==
  ASSUME runs \in Table, NEW r \in RunIds, NEW row \in JobRun, Finished(r, row)
  PROVE  runs' \in Table
<1>1. [runs EXCEPT ![r] = row] \in Table
  BY DEF Table
<1>2. PICK kept : runs' = Pruned([runs EXCEPT ![r] = row], row.sched, kept)
  BY DEF Finished
<1> QED
  BY <1>1, <1>2, PrunedTable

(* Ending a row keeps its schedule and its attempts.                       *)
LEMMA EndedRow ==
  ASSUME NEW row \in JobRun, NEW state \in Open \cup Terminal
  PROVE  /\ Ended(row, state) \in JobRun
         /\ Ended(row, state).state = state
         /\ Ended(row, state).sched = row.sched
         /\ Ended(row, state).attempt = row.attempt
<1>1. Ended(row, state) = Released(row, state, NULL) /\ NULL \in Time
  BY DEF Ended, Released, NULL, Time
<1> QED
  BY <1>1, ReleasedRow

(* A schedule with another status, time and version is one.                *)
LEMMA ScheduleRow ==
  ASSUME NEW row \in Schedule, NEW next \in Time, NEW version \in Nat,
         NEW status \in {"absent", "active", "paused", "completed", "deleted"}
  PROVE  [row EXCEPT !.status = status, !.next = next, !.version = version] \in Schedule
BY DEF Schedule

(* Advancing a schedule keeps the schedules' type.                         *)
LEMMA AdvancedType ==
  ASSUME schedules \in [Schedules -> Schedule], NEW s, NEW next \in Time
  PROVE  Advanced(s, next) \in [Schedules -> Schedule]
<1> SUFFICES ASSUME s \in Schedules
             PROVE  Advanced(s, next) \in [Schedules -> Schedule]
  BY DEF Advanced
<1> DEFINE old     == schedules[s]
           status  == IF next = NULL THEN "completed" ELSE old.status
           version == old.version + 1
<1>1. old \in Schedule
  OBVIOUS
<1>2. status \in {"absent", "active", "paused", "completed", "deleted"}
  BY <1>1 DEF Schedule
<1>3. version \in Nat
  BY <1>1 DEF Schedule
<1>4. Advanced(s, next) =
        [schedules EXCEPT ![s] = [old EXCEPT !.status = status, !.next = next,
                                             !.version = version]]
  BY DEF Advanced
<1> HIDE DEF old, status, version
<1>5. [old EXCEPT !.status = status, !.next = next, !.version = version] \in Schedule
  BY <1>1, <1>2, <1>3, ScheduleRow
<1> QED
  BY <1>4, <1>5

(* A schedule computed from user input is one, and rescheduling keeps it.  *)
LEMMA InputType ==
  ASSUME clock \in Time \ {NULL}, NEW kind \in Kinds, NEW policy \in Policies,
         NEW at \in RunAtTimes,
         NEW status \in {"absent", "active", "paused", "completed", "deleted"}
  PROVE  Rescheduled(FromInput(kind, policy, at, status)) \in Schedule
<1> DEFINE sched == FromInput(kind, policy, at, status)
<1>1. sched \in Schedule
  BY InputAssumption, PolicyAssumption DEF FromInput, Schedule, Time, NULL
<1>2. sched.start \in Time /\ sched.kind \in {"once", "interval", "cron"}
  BY <1>1 DEF Schedule
<1>3. InitialOccurrence(sched, clock) \in Time
  BY <1>2, InitialOccurrenceTime
<1> DEFINE next == IF sched.status = "active" THEN InitialOccurrence(sched, clock)
                                             ELSE NULL
<1>4. next \in Time
  BY <1>3 DEF Time, NULL
<1>5. Rescheduled(sched) = [sched EXCEPT !.next = next]
  BY DEF Rescheduled
<1> HIDE DEF sched, next
<1>6. [sched EXCEPT !.next = next] \in Schedule
  BY <1>1, <1>4 DEF Schedule
<1> QED
  BY <1>5, <1>6 DEF sched

(* Saving a schedule keeps the schedules' type.                            *)
LEMMA SavedType ==
  ASSUME schedules \in [Schedules -> Schedule], NEW s \in Schedules,
         NEW sched \in Schedule, Saved(s, sched)
  PROVE  schedules' \in [Schedules -> Schedule]
BY DEF Saved, Schedule

-----------------------------------------------------------------------------
(* Types.  An outcome is written to the row of the execution, so the type  *)
(* of the runs needs that an execution in use names a run.                 *)

ExecutionsKnown == \A t \in Tokens : exec[t].pc = "unused" <=> exec[t].run = NoRun

Typed == TypeOK /\ ExecutionsKnown

ExecType == /\ exec \in [Tokens -> Execution]
            /\ ExecutionsKnown

(* An execution in use names a run.                                        *)
LEMMA ExecutionUsed ==
  ASSUME ExecType, NEW t \in Tokens, exec[t].pc # "unused"
  PROVE  exec[t].run \in RunIds
BY DEF ExecType, ExecutionsKnown, Execution

(* The execution of a claim is well formed.                                *)
LEMMA ClaimedType ==
  ASSUME ExecType, NEW t \in Tokens, NEW c \in Cycles, NEW r \in RunIds,
         exec' = [exec EXCEPT ![t] = Claimed(c, r)]
  PROVE  ExecType'
<1>1. Claimed(c, r) \in Execution
  BY DEF Claimed, Execution
<1>2. Claimed(c, r).pc # "unused" /\ Claimed(c, r).run # NoRun
  BY SetsAssumption DEF Claimed
<1> QED
  BY <1>1, <1>2 DEF ExecType, ExecutionsKnown

(* Interrupting an execution keeps the executions' type.                   *)
LEMMA InterruptType ==
  ASSUME ExecType, NEW t, NEW why \in {"canceled", "deadline", "lost"},
         exec' = Interrupt(t, why)
  PROVE  ExecType'
<1> DEFINE ctx == IF exec[t].ctx = "live" THEN why ELSE exec[t].ctx
           new == [exec[t] EXCEPT !.ctx = ctx]
<1>1. exec' = [exec EXCEPT ![t] = new]
  BY DEF Interrupt
<1>2. CASE t \in Tokens
  <2>1. exec[t] \in Execution
    BY <1>2 DEF ExecType
  <2>2. ctx \in {"live", "canceled", "deadline", "lost"}
    BY <2>1 DEF Execution
  <2> HIDE DEF ctx
  <2>3. new \in Execution /\ new.pc = exec[t].pc /\ new.run = exec[t].run
    BY <2>1, <2>2 DEF Execution
  <2> HIDE DEF new
  <2> QED
    BY <1>1, <1>2, <2>3 DEF ExecType, ExecutionsKnown
<1>3. CASE t \notin Tokens
  <2>1. exec' = exec
    BY <1>1, <1>3 DEF ExecType
  <2> QED
    BY <2>1 DEF ExecType, ExecutionsKnown
<1> QED
  BY <1>2, <1>3

(* So does its end, which also frees its place in the pool.                *)
LEMMA LeaveType ==
  ASSUME ExecType, active \in [RunIds -> Tokens \cup {NoToken}],
         NEW t \in Tokens, exec[t].pc # "unused", Leave(t)
  PROVE  ExecType' /\ active' \in [RunIds -> Tokens \cup {NoToken}]
<1> DEFINE done == [Claimed(Poller, exec[t].run) EXCEPT !.pc = "done"]
<1>1. exec[t].run \in RunIds
  BY ExecutionUsed
<1>2. done \in Execution /\ done.pc = "done" /\ done.run = exec[t].run
  BY <1>1, SetsAssumption DEF Claimed, Execution
<1>3. exec' = [exec EXCEPT ![t] = done] /\ active' = [active EXCEPT ![exec[t].run] = NoToken]
  BY DEF Leave
<1> HIDE DEF done
<1> QED
  BY <1>1, <1>2, <1>3, SetsAssumption DEF ExecType, ExecutionsKnown

(* A cycle at the beginning of a phase is well formed.                     *)
LEMMA CycleStart ==
  ASSUME NEW pc \in {"off", "idle", "list", "retry", "due", "join"}, NEW now \in Time,
         NEW live \in BOOLEAN
  PROVE  /\ [CycleAt(pc) EXCEPT !.now = now] \in Cycle
         /\ [CycleAt(pc) EXCEPT !.live = live] \in Cycle
         /\ CycleAt(pc) \in Cycle
BY DEF CycleAt, Cycle, Time, NULL

(* The type invariant, by parts.                                           *)
LEMMA TypedParts ==
  Typed <=> /\ clock \in Time \ {NULL}
            /\ schedules \in [Schedules -> Schedule]
            /\ runs \in Table
            /\ cycle \in [Cycles -> Cycle]
            /\ ExecType
            /\ active \in [RunIds -> Tokens \cup {NoToken}]
            /\ halts \in Nat
BY DEF Typed, TypeOK, ExecType, Table

(* A stutter keeps the types.                                              *)
LEMMA TypedUnchanged ==
  ASSUME Typed, UNCHANGED vars
  PROVE  Typed'
BY DEF vars, Typed, TypeOK, ExecutionsKnown

(* The initial state is well typed.                                        *)
LEMMA InitTyped ==
  ASSUME Init
  PROVE  Typed
<1>1. AbsentSchedule \in Schedule
  BY DEF AbsentSchedule, Schedule, Time, NULL
<1>2. Row("none") \in JobRun
  BY RowType
<1>3. CycleAt("idle") \in Cycle /\ CycleAt("off") \in Cycle
  BY DEF CycleAt, Cycle, Time, NULL
<1>4. Unused \in Execution /\ Unused.pc = "unused" /\ Unused.run = NoRun
  BY SetsAssumption DEF Unused, Execution
<1> QED
  BY <1>1, <1>2, <1>3, <1>4 DEF Init, Typed, TypeOK, ExecutionsKnown, Time, NULL

(* The owner's requests keep the types.                                    *)
LEMMA UserTyped ==
  ASSUME Typed, UserStep
  PROVE  Typed'
<1> USE TypedParts
<1>1. ASSUME NEW s \in Schedules, NEW kind \in Kinds, NEW policy \in Policies,
             NEW at \in RunAtTimes, CreateSchedule(s, kind, policy, at)
      PROVE  Typed'
  <2>1. Rescheduled(FromInput(kind, policy, at, "active")) \in Schedule
    BY InputType
  <2>2. schedules' \in [Schedules -> Schedule]
    BY <1>1, <2>1, SavedType DEF CreateSchedule
  <2> QED
    BY <1>1, <2>2 DEF CreateSchedule, Saved, Typed, TypeOK, ExecutionsKnown
<1>2. ASSUME NEW s \in Schedules, NEW kind \in Kinds, NEW policy \in Policies,
             NEW at \in RunAtTimes, NEW enabled \in EnabledInputs,
             UpdateSchedule(s, kind, policy, at, enabled)
      PROVE  Typed'
  <2> DEFINE status == StatusFor(schedules[s].status, enabled)
  <2>1. status \in {"absent", "active", "paused", "completed", "deleted"}
    BY InputAssumption DEF StatusFor, Schedule
  <2> HIDE DEF status
  <2>2. Rescheduled(FromInput(kind, policy, at, status)) \in Schedule
    BY <2>1, InputType
  <2>3. Saved(s, Rescheduled(FromInput(kind, policy, at, status)))
    BY <1>2 DEF UpdateSchedule, status
  <2>4. schedules' \in [Schedules -> Schedule]
    BY <2>2, <2>3, SavedType
  <2> QED
    BY <2>3, <2>4 DEF Saved, Typed, TypeOK, ExecutionsKnown
<1>3. ASSUME NEW s \in Schedules, Pause(s)
      PROVE  Typed'
  <2>1. [schedules[s] EXCEPT !.status = "paused"] \in Schedule
    BY DEF Schedule
  <2>2. schedules' \in [Schedules -> Schedule]
    BY <1>3, <2>1, SavedType DEF Pause
  <2> QED
    BY <1>3, <2>2 DEF Pause, Saved, Typed, TypeOK, ExecutionsKnown
<1>4. ASSUME NEW s \in Schedules, Resume(s)
      PROVE  Typed'
  <2> DEFINE old  == schedules[s]
             next == IF old.next = NULL THEN InitialOccurrence(old, clock) ELSE old.next
  <2>1. old \in Schedule /\ old.start \in Time /\ old.kind \in {"once", "interval", "cron"}
    BY DEF Schedule
  <2>2. next \in Time
    BY <2>1, InitialOccurrenceTime DEF Schedule
  <2>3. Saved(s, [old EXCEPT !.status = "active", !.next = next])
    BY <1>4 DEF Resume
  <2> HIDE DEF old, next
  <2>4. [old EXCEPT !.status = "active", !.next = next] \in Schedule
    BY <2>1, <2>2 DEF Schedule
  <2>5. schedules' \in [Schedules -> Schedule]
    BY <2>3, <2>4, SavedType
  <2> QED
    BY <2>3, <2>5 DEF Saved, Typed, TypeOK, ExecutionsKnown
<1>5. ASSUME NEW s \in Schedules, Delete(s)
      PROVE  Typed'
  <2>1. [schedules[s] EXCEPT !.status = "deleted", !.next = NULL] \in Schedule
    BY DEF Schedule, Time, NULL
  <2>2. schedules' \in [Schedules -> Schedule]
    BY <1>5, <2>1, SavedType DEF Delete
  <2> QED
    BY <1>5, <2>2 DEF Delete, Saved, Typed, TypeOK, ExecutionsKnown
<1>6. ASSUME NEW s \in Schedules, NEW c \in Cycles \ {Poller}, RunScheduleNow(s, c)
      PROVE  Typed'
  <2> DEFINE row == [Row("queued") EXCEPT !.sched = s, !.trigger = "manual",
                                          !.scheduledFor = clock, !.created = clock]
  <2>1. Recovered(runs, clock) \in Table
    BY RecoveredTable
  <2>2. row \in JobRun
    BY InsertedRow DEF Open, Time
  <2> HIDE DEF row
  <2>3. PICK r \in RunIds :
          \E kept : runs' = Pruned([Recovered(runs, clock) EXCEPT ![r] = row], s, kept)
    BY <1>6 DEF RunScheduleNow, FreshRuns, row
  <2>4. [Recovered(runs, clock) EXCEPT ![r] = row] \in Table
    BY <2>1, <2>2 DEF Table
  <2>5. runs' \in Table
    BY <2>3, <2>4, PrunedTable
  <2>6. CycleAt("idle") \in Cycle
    BY DEF CycleAt, Cycle, Time, NULL
  <2>7. cycle' \in [Cycles -> Cycle]
    BY <1>6, <2>6 DEF RunScheduleNow
  <2> QED
    BY <1>6, <2>5, <2>7 DEF RunScheduleNow, Typed, TypeOK, ExecutionsKnown, Table
<1>7. ASSUME NEW r \in RunIds, CancelJobRun(r)
      PROVE  Typed'
  <2>1. CASE exec' = Interrupt(active[r], "canceled")
             /\ UNCHANGED <<clock, schedules, runs, cycle, active, halts>>
    <3>1. ExecType'
      BY <2>1, InterruptType
    <3> QED
      BY <2>1, <3>1 DEF Typed, TypeOK, ExecType
  <2>2. CASE Finished(r, Ended(runs[r], "cancelled"))
             /\ UNCHANGED <<clock, schedules, cycle, exec, active, halts>>
    <3>1. Ended(runs[r], "cancelled") \in JobRun
      BY EndedRow DEF Table, Terminal
    <3>2. runs' \in Table
      BY <2>2, <3>1, FinishedTable
    <3> QED
      BY <2>2, <3>2 DEF Typed, TypeOK, ExecutionsKnown, Table
  <2> QED
    BY <1>7, <2>1, <2>2 DEF CancelJobRun
<1> QED
  BY <1>1, <1>2, <1>3, <1>4, <1>5, <1>6, <1>7 DEF UserStep

(* A cycle whose worklists shrink or fill is well formed.                  *)
LEMMA CycleWith ==
  ASSUME NEW cyc \in Cycle, NEW retry \in SUBSET RunIds, NEW due \in SUBSET Snapshot,
         NEW left \in Nat
  PROVE  /\ [cyc EXCEPT !.retry = retry, !.left = left] \in Cycle
         /\ [cyc EXCEPT !.due = due, !.left = left] \in Cycle
         /\ [cyc EXCEPT !.retry = retry] \in Cycle
         /\ [cyc EXCEPT !.due = due] \in Cycle
         /\ [cyc EXCEPT !.pc = "retry", !.retry = retry, !.left = left] \in Cycle
         /\ [cyc EXCEPT !.pc = "due", !.due = due] \in Cycle
BY DEF Cycle

(* What a cycle knows, when it works.                                      *)
LEMMA CycleParts ==
  ASSUME cycle \in [Cycles -> Cycle], NEW c \in Cycles
  PROVE  /\ cycle[c] \in Cycle
         /\ cycle[c].now \in Time
         /\ cycle[c].live \in BOOLEAN
         /\ cycle[c].retry \in SUBSET RunIds
         /\ cycle[c].due \in SUBSET Snapshot
         /\ cycle[c].left \in Nat
BY DEF Cycle

(* A lease raises the attempt by one and names its holder.                 *)
LEMMA LeasedRow ==
  ASSUME NEW row \in JobRun, row.attempt < MaxAttempts, NEW t \in Tokens,
         NEW now \in Time
  PROVE  /\ Leased(row, t, now) \in JobRun
         /\ Leased(row, t, now).state = "running"
         /\ Leased(row, t, now).sched = row.sched
         /\ Leased(row, t, now).attempt = row.attempt + 1
         /\ Leased(row, t, now).token = t
         /\ Leased(row, t, now).until = now + LeaseDuration
<1> DEFINE attempt == row.attempt + 1
           until   == now + LeaseDuration
<1>1. attempt \in 0..MaxAttempts
  BY PolicyAssumption DEF JobRun
<1>2. until \in Time
  BY WorkerAssumption DEF Time
<1>3. Leased(row, t, now) = [row EXCEPT !.state = "running", !.attempt = attempt,
                               !.token = t, !.until = until, !.retryAt = NULL]
  BY DEF Leased
<1> HIDE DEF attempt, until
<1>4. [row EXCEPT !.state = "running", !.attempt = attempt, !.token = t,
                  !.until = until, !.retryAt = NULL] \in JobRun
  BY <1>1, <1>2 DEF JobRun, Open, Time, NULL
<1> QED
  BY <1>3, <1>4 DEF JobRun, attempt, until

(* What a cycle reads of a schedule is a snapshot.                         *)
LEMMA SnapshotType ==
  ASSUME schedules \in [Schedules -> Schedule], NEW s \in Schedules
  PROVE  SnapshotOf(s) \in Snapshot
BY DEF SnapshotOf, Snapshot, Schedule

(* An occurrence gives a queued row or a skipped one.                      *)
LEMMA ScheduledRowType ==
  ASSUME NEW d \in Snapshot, NEW now \in Time
  PROVE  /\ ScheduledRow(d, now) \in JobRun
         /\ ScheduledRow(d, now).sched = d.id
         /\ ScheduledRow(d, now).attempt = 0
         /\ Skipped(ScheduledRow(d, now)) \in JobRun
         /\ Skipped(ScheduledRow(d, now)).state = "skipped"
         /\ Skipped(ScheduledRow(d, now)).sched = d.id
         /\ Skipped(ScheduledRow(d, now)).attempt = 0
<1> DEFINE blank == Row("queued")
           row   == [blank EXCEPT !.sched = d.id, !.scheduledFor = d.next, !.created = now]
<1>1. blank \in JobRun
  BY RowType DEF Open
<1>2. d.id \in Schedules /\ d.next \in Time
  BY DEF Snapshot
<1>3. blank.attempt = 0
  BY DEF Row
<1>4. ScheduledRow(d, now) = row
  BY DEF ScheduledRow
<1> HIDE DEF blank
<1>5. row \in JobRun /\ row.sched = d.id /\ row.attempt = 0
  BY <1>1, <1>2, <1>3 DEF JobRun
<1> HIDE DEF row
<1>6. /\ Skipped(row) \in JobRun /\ Skipped(row).state = "skipped"
      /\ Skipped(row).sched = row.sched /\ Skipped(row).attempt = row.attempt
  BY <1>5 DEF Skipped, JobRun, Terminal
<1> QED
  BY <1>4, <1>5, <1>6

(* The steps of a cycle keep the types.                                    *)
LEMMA CycleTyped ==
  ASSUME Typed, NEW c \in Cycles, CycleStep(c) \/ AbortCycle(c) \/ StopCycle(c)
  PROVE  Typed'
<1> USE TypedParts
<1> DEFINE now == cycle[c].now
           rs  == Recovered(runs, now)
<1>a. now \in Time /\ now + LeaseDuration \in Time
  BY CycleParts, WorkerAssumption DEF Time
<1>b. rs \in Table
  BY <1>a, RecoveredTable
<1> HIDE DEF now, rs
<1>1. CASE RunDue(c)
  <2>1. runs' \in Table
    BY <1>1, RecoveredTable DEF RunDue
  <2>2. [CycleAt("list") EXCEPT !.now = clock] \in Cycle
    BY CycleStart
  <2>3. cycle' \in [Cycles -> Cycle]
    BY <1>1, <2>2 DEF RunDue
  <2> QED
    BY <1>1, <2>1, <2>3 DEF RunDue, Typed, TypeOK, ExecutionsKnown, Table
<1>2. CASE ListRetryableRuns(c)
  <2>1. PICK batch \in SUBSET RunIds :
          cycle' = [cycle EXCEPT ![c].pc = "retry", ![c].retry = batch, ![c].left = MaxClaims]
    BY <1>2, ZenonT(60) DEF ListRetryableRuns, Firsts, Retryable
  <2>2. [cycle[c] EXCEPT !.pc = "retry", !.retry = batch, !.left = MaxClaims] \in Cycle
    BY CycleParts, CycleWith, WorkerAssumption
  <2>3. cycle' \in [Cycles -> Cycle]
    BY <2>1, <2>2
  <2> QED
    BY <1>2, <2>3 DEF ListRetryableRuns, Typed, TypeOK, ExecutionsKnown
<1>3. CASE ListDueSchedules(c)
  <2>1. PICK batch \in SUBSET Schedules :
          cycle' = [cycle EXCEPT ![c].pc = "due", ![c].due = {SnapshotOf(s) : s \in batch}]
    BY <1>3 DEF ListDueSchedules, Firsts, Due
  <2>2. {SnapshotOf(s) : s \in batch} \in SUBSET Snapshot
    BY SnapshotType, SMTT(40)
  <2>3. [cycle[c] EXCEPT !.pc = "due", !.due = {SnapshotOf(s) : s \in batch}] \in Cycle
    BY <2>2, CycleParts, CycleWith
  <2>4. cycle' \in [Cycles -> Cycle]
    BY <2>1, <2>3
  <2> QED
    BY <1>3, <2>4, SMTT(40) DEF ListDueSchedules, Typed, TypeOK, ExecutionsKnown
<1>4. CASE ClaimsDone(c) \/ AbortCycle(c)
  <2>1. [CycleAt("join") EXCEPT !.live = cycle[c].live] \in Cycle
    BY CycleParts, CycleStart DEF Time, NULL
  <2>2. cycle' \in [Cycles -> Cycle]
    BY <1>4, <2>1 DEF ClaimsDone, AbortCycle
  <2> QED
    BY <1>4, <2>2 DEF ClaimsDone, AbortCycle, Typed, TypeOK, ExecutionsKnown
<1>5. CASE Join(c)
  <2>1. CycleAt("idle") \in Cycle /\ CycleAt("off") \in Cycle
    BY CycleStart DEF Time, NULL
  <2>2. cycle' \in [Cycles -> Cycle]
    BY <1>5, <2>1 DEF Join
  <2> QED
    BY <1>5, <2>2 DEF Join, Typed, TypeOK, ExecutionsKnown
<1>6. ASSUME NEW r \in cycle[c].retry, ClaimRetry(c, r)
      PROVE  Typed'
  <2>1. r \in RunIds
    BY CycleParts
  <2>2. PICK t \in FreshTokens : /\ runs' = [rs EXCEPT ![r] = Leased(rs[r], t, now)]
                                 /\ exec' = [exec EXCEPT ![t] = Claimed(c, r)]
    BY <1>6, Zenon DEF ClaimRetry, rs, now
  <2>b. t \in Tokens /\ exec[t].pc = "unused"
    BY DEF FreshTokens
  <2>3. rs[r] \in JobRun
    BY <1>b, <2>1 DEF Table
  <2>4. rs[r].attempt < MaxAttempts
    BY <1>6, Zenon DEF ClaimRetry, RetryReady, rs, now
  <2>5. runs' \in Table
    BY <1>a, <1>b, <2>2, <2>b, <2>3, <2>4, LeasedRow DEF Table
  <2>6. ExecType'
    BY <2>1, <2>2, <2>b, ClaimedType
  <2>7. cycle[c].retry \ {r} \in SUBSET RunIds /\ cycle[c].left - 1 \in Nat
    BY <1>6, CycleParts DEF ClaimRetry, Retrying
  <2>8. [cycle[c] EXCEPT !.retry = cycle[c].retry \ {r}, !.left = cycle[c].left - 1] \in Cycle
    BY <2>7, CycleParts, CycleWith, ZenonT(60)
  <2>9. cycle' \in [Cycles -> Cycle]
    BY <1>6, <2>8 DEF ClaimRetry
  <2> QED
    BY <1>6, <2>5, <2>6, <2>9 DEF ClaimRetry, Typed, TypeOK, ExecType, Table
<1>7. ASSUME NEW r \in cycle[c].retry, RetryConflict(c, r)
      PROVE  Typed'
  <2>1. [cycle[c] EXCEPT !.retry = cycle[c].retry \ {r}] \in Cycle
    BY CycleParts, CycleWith
  <2>2. cycle' \in [Cycles -> Cycle]
    BY <1>7, <2>1 DEF RetryConflict
  <2> QED
    BY <1>7, <2>2, SMTT(40) DEF RetryConflict, Typed, TypeOK, ExecutionsKnown
<1>8. ASSUME NEW d \in cycle[c].due, ClaimScheduled(c, d)
      PROVE  Typed'
  <2>1. d \in Snapshot
    BY CycleParts
  <2>2. PICK r \in RunIds, t \in Tokens :
          /\ exec[t].pc = "unused"
          /\ \E kept :
               runs' = Pruned([rs EXCEPT ![r] = Leased(ScheduledRow(d, now), t, now)],
                              d.id, kept)
          /\ exec' = [exec EXCEPT ![t] = Claimed(c, r)]
    BY <1>8 DEF ClaimScheduled, FreshRuns, FreshTokens, rs, now
  <2>3. ScheduledRow(d, now) \in JobRun /\ ScheduledRow(d, now).attempt < MaxAttempts
    BY <1>a, <2>1, ScheduledRowType, PolicyAssumption
  <2>4. Leased(ScheduledRow(d, now), t, now) \in JobRun
    BY <1>a, <2>3, LeasedRow
  <2>5. [rs EXCEPT ![r] = Leased(ScheduledRow(d, now), t, now)] \in Table
    BY <1>b, <2>4 DEF Table
  <2>6. runs' \in Table
    BY <2>2, <2>5, PrunedTable
  <2>7. ExecType'
    BY <2>2, ClaimedType
  <2>8. schedules' \in [Schedules -> Schedule]
    BY <1>8, <1>a, <2>1, NextAfterClaimTime, AdvancedType DEF ClaimScheduled, now
  <2>9. cycle[c].due \ {d} \in SUBSET Snapshot /\ cycle[c].left - 1 \in Nat
    BY <1>8, CycleParts, SMTT(40) DEF ClaimScheduled, Claiming
  <2>10. [cycle[c] EXCEPT !.due = cycle[c].due \ {d}, !.left = cycle[c].left - 1] \in Cycle
    BY <2>9, CycleParts, CycleWith
  <2>11. cycle' \in [Cycles -> Cycle]
    BY <1>8, <2>10 DEF ClaimScheduled
  <2> QED
    BY <1>8, <2>6, <2>7, <2>8, <2>11 DEF ClaimScheduled, Typed, TypeOK, ExecType, Table
<1>9. ASSUME NEW d \in cycle[c].due, RecordMisfire(c, d)
      PROVE  Typed'
  <2>1. d \in Snapshot
    BY CycleParts
  <2>2. PICK r \in RunIds :
          \E kept : runs' = Pruned([runs EXCEPT ![r] = Skipped(ScheduledRow(d, now))], d.id, kept)
    BY <1>9 DEF RecordMisfire, FreshRuns, now
  <2>3. Skipped(ScheduledRow(d, now)) \in JobRun
    BY <1>a, <2>1, ScheduledRowType
  <2>4. [runs EXCEPT ![r] = Skipped(ScheduledRow(d, now))] \in Table
    BY <2>3 DEF Table
  <2>5. runs' \in Table
    BY <2>2, <2>4, PrunedTable
  <2>6. NextOccurrence(d, now) \in Time
    BY <1>a, <2>1, NextOccurrenceTime DEF Snapshot
  <2>7. schedules' \in [Schedules -> Schedule]
    BY <1>9, <2>6, AdvancedType, SMTT(40) DEF RecordMisfire, now
  <2>8. [cycle[c] EXCEPT !.due = cycle[c].due \ {d}] \in Cycle
    BY CycleParts, CycleWith
  <2>9. cycle' \in [Cycles -> Cycle]
    BY <1>9, <2>8 DEF RecordMisfire
  <2> QED
    BY <1>9, <2>5, <2>7, <2>9 DEF RecordMisfire, Typed, TypeOK, ExecutionsKnown, Table
<1>10. ASSUME NEW d \in cycle[c].due, DueConflict(c, d)
       PROVE  Typed'
  <2>1. [cycle[c] EXCEPT !.due = cycle[c].due \ {d}] \in Cycle
    BY CycleParts, CycleWith
  <2>2. cycle' \in [Cycles -> Cycle]
    BY <1>10, <2>1 DEF DueConflict
  <2> QED
    BY <1>10, <2>2, SMTT(40) DEF DueConflict, Typed, TypeOK, ExecutionsKnown
<1>11. CASE StopCycle(c)
  <2>1. [CycleAt("join") EXCEPT !.live = FALSE] \in Cycle
    BY CycleStart DEF Time, NULL
  <2>2. cycle' \in [Cycles -> Cycle]
    BY <1>11, <2>1 DEF StopCycle
  <2>3. \A t \in Tokens : [exec[t] EXCEPT !.ctx = "canceled"] \in Execution
    BY DEF ExecType, Execution
  <2>4. exec' \in [Tokens -> Execution]
    BY <1>11, <2>3 DEF StopCycle, ExecType
  <2>5. \A t \in Tokens : exec'[t].pc = exec[t].pc /\ exec'[t].run = exec[t].run
    BY <1>11 DEF StopCycle, ExecType, Execution
  <2> QED
    BY <1>11, <2>2, <2>4, <2>5 DEF StopCycle, Typed, TypeOK, ExecutionsKnown, Table
<1> QED
  BY <1>1, <1>2, <1>3, <1>4, <1>5, <1>6, <1>7, <1>8, <1>9, <1>10, <1>11 DEF CycleStep

(* A failed run is queued again only with attempts left.                   *)
LEMMA FailedRow ==
  ASSUME schedules \in [Schedules -> Schedule], clock \in Time \ {NULL},
         NEW row \in JobRun
  PROVE  /\ Failed(row) \in JobRun
         /\ Failed(row).state \in {"queued", "failed"}
         /\ Failed(row).sched = row.sched
         /\ Failed(row).attempt = row.attempt
         /\ Failed(row).state = "queued" => row.attempt < MaxAttempts
<1>1. CASE row.attempt < MaxAttempts /\ schedules[row.sched].status # "deleted"
  <2> DEFINE retryAt == clock + RetryDelay[row.attempt]
  <2>1. row.attempt \in 0..MaxAttempts
    BY PolicyAssumption DEF JobRun
  <2>2. retryAt \in Time
    BY <2>1, PolicyAssumption DEF Time
  <2>3. Failed(row) = [Ended(row, "queued") EXCEPT !.retryAt = retryAt]
    BY <1>1 DEF Failed
  <2> HIDE DEF retryAt
  <2>4. /\ Ended(row, "queued") \in JobRun /\ Ended(row, "queued").state = "queued"
        /\ Ended(row, "queued").sched = row.sched
        /\ Ended(row, "queued").attempt = row.attempt
    BY EndedRow DEF Open
  <2> QED
    BY <1>1, <2>2, <2>3, <2>4 DEF JobRun
<1>2. CASE ~(row.attempt < MaxAttempts /\ schedules[row.sched].status # "deleted")
  <2>1. Failed(row) = Ended(row, "failed")
    BY <1>2 DEF Failed
  <2> QED
    BY <2>1, EndedRow DEF Terminal
<1> QED
  BY <1>1, <1>2

(* Every result of an execution has a verdict.                             *)
LEMMA VerdictType ==
  ASSUME NEW t, NEW result \in {"nil", "error", "canceled"}
  PROVE  Verdict(t, result) \in {"none", "complete", "fail", "cancel"}
BY DEF Verdict

(* The steps of an execution keep the types.                               *)
LEMMA ExecTyped ==
  ASSUME Typed, NEW t \in Tokens, ExecStep(t)
  PROVE  Typed'
<1> USE TypedParts
<1> DEFINE r == exec[t].run
<1>a. exec[t] \in Execution
  BY DEF ExecType
<1>b. exec[t].pc # "unused" => r \in RunIds
  BY ExecutionUsed
<1>1. CASE Register(t)
  <2>1. [exec[t] EXCEPT !.pc = "executing"] \in Execution
    BY <1>a DEF Execution
  <2>2. ExecType'
    BY <1>1, <1>a, <2>1 DEF Register, ExecType, ExecutionsKnown, Execution
  <2>3. active' \in [RunIds -> Tokens \cup {NoToken}]
    BY <1>1, <1>b DEF Register
  <2> QED
    BY <1>1, <2>2, <2>3 DEF Register, Typed, TypeOK, ExecType, Table
<1>2. CASE RenewLease(t)
  <2>1. r \in RunIds /\ clock + LeaseDuration \in Time
    BY <1>2, <1>b, WorkerAssumption DEF RenewLease, Time
  <2>2. [runs[r] EXCEPT !.until = clock + LeaseDuration] \in JobRun
    BY <2>1 DEF Table, JobRun
  <2>3. runs' \in Table
    BY <1>2, <2>1, <2>2 DEF RenewLease, Table
  <2> QED
    BY <1>2, <2>3 DEF RenewLease, Typed, TypeOK, ExecutionsKnown, Table
<1>3. CASE RenewFails(t) \/ Deadline(t)
  <2>1. ExecType'
    BY <1>3, InterruptType DEF RenewFails, Deadline
  <2> QED
    BY <1>3, <2>1 DEF RenewFails, Deadline, Typed, TypeOK, ExecType, Table
<1>4. ASSUME NEW result \in {"nil", "error", "canceled"}, Return(t, result)
      PROVE  Typed'
  <2>1. Verdict(t, result) \in {"none", "complete", "fail", "cancel"}
    BY VerdictType
  <2>2. [exec[t] EXCEPT !.pc = "returned", !.verdict = Verdict(t, result)] \in Execution
    BY <1>a, <2>1 DEF Execution
  <2>3. exec' = [exec EXCEPT ![t] =
                   [exec[t] EXCEPT !.pc = "returned", !.verdict = Verdict(t, result)]]
    BY <1>4 DEF Return
  <2>4. ExecType'
    BY <1>4, <1>a, <2>2, <2>3 DEF Return, ExecType, ExecutionsKnown, Execution
  <2> QED
    BY <1>4, <2>4 DEF Return, Typed, TypeOK, ExecType, Table
<1>5. CASE CompleteRun(t) \/ FailRun(t) \/ CancelRun(t) \/ OutcomeLost(t)
  <2>1. exec[t].pc # "unused" /\ Leave(t)
    BY <1>5 DEF CompleteRun, FailRun, CancelRun, OutcomeLost
  <2>2. r \in RunIds /\ runs[r] \in JobRun
    BY <1>b, <2>1 DEF Table
  <2>3. ExecType' /\ active' \in [RunIds -> Tokens \cup {NoToken}]
    BY <2>1, LeaveType
  <2>4. runs' \in Table
    <3>1. CASE CompleteRun(t)
      BY <2>2, <3>1, EndedRow, FinishedTable DEF CompleteRun, Terminal
    <3>2. CASE FailRun(t)
      BY <2>2, <3>2, FailedRow, FinishedTable DEF FailRun
    <3>3. CASE CancelRun(t)
      BY <2>2, <3>3, EndedRow, FinishedTable DEF CancelRun, Terminal
    <3>4. CASE OutcomeLost(t)
      BY <3>4 DEF OutcomeLost
    <3> QED
      BY <1>5, <3>1, <3>2, <3>3, <3>4
  <2> QED
    BY <2>1, <2>3, <2>4 DEF Leave, Typed, TypeOK, ExecType, Table
<1> QED
  BY <1>1, <1>2, <1>3, <1>4, <1>5 DEF ExecStep, Outcome

(* A crash keeps the types.                                                *)
LEMMA CrashTyped ==
  ASSUME Typed, Crash
  PROVE  Typed'
<1> USE TypedParts
<1>1. cycle' \in [Cycles -> Cycle]
  BY CycleStart DEF Crash, Time, NULL
<1>2. \A t \in Tokens :
        /\ exec'[t] \in Execution
        /\ exec'[t].pc = "unused" <=> exec'[t].run = NoRun
  <2> SUFFICES ASSUME NEW t \in Tokens
               PROVE  /\ exec'[t] \in Execution
                      /\ exec'[t].pc = "unused" <=> exec'[t].run = NoRun
    OBVIOUS
  <2>1. CASE exec[t].pc = "unused"
    BY <2>1, SetsAssumption DEF Crash, Unused, Execution
  <2>2. CASE exec[t].pc # "unused"
    <3>1. exec[t].run \in RunIds
      BY <2>2, ExecutionUsed
    <3>2. exec'[t] = [Claimed(Poller, exec[t].run) EXCEPT !.pc = "done"]
      BY <2>2 DEF Crash
    <3> QED
      BY <3>1, <3>2, SetsAssumption DEF Claimed, Execution
  <2> QED
    BY <2>1, <2>2
<1>3. exec' \in [Tokens -> Execution]
  <2>1. exec' = [t \in Tokens |-> exec'[t]]
    BY Zenon DEF Crash
  <2> QED
    BY <1>2, <2>1, Zenon
<1>4. active' \in [RunIds -> Tokens \cup {NoToken}]
  BY DEF Crash
<1>5. halts' \in Nat /\ UNCHANGED <<clock, schedules, runs>>
  BY DEF Crash
<1> QED
  BY <1>1, <1>2, <1>3, <1>4, <1>5 DEF Typed, TypeOK, ExecutionsKnown, Table

(* Every step keeps the types.                                             *)
LEMMA NextTyped ==
  ASSUME Typed, [Next]_vars
  PROVE  Typed'
<1>1. CASE Tick
  BY <1>1 DEF Tick, Typed, TypeOK, ExecutionsKnown, Time, NULL
<1>2. CASE UNCHANGED vars
  BY <1>2, TypedUnchanged
<1> QED
  BY <1>1, <1>2, UserTyped, CycleTyped, ExecTyped, CrashTyped DEF Next

(* Every variable keeps its type, attempts stay within the retry limit and *)
(* every lease token names an execution, in every instance of the model.   *)
THEOREM TypeCorrect == Spec => []TypeOK
<1>1. Init => Typed
  BY InitTyped
<1>2. Typed /\ [Next]_vars => Typed'
  BY NextTyped
<1>3. Typed => TypeOK
  BY DEF Typed
<1> QED
  BY <1>1, <1>2, <1>3, PTL DEF Spec

(* The types hold in every reachable state, and an execution in use always *)
(* names a run.                                                            *)
THEOREM TypedAlways == Spec => []Typed
BY InitTyped, NextTyped, PTL DEF Spec

-----------------------------------------------------------------------------
(* No-overlap.  A step that opens a run has checked that no other is open  *)
(* in the very table it writes, the recovered leases included; every other *)
(* step only closes runs.                                                  *)

Exclusive(rs) ==
  \A s \in Schedules : ~AllowOverlap[s] =>
    \A q, r \in RunIds :
      /\ rs[q].sched = s /\ rs[q].state \in Open
      /\ rs[r].sched = s /\ rs[r].state \in Open
      => q = r

(* Closing runs opens no second one.                                       *)
LEMMA ExclusiveShrinks ==
  ASSUME NEW old, NEW new, Exclusive(old),
         \A r \in RunIds : new[r].state \in Open =>
            old[r].state \in Open /\ new[r].sched = old[r].sched
  PROVE  Exclusive(new)
BY Zenon DEF Exclusive

(* Recovery opens no run.                                                  *)
LEMMA ExclusiveRecovered ==
  ASSUME NEW rs \in Table, NEW now \in Time, Exclusive(rs)
  PROVE  Exclusive(Recovered(rs, now))
<1>1. \A r \in RunIds : Recovered(rs, now)[r].state \in Open =>
         rs[r].state \in Open /\ Recovered(rs, now)[r].sched = rs[r].sched
  BY RecoveredRow DEF Open
<1> QED
  BY <1>1, ExclusiveShrinks

(* Pruning opens no run.                                                   *)
LEMMA ExclusivePruned ==
  ASSUME NEW rs \in Table, NEW s, NEW kept, Exclusive(rs)
  PROVE  Exclusive(Pruned(rs, s, kept))
<1>1. Row("pruned").state \notin Open
  BY DEF Row, Open
<1>2. \A r \in RunIds : Pruned(rs, s, kept)[r].state \in Open =>
         rs[r].state \in Open /\ Pruned(rs, s, kept)[r].sched = rs[r].sched
  BY <1>1, PrunedRow
<1> QED
  BY <1>2, ExclusiveShrinks

(* Opening a run of a schedule that has none open keeps the schedule's     *)
(* runs exclusive.                                                         *)
LEMMA ExclusiveOpens ==
  ASSUME NEW rs \in Table, NEW r \in RunIds, NEW row \in JobRun, Exclusive(rs),
         row.state \in Open => AllowOverlap[row.sched] \/ ~Busy(rs, row.sched, {r})
  PROVE  Exclusive([rs EXCEPT ![r] = row])
<1> DEFINE new == [rs EXCEPT ![r] = row]
<1>1. \A q \in RunIds : new[q] = IF q = r THEN row ELSE rs[q]
  BY DEF Table
<1> HIDE DEF new
<1> SUFFICES ASSUME NEW s \in Schedules, ~AllowOverlap[s],
                    NEW p \in RunIds, NEW q \in RunIds,
                    new[p].sched = s, new[p].state \in Open,
                    new[q].sched = s, new[q].state \in Open,
                    p # q
             PROVE  FALSE
  BY DEF Exclusive, new
<1>2. CASE p = r
  <2>1. row.sched = s /\ row.state \in Open /\ rs[q].sched = s /\ rs[q].state \in Open
    BY <1>1, <1>2
  <2> QED
    BY <1>2, <2>1 DEF Busy
<1>3. CASE q = r
  <2>1. row.sched = s /\ row.state \in Open /\ rs[p].sched = s /\ rs[p].state \in Open
    BY <1>1, <1>3
  <2> QED
    BY <1>3, <2>1 DEF Busy
<1>4. CASE p # r /\ q # r
  BY <1>1, <1>4 DEF Exclusive
<1> QED
  BY <1>2, <1>3, <1>4

(* Ending a run, or queueing it for a retry, opens no second one.          *)
LEMMA ExclusiveFinished ==
  ASSUME runs \in Table, NEW r \in RunIds, NEW row \in JobRun, Exclusive(runs),
         row.state \in Open => runs[r].state \in Open /\ row.sched = runs[r].sched,
         Finished(r, row)
  PROVE  Exclusive(runs')
<1> DEFINE new == [runs EXCEPT ![r] = row]
<1>1. new \in Table
  BY DEF Table
<1>2. \A q \in RunIds : new[q].state \in Open =>
         runs[q].state \in Open /\ new[q].sched = runs[q].sched
  BY DEF Table
<1>3. PICK kept : runs' = Pruned(new, row.sched, kept)
  BY DEF Finished
<1> HIDE DEF new
<1> QED
  BY <1>1, <1>2, <1>3, ExclusiveShrinks, ExclusivePruned

(* The steps that write the table of runs.                                 *)
WritesRuns ==
  \/ \E s \in Schedules, c \in Cycles \ {Poller} : RunScheduleNow(s, c)
  \/ \E r \in RunIds : Finished(r, Ended(runs[r], "cancelled")) /\ runs[r].state = "queued"
  \/ \E c \in Cycles : RunDue(c)
  \/ \E c \in Cycles : \E r \in cycle[c].retry : ClaimRetry(c, r)
  \/ \E c \in Cycles : \E d \in cycle[c].due : ClaimScheduled(c, d) \/ RecordMisfire(c, d)
  \/ \E t \in Tokens : RenewLease(t) \/ CompleteRun(t) \/ FailRun(t) \/ CancelRun(t)

(* The steps that are not transactions on the runs leave them alone.       *)
LEMMA OthersLeaveRuns ==
  ASSUME [Next]_vars
  PROVE  WritesRuns \/ UNCHANGED runs
<1>1. CASE UserStep
  BY <1>1 DEF UserStep, CreateSchedule, UpdateSchedule, Pause, Resume, Delete, Saved,
              CancelJobRun, WritesRuns
<1>2. ASSUME NEW c \in Cycles, CycleStep(c) \/ AbortCycle(c) \/ StopCycle(c)
      PROVE  WritesRuns \/ UNCHANGED runs
  BY <1>2 DEF CycleStep, AbortCycle, StopCycle, ListRetryableRuns, ListDueSchedules,
              ClaimsDone, Join, RetryConflict, DueConflict, WritesRuns
<1>3. ASSUME NEW t \in Tokens, ExecStep(t)
      PROVE  WritesRuns \/ UNCHANGED runs
  BY <1>3 DEF ExecStep, Outcome, Register, RenewFails, Deadline, Return, OutcomeLost,
              WritesRuns
<1> QED
  BY <1>1, <1>2, <1>3, SMTT(40) DEF Next, Tick, Crash, vars

(* Every step keeps the open runs of a schedule exclusive.                 *)
LEMMA NextExclusive ==
  ASSUME Typed, Exclusive(runs), [Next]_vars
  PROVE  Exclusive(runs')
<1> USE TypedParts
<1>1. ASSUME NEW s \in Schedules, NEW c \in Cycles \ {Poller}, RunScheduleNow(s, c)
      PROVE  Exclusive(runs')
  <2> DEFINE rs  == Recovered(runs, clock)
             row == [Row("queued") EXCEPT !.sched = s, !.trigger = "manual",
                                          !.scheduledFor = clock, !.created = clock]
  <2>1. rs \in Table /\ Exclusive(rs)
    BY RecoveredTable, ExclusiveRecovered
  <2>2. row \in JobRun /\ row.sched = s
    <3>1. row \in JobRun
      BY InsertedRow DEF Open, Time
    <3>2. row.sched = s
      BY DEF Row
    <3> QED
      BY <3>1, <3>2
  <2>3. AllowOverlap[s] \/ ~Busy(rs, s, {})
    BY <1>1, Zenon DEF RunScheduleNow
  <2>4. PICK r \in RunIds :
          \E kept : runs' = Pruned([rs EXCEPT ![r] = row], s, kept)
    BY <1>1 DEF RunScheduleNow, FreshRuns
  <2> HIDE DEF rs, row
  <2>5. AllowOverlap[s] \/ ~Busy(rs, s, {r})
    BY <2>3 DEF Busy
  <2>6. Exclusive([rs EXCEPT ![r] = row])
    BY <2>1, <2>2, <2>5, ExclusiveOpens
  <2>7. [rs EXCEPT ![r] = row] \in Table
    BY <2>1, <2>2 DEF Table
  <2> QED
    BY <2>4, <2>6, <2>7, ExclusivePruned
<1>2. ASSUME NEW r \in RunIds, Finished(r, Ended(runs[r], "cancelled")),
             runs[r].state = "queued"
      PROVE  Exclusive(runs')
  <2>1. Ended(runs[r], "cancelled") \in JobRun /\ Ended(runs[r], "cancelled").state \notin Open
    BY EndedRow DEF Table, Terminal, Open
  <2> QED
    BY <1>2, <2>1, ExclusiveFinished
<1>3. ASSUME NEW c \in Cycles, RunDue(c)
      PROVE  Exclusive(runs')
  BY <1>3, ExclusiveRecovered DEF RunDue
<1>4. ASSUME NEW c \in Cycles, NEW r \in cycle[c].retry, ClaimRetry(c, r)
      PROVE  Exclusive(runs')
  <2> DEFINE now == cycle[c].now
             rs  == Recovered(runs, now)
  <2>1. now \in Time /\ r \in RunIds
    BY CycleParts
  <2>2. rs \in Table /\ Exclusive(rs) /\ rs[r] \in JobRun
    BY <2>1, RecoveredTable, ExclusiveRecovered DEF Table
  <2>3. PICK t \in FreshTokens : runs' = [rs EXCEPT ![r] = Leased(rs[r], t, now)]
    BY <1>4, Zenon DEF ClaimRetry
  <2>4. /\ rs[r].attempt < MaxAttempts
        /\ AllowOverlap[rs[r].sched] \/ ~Busy(rs, rs[r].sched, {r})
    BY <1>4, Zenon DEF ClaimRetry, RetryReady
  <2> HIDE DEF now, rs
  <2>5. t \in Tokens
    BY DEF FreshTokens
  <2>6. Leased(rs[r], t, now) \in JobRun /\ Leased(rs[r], t, now).sched = rs[r].sched
    BY <2>1, <2>2, <2>4, <2>5, LeasedRow
  <2> QED
    BY <2>1, <2>2, <2>3, <2>4, <2>6, ExclusiveOpens
<1>5. ASSUME NEW c \in Cycles, NEW d \in cycle[c].due, ClaimScheduled(c, d)
      PROVE  Exclusive(runs')
  <2> DEFINE now == cycle[c].now
             rs  == Recovered(runs, now)
  <2>1. now \in Time /\ d \in Snapshot
    BY CycleParts
  <2>2. rs \in Table /\ Exclusive(rs)
    BY <2>1, RecoveredTable, ExclusiveRecovered
  <2>3. PICK r \in RunIds, t \in Tokens :
          \E kept :
            runs' = Pruned([rs EXCEPT ![r] = Leased(ScheduledRow(d, now), t, now)], d.id, kept)
    BY <1>5 DEF ClaimScheduled, FreshRuns, FreshTokens
  <2>4. AllowOverlap[d.id] \/ ~Busy(rs, d.id, {})
    BY <1>5, Zenon DEF ClaimScheduled, Claimable
  <2> HIDE DEF now, rs
  <2> DEFINE row == Leased(ScheduledRow(d, now), t, now)
  <2>5. ScheduledRow(d, now) \in JobRun /\ ScheduledRow(d, now).attempt < MaxAttempts
    BY <2>1, ScheduledRowType, PolicyAssumption
  <2>6. row \in JobRun /\ row.sched = d.id
    BY <2>1, <2>5, LeasedRow, ScheduledRowType
  <2> HIDE DEF row
  <2>7. AllowOverlap[d.id] \/ ~Busy(rs, d.id, {r})
    BY <2>4 DEF Busy
  <2>8. Exclusive([rs EXCEPT ![r] = row]) /\ [rs EXCEPT ![r] = row] \in Table
    BY <2>2, <2>6, <2>7, ExclusiveOpens DEF Table
  <2> QED
    BY <2>3, <2>8, ExclusivePruned DEF row
<1>6. ASSUME NEW c \in Cycles, NEW d \in cycle[c].due, RecordMisfire(c, d)
      PROVE  Exclusive(runs')
  <2> DEFINE row == Skipped(ScheduledRow(d, cycle[c].now))
  <2>1. PICK r \in RunIds :
          \E kept : runs' = Pruned([runs EXCEPT ![r] = row], d.id, kept)
    BY <1>6 DEF RecordMisfire, FreshRuns
  <2>2. row \in JobRun /\ row.state \notin Open
    BY CycleParts, ScheduledRowType DEF Open
  <2> HIDE DEF row
  <2>3. Exclusive([runs EXCEPT ![r] = row]) /\ [runs EXCEPT ![r] = row] \in Table
    BY <2>2, ExclusiveOpens DEF Table
  <2> QED
    BY <2>1, <2>3, ExclusivePruned
<1>7. ASSUME NEW t \in Tokens, RenewLease(t)
      PROVE  Exclusive(runs')
  <2>1. exec[t].run \in RunIds
    BY <1>7, ExecutionUsed DEF RenewLease
  <2>2. \A r \in RunIds : runs'[r].state = runs[r].state /\ runs'[r].sched = runs[r].sched
    BY <1>7, <2>1 DEF RenewLease, Table, JobRun
  <2> QED
    BY <2>2, ExclusiveShrinks
<1>8. ASSUME NEW t \in Tokens, CompleteRun(t) \/ FailRun(t) \/ CancelRun(t)
      PROVE  Exclusive(runs')
  <2> DEFINE r == exec[t].run
  <2>1. r \in RunIds /\ runs[r] \in JobRun
    BY <1>8, ExecutionUsed DEF CompleteRun, FailRun, CancelRun, Table
  <2>2. CASE CompleteRun(t)
    <3>1. Ended(runs[r], "succeeded") \in JobRun /\ Ended(runs[r], "succeeded").state \notin Open
      BY <2>1, EndedRow DEF Terminal, Open
    <3> QED
      BY <2>1, <2>2, <3>1, ExclusiveFinished DEF CompleteRun
  <2>3. CASE CancelRun(t)
    <3>1. Ended(runs[r], "cancelled") \in JobRun /\ Ended(runs[r], "cancelled").state \notin Open
      BY <2>1, EndedRow DEF Terminal, Open
    <3> QED
      BY <2>1, <2>3, <3>1, ExclusiveFinished DEF CancelRun
  <2>4. CASE FailRun(t)
    <3>1. Failed(runs[r]) \in JobRun /\ Failed(runs[r]).sched = runs[r].sched
      BY <2>1, FailedRow
    <3>2. runs[r].state \in Open
      BY <2>4 DEF FailRun, Holds, Open
    <3> QED
      BY <2>1, <2>4, <3>1, <3>2, ExclusiveFinished DEF FailRun
  <2> QED
    BY <1>8, <2>2, <2>3, <2>4
<1> QED
  BY <1>1, <1>2, <1>3, <1>4, <1>5, <1>6, <1>7, <1>8, OthersLeaveRuns DEF WritesRuns

(* A schedule that forbids overlap never has two runs queued or running,   *)
(* for any number of schedules, runs, cycles and executions.               *)
THEOREM NoOverlapHolds == Spec => []NoOverlap
<1>1. Init => Typed /\ Exclusive(runs)
  <2>1. ASSUME Init
        PROVE  Exclusive(runs)
    BY <2>1 DEF Init, Row, Exclusive, Open
  <2> QED
    BY <2>1, InitTyped
<1>2. (Typed /\ Exclusive(runs)) /\ [Next]_vars => (Typed /\ Exclusive(runs))'
  BY NextTyped, NextExclusive
<1>3. Exclusive(runs) => NoOverlap
  BY DEF Exclusive, NoOverlap
<1> QED
  BY <1>1, <1>2, <1>3, PTL DEF Spec

-----------------------------------------------------------------------------
(* Outcomes and leases.  Every transaction is built from writes that leave *)
(* a finished row alone or delete it, and a row under an unexpired lease   *)
(* alone unless they are its holder's; a cycle's clock reading is never    *)
(* ahead of the clock, so what it calls expired is expired.                *)

Final(row) == row.state \in Terminal \cup {"pruned"}
Live(row)  == row.state = "running" /\ row.until > clock

KeepsRow(old, new) ==
  /\ Final(old) => new = old \/ new.state = "pruned"
  /\ Live(old) => new = old

Keeps(old, new) == \A r \in RunIds : KeepsRow(old[r], new[r])

(* Two writes in a row that keep rows keep them together.                  *)
LEMMA KeepsTransitive ==
  ASSUME NEW a, NEW b, NEW c, Keeps(a, b), Keeps(b, c)
  PROVE  Keeps(a, c)
<1> SUFFICES ASSUME NEW r \in RunIds
             PROVE  KeepsRow(a[r], c[r])
  BY DEF Keeps
<1>1. KeepsRow(a[r], b[r]) /\ KeepsRow(b[r], c[r])
  BY DEF Keeps
<1> QED
  BY <1>1 DEF KeepsRow, Final

(* Recovery at a time that is past keeps outcomes and live leases.         *)
LEMMA KeepsRecovered ==
  ASSUME NEW rs \in Table, NEW now \in Time, clock \in Time, now <= clock
  PROVE  Keeps(rs, Recovered(rs, now))
<1> SUFFICES ASSUME NEW r \in RunIds, Recovered(rs, now)[r] # rs[r]
             PROVE  KeepsRow(rs[r], Recovered(rs, now)[r])
  BY DEF Keeps, KeepsRow
<1>1. rs[r].state = "running" /\ rs[r].until <= now
  BY RecoveredRow
<1>2. rs[r].until \in Time
  BY DEF Table, JobRun
<1> QED
  BY <1>1, <1>2 DEF KeepsRow, Final, Live, Terminal, Time

(* Pruning deletes finished rows only.                                     *)
LEMMA KeepsPruned ==
  ASSUME NEW rs \in Table, NEW s, NEW kept
  PROVE  Keeps(rs, Pruned(rs, s, kept))
<1> SUFFICES ASSUME NEW r \in RunIds
             PROVE  KeepsRow(rs[r], Pruned(rs, s, kept)[r])
  BY DEF Keeps
<1>1. Row("pruned").state = "pruned" /\ "running" \notin Terminal
  BY DEF Row, Terminal
<1> QED
  BY <1>1, PrunedRow DEF KeepsRow, Live

(* So does a write to a row neither finished nor leased.                   *)
LEMMA KeepsUpdate ==
  ASSUME NEW rs \in Table, NEW r \in RunIds, NEW row, ~Final(rs[r]), ~Live(rs[r])
  PROVE  Keeps(rs, [rs EXCEPT ![r] = row])
BY DEF Keeps, KeepsRow, Table

CyclesBehind == \A c \in Cycles : cycle[c].now <= clock

(* A step leaves the reading of a cycle alone, takes the clock's, or       *)
(* forgets it.                                                             *)
LEMMA CycleReading ==
  ASSUME Typed, NEW c \in Cycles, CycleStep(c) \/ AbortCycle(c) \/ StopCycle(c)
  PROVE  /\ clock' = clock
         /\ \E new : /\ cycle' = [cycle EXCEPT ![c] = new]
                     /\ new.now \in {cycle[c].now, clock, NULL}
<1> USE TypedParts
<1>1. CASE RunDue(c)
  <2>1. /\ clock' = clock
        /\ cycle' = [cycle EXCEPT ![c] = [CycleAt("list") EXCEPT !.now = clock]]
    BY <1>1, Zenon DEF RunDue
  <2>2. [CycleAt("list") EXCEPT !.now = clock].now = clock
    BY DEF CycleAt
  <2> QED
    BY <2>1, <2>2
<1>2. CASE AbortCycle(c) \/ StopCycle(c) \/ ClaimsDone(c) \/ Join(c)
  <2> DEFINE over == IF c = Poller THEN "idle" ELSE "off"
  <2>1. CASE AbortCycle(c) \/ ClaimsDone(c)
    <3>1. /\ clock' = clock
          /\ cycle' = [cycle EXCEPT ![c] = [CycleAt("join") EXCEPT !.live = cycle[c].live]]
      BY <2>1, Zenon DEF AbortCycle, ClaimsDone
    <3>2. [CycleAt("join") EXCEPT !.live = cycle[c].live].now = NULL
      BY DEF CycleAt
    <3> QED
      BY <3>1, <3>2
  <2>2. CASE StopCycle(c)
    <3>1. /\ clock' = clock
          /\ cycle' = [cycle EXCEPT ![c] = [CycleAt("join") EXCEPT !.live = FALSE]]
      BY <2>2, Zenon DEF StopCycle
    <3>2. [CycleAt("join") EXCEPT !.live = FALSE].now = NULL
      BY DEF CycleAt
    <3> QED
      BY <3>1, <3>2
  <2>3. CASE Join(c)
    <3>1. clock' = clock /\ cycle' = [cycle EXCEPT ![c] = CycleAt(over)]
      BY <2>3, Zenon DEF Join
    <3>2. CycleAt(over).now = NULL
      BY DEF CycleAt
    <3> QED
      BY <3>1, <3>2
  <2> QED
    BY <1>2, <2>1, <2>2, <2>3
<1>3. CASE ListRetryableRuns(c)
  <2>1. PICK batch : cycle' = [cycle EXCEPT ![c].pc = "retry", ![c].retry = batch,
                                            ![c].left = MaxClaims]
    BY <1>3 DEF ListRetryableRuns
  <2> DEFINE new == [cycle[c] EXCEPT !.pc = "retry", !.retry = batch, !.left = MaxClaims]
  <2>2. cycle' = [cycle EXCEPT ![c] = new]
    BY <2>1
  <2>3. new.now = cycle[c].now
    BY DEF Cycle
  <2> QED
    BY <1>3, <2>2, <2>3 DEF ListRetryableRuns
<1>4. CASE ListDueSchedules(c)
  <2>1. PICK batch : cycle' = [cycle EXCEPT ![c].pc = "due",
                                            ![c].due = {SnapshotOf(s) : s \in batch}]
    BY <1>4 DEF ListDueSchedules
  <2> DEFINE due == {SnapshotOf(s) : s \in batch}
             new == [cycle[c] EXCEPT !.pc = "due", !.due = due]
  <2> HIDE DEF due
  <2>2. cycle' = [cycle EXCEPT ![c] = new]
    BY <2>1 DEF due
  <2>3. new.now = cycle[c].now
    BY DEF Cycle
  <2> QED
    BY <1>4, <2>2, <2>3 DEF ListDueSchedules
<1>5. ASSUME NEW r \in cycle[c].retry, ClaimRetry(c, r) \/ RetryConflict(c, r)
      PROVE  /\ clock' = clock
             /\ \E new : /\ cycle' = [cycle EXCEPT ![c] = new]
                         /\ new.now = cycle[c].now
  <2>1. CASE ClaimRetry(c, r)
    <3> DEFINE new == [cycle[c] EXCEPT !.retry = @ \ {r}, !.left = @ - 1]
    <3>1. clock' = clock /\ cycle' = [cycle EXCEPT ![c] = new]
      BY <2>1, Zenon DEF ClaimRetry
    <3>2. new.now = cycle[c].now
      BY Zenon DEF Cycle
    <3> QED
      BY <3>1, <3>2
  <2>2. CASE RetryConflict(c, r)
    <3> DEFINE new == [cycle[c] EXCEPT !.retry = @ \ {r}]
    <3>1. clock' = clock /\ cycle' = [cycle EXCEPT ![c] = new]
      BY <2>2, Zenon DEF RetryConflict
    <3>2. new.now = cycle[c].now
      BY DEF Cycle
    <3> QED
      BY <3>1, <3>2
  <2> QED
    BY <1>5, <2>1, <2>2
<1>6. ASSUME NEW d \in cycle[c].due,
             ClaimScheduled(c, d) \/ RecordMisfire(c, d) \/ DueConflict(c, d)
      PROVE  /\ clock' = clock
             /\ \E new : /\ cycle' = [cycle EXCEPT ![c] = new]
                         /\ new.now = cycle[c].now
  <2>1. CASE ClaimScheduled(c, d)
    <3> DEFINE new == [cycle[c] EXCEPT !.due = @ \ {d}, !.left = @ - 1]
    <3>1. clock' = clock /\ cycle' = [cycle EXCEPT ![c] = new]
      BY <2>1, Zenon DEF ClaimScheduled
    <3>2. new.now = cycle[c].now
      BY Zenon DEF Cycle
    <3> QED
      BY <3>1, <3>2
  <2>2. CASE RecordMisfire(c, d) \/ DueConflict(c, d)
    <3> DEFINE new == [cycle[c] EXCEPT !.due = @ \ {d}]
    <3>1. clock' = clock /\ cycle' = [cycle EXCEPT ![c] = new]
      BY <2>2, Zenon DEF RecordMisfire, DueConflict
    <3>2. new.now = cycle[c].now
      BY DEF Cycle
    <3> QED
      BY <3>1, <3>2
  <2> QED
    BY <1>6, <2>1, <2>2
<1> QED
  BY <1>1, <1>2, <1>3, <1>4, <1>5, <1>6, Zenon DEF CycleStep

(* No cycle reads a time ahead of the clock.                               *)
LEMMA NextBehind ==
  ASSUME Typed, CyclesBehind, [Next]_vars
  PROVE  CyclesBehind'
<1> USE TypedParts
<1>0. \A pc : CycleAt(pc).now <= clock
  BY DEF CycleAt, Time, NULL
<1>1. CASE Tick
  <2>1. \A c \in Cycles : cycle[c].now \in Time
    BY CycleParts
  <2> QED
    BY <1>1, <2>1 DEF Tick, CyclesBehind, Time
<1>2. CASE UserStep
  <2>1. ASSUME NEW s \in Schedules, NEW c \in Cycles \ {Poller}, RunScheduleNow(s, c)
        PROVE  CyclesBehind'
    <3>1. clock' = clock /\ cycle' = [cycle EXCEPT ![c] = CycleAt("idle")]
      BY <2>1, Zenon DEF RunScheduleNow
    <3> QED
      BY <1>0, <3>1 DEF CyclesBehind
  <2>2. CASE UNCHANGED <<clock, cycle>>
    BY <2>2 DEF CyclesBehind
  <2> QED
    BY <1>2, <2>1, <2>2, Zenon DEF UserStep, CreateSchedule, UpdateSchedule, Pause,
                                   Resume, Delete, Saved, CancelJobRun
<1>3. ASSUME NEW c \in Cycles, CycleStep(c) \/ AbortCycle(c) \/ StopCycle(c)
      PROVE  CyclesBehind'
  <2>1. PICK new : /\ clock' = clock
                   /\ cycle' = [cycle EXCEPT ![c] = new]
                   /\ new.now \in {cycle[c].now, clock, NULL}
    BY <1>3, CycleReading
  <2> QED
    BY <2>1 DEF CyclesBehind, Time, NULL
<1>4. ASSUME NEW t \in Tokens, ExecStep(t)
      PROVE  CyclesBehind'
  BY <1>4 DEF ExecStep, Outcome, Register, RenewLease, RenewFails, Deadline, Return,
              CompleteRun, FailRun, CancelRun, OutcomeLost, Leave, CyclesBehind
<1>5. CASE Crash
  BY <1>5 DEF Crash, CycleAt, CyclesBehind, Time, NULL
<1> QED
  BY <1>1, <1>2, <1>3, <1>4, <1>5 DEF Next, vars, CyclesBehind

(* Writing one row and then trimming the history keeps every other row.    *)
LEMMA KeepsFinished ==
  ASSUME runs \in Table, NEW r \in RunIds, NEW row \in JobRun, Finished(r, row),
         NEW q \in RunIds, q # r \/ (~Final(runs[r]) /\ ~Live(runs[r]))
  PROVE  KeepsRow(runs[q], runs'[q])
<1> DEFINE new == [runs EXCEPT ![r] = row]
<1>1. new \in Table
  BY DEF Table
<1>2. PICK kept : runs' = Pruned(new, row.sched, kept)
  BY DEF Finished
<1>3. Keeps(new, runs')
  BY <1>1, <1>2, KeepsPruned
<1>4. CASE q # r
  <2>1. new[q] = runs[q]
    BY <1>4 DEF Table
  <2> QED
    BY <1>3, <2>1 DEF Keeps
<1>5. CASE q = r
  BY <1>5 DEF KeepsRow
<1> QED
  BY <1>4, <1>5

(* What a step other than the report or the renewal of the lease's holder  *)
(* may do to a row.                                                        *)
Holder(old, new) ==
  \/ new.state = "running" /\ new.token = old.token
  \/ exec[old.token].pc = "returned" /\ exec'[old.token].pc = "done"

(* Every step keeps a row, unless it is its holder's.                      *)
LEMMA NextKeeps ==
  ASSUME Typed, CyclesBehind, [Next]_vars, NEW q \in RunIds
  PROVE  \/ KeepsRow(runs[q], runs'[q])
         \/ runs[q].state = "running" /\ Holder(runs[q], runs'[q])
<1> USE TypedParts
<1>0. clock \in Time /\ \A c \in Cycles : cycle[c].now \in Time /\ cycle[c].now <= clock
  BY CycleParts DEF CyclesBehind
<1>1. ASSUME NEW s \in Schedules, NEW c \in Cycles \ {Poller}, RunScheduleNow(s, c)
      PROVE  Keeps(runs, runs')
  <2> DEFINE rs  == Recovered(runs, clock)
             row == [Row("queued") EXCEPT !.sched = s, !.trigger = "manual",
                                          !.scheduledFor = clock, !.created = clock]
  <2>1. rs \in Table /\ Keeps(runs, rs)
    BY <1>0, RecoveredTable, KeepsRecovered DEF Time
  <2>2. row \in JobRun
    BY InsertedRow DEF Open, Time
  <2>3. PICK r \in FreshRuns :
          \E kept : runs' = Pruned([rs EXCEPT ![r] = row], s, kept)
    BY <1>1 DEF RunScheduleNow
  <2>4. r \in RunIds /\ runs[r].state = "none"
    BY DEF FreshRuns
  <2>5. rs[r].state = "none"
    BY <1>0, <2>4, RecoveredRow
  <2> HIDE DEF rs, row
  <2>6. Keeps(rs, [rs EXCEPT ![r] = row])
    BY <2>1, <2>4, <2>5, KeepsUpdate DEF Final, Live, Terminal
  <2>7. [rs EXCEPT ![r] = row] \in Table
    BY <2>1, <2>2 DEF Table
  <2> QED
    BY <2>1, <2>3, <2>6, <2>7, KeepsPruned, KeepsTransitive
<1>2. ASSUME NEW r \in RunIds, Finished(r, Ended(runs[r], "cancelled")),
             runs[r].state = "queued"
      PROVE  KeepsRow(runs[q], runs'[q])
  <2>1. Ended(runs[r], "cancelled") \in JobRun
    BY EndedRow DEF Table, Terminal, Open
  <2>2. ~Final(runs[r]) /\ ~Live(runs[r])
    BY <1>2 DEF Final, Live, Terminal
  <2> QED
    BY <1>2, <2>1, <2>2, KeepsFinished
<1>3. ASSUME NEW c \in Cycles, RunDue(c)
      PROVE  Keeps(runs, runs')
  BY <1>0, <1>3, KeepsRecovered DEF RunDue, Time
<1>4. ASSUME NEW c \in Cycles, NEW r \in cycle[c].retry, ClaimRetry(c, r)
      PROVE  Keeps(runs, runs')
  <2> DEFINE now == cycle[c].now
             rs  == Recovered(runs, now)
  <2>1. now \in Time /\ now <= clock /\ r \in RunIds
    BY <1>0, CycleParts
  <2>2. rs \in Table /\ Keeps(runs, rs)
    BY <1>0, <2>1, RecoveredTable, KeepsRecovered
  <2>3. PICK t : runs' = [rs EXCEPT ![r] = Leased(rs[r], t, now)]
    BY <1>4, Zenon DEF ClaimRetry
  <2>4. rs[r].state = "queued"
    BY <1>4, Zenon DEF ClaimRetry, RetryReady
  <2> HIDE DEF now, rs
  <2>5. Keeps(rs, runs')
    BY <2>1, <2>2, <2>3, <2>4, KeepsUpdate DEF Final, Live, Terminal
  <2> QED
    BY <2>2, <2>5, KeepsTransitive
<1>5. ASSUME NEW c \in Cycles, NEW d \in cycle[c].due, ClaimScheduled(c, d)
      PROVE  Keeps(runs, runs')
  <2> DEFINE now == cycle[c].now
             rs  == Recovered(runs, now)
  <2>1. now \in Time /\ now <= clock /\ d \in Snapshot
    BY <1>0, CycleParts
  <2>2. rs \in Table /\ Keeps(runs, rs)
    BY <1>0, <2>1, RecoveredTable, KeepsRecovered
  <2>3. PICK r \in FreshRuns, t \in Tokens :
          \E kept :
            runs' = Pruned([rs EXCEPT ![r] = Leased(ScheduledRow(d, now), t, now)], d.id, kept)
    BY <1>5 DEF ClaimScheduled, FreshTokens
  <2>4. r \in RunIds /\ runs[r].state = "none"
    BY DEF FreshRuns
  <2>5. rs[r].state = "none"
    BY <2>1, <2>4, RecoveredRow
  <2> HIDE DEF now, rs
  <2> DEFINE row == Leased(ScheduledRow(d, now), t, now)
  <2>6. row \in JobRun
    BY <2>1, ScheduledRowType, LeasedRow, PolicyAssumption
  <2> HIDE DEF row
  <2>7. Keeps(rs, [rs EXCEPT ![r] = row])
    BY <2>2, <2>4, <2>5, KeepsUpdate DEF Final, Live, Terminal
  <2>8. [rs EXCEPT ![r] = row] \in Table
    BY <2>2, <2>6 DEF Table
  <2> QED
    BY <2>2, <2>3, <2>7, <2>8, KeepsPruned, KeepsTransitive DEF row
<1>6. ASSUME NEW c \in Cycles, NEW d \in cycle[c].due, RecordMisfire(c, d)
      PROVE  Keeps(runs, runs')
  <2> DEFINE row == Skipped(ScheduledRow(d, cycle[c].now))
  <2>1. PICK r \in FreshRuns :
          \E kept : runs' = Pruned([runs EXCEPT ![r] = row], d.id, kept)
    BY <1>6 DEF RecordMisfire
  <2>2. row \in JobRun
    BY CycleParts, ScheduledRowType
  <2>3. r \in RunIds /\ runs[r].state = "none"
    BY DEF FreshRuns
  <2> HIDE DEF row
  <2>4. Keeps(runs, [runs EXCEPT ![r] = row])
    BY <2>3, KeepsUpdate DEF Final, Live, Terminal
  <2>5. [runs EXCEPT ![r] = row] \in Table
    BY <2>2 DEF Table
  <2> QED
    BY <2>1, <2>4, <2>5, KeepsPruned, KeepsTransitive
<1>7. ASSUME NEW t \in Tokens, RenewLease(t)
      PROVE  \/ runs'[q] = runs[q]
             \/ runs[q].state = "running" /\ Holder(runs[q], runs'[q])
  <2>1. exec[t].run \in RunIds /\ runs[exec[t].run].state = "running"
    BY <1>7, ExecutionUsed DEF RenewLease, Holds
  <2>2. runs' = [runs EXCEPT ![exec[t].run].until = clock + LeaseDuration]
    BY <1>7, Zenon DEF RenewLease
  <2>3. runs'[q].state = runs[q].state /\ runs'[q].token = runs[q].token
    BY <2>1, <2>2 DEF Table, JobRun
  <2>4. CASE q = exec[t].run
    BY <2>1, <2>3, <2>4 DEF Holder
  <2>5. CASE q # exec[t].run
    BY <2>2, <2>5 DEF Table
  <2> QED
    BY <2>4, <2>5
<1>8. ASSUME NEW t \in Tokens, CompleteRun(t) \/ FailRun(t) \/ CancelRun(t)
      PROVE  \/ KeepsRow(runs[q], runs'[q])
             \/ runs[q].state = "running" /\ Holder(runs[q], runs'[q])
  <2> DEFINE r == exec[t].run
  <2>1. r \in RunIds /\ runs[r] \in JobRun /\ exec[t].pc = "returned"
    BY <1>8, ExecutionUsed DEF CompleteRun, FailRun, CancelRun, Table
  <2>2. PICK row \in JobRun : Finished(r, row)
    <3>1. CASE CompleteRun(t)
      BY <2>1, <3>1, EndedRow DEF CompleteRun, Terminal, Open
    <3>2. CASE FailRun(t)
      BY <2>1, <3>2, FailedRow DEF FailRun
    <3>3. CASE CancelRun(t)
      BY <2>1, <3>3, EndedRow DEF CancelRun, Terminal, Open
    <3> QED
      BY <1>8, <3>1, <3>2, <3>3
  <2>3. Holds(t) \/ runs[r].state = "queued"
    BY <1>8 DEF CompleteRun, FailRun, CancelRun
  <2>4. exec'[t].pc = "done"
    BY <1>8 DEF CompleteRun, FailRun, CancelRun, Leave, ExecType, Claimed
  <2>5. CASE q = r /\ Holds(t)
    BY <2>1, <2>4, <2>5 DEF Holds, Holder
  <2>6. CASE q # r \/ runs[r].state = "queued"
    BY <2>1, <2>2, <2>6, KeepsFinished DEF Final, Live, Terminal
  <2> QED
    BY <2>3, <2>5, <2>6
<1>9. CASE UNCHANGED runs
  BY <1>9 DEF KeepsRow
<1>10. CASE WritesRuns
  <2>1. runs'[q] = runs[q] => KeepsRow(runs[q], runs'[q])
    BY DEF KeepsRow
  <2> QED
    BY <1>1, <1>2, <1>3, <1>4, <1>5, <1>6, <1>7, <1>8, <1>10, <2>1 DEF WritesRuns, Keeps
<1> QED
  BY <1>9, <1>10, OthersLeaveRuns

(* A cycle's reading of the clock is never ahead of it.                    *)
LEMMA BehindAlways == Spec => []CyclesBehind
<1>1. Init => CyclesBehind
  BY DEF Init, CycleAt, CyclesBehind, NULL
<1>2. Typed /\ CyclesBehind /\ [Next]_vars => CyclesBehind'
  BY NextBehind
<1> QED
  BY <1>1, <1>2, TypedAlways, PTL DEF Spec

(* A finished run keeps its outcome until the history limit deletes it, at *)
(* every step of every behaviour.                                          *)
THEOREM OutcomesAreFinal == Spec => OutcomeIsFinal
<1>1. ASSUME Typed, CyclesBehind, [Next]_vars, NEW r \in RunIds,
             runs[r].state \in Terminal \cup {"pruned"}
      PROVE  runs'[r] = runs[r] \/ runs'[r].state = "pruned"
  <2>1. runs[r].state # "running"
    BY <1>1 DEF Terminal
  <2> QED
    BY <1>1, <2>1, NextKeeps DEF KeepsRow, Final
<1>2. Typed /\ CyclesBehind /\ [Next]_vars =>
        [\A r \in RunIds : runs[r].state \in Terminal \cup {"pruned"} =>
           runs'[r] = runs[r] \/ runs'[r].state = "pruned"]_vars
  BY <1>1
<1> QED
  BY <1>2, TypedAlways, BehindAlways, PTL DEF Spec, OutcomeIsFinal

(* A row under an unexpired lease changes only when the execution that     *)
(* holds the lease renews it or reports, whatever cycles, users, late      *)
(* executions and restarts do.                                             *)
THEOREM LeasesRespected == Spec => LeaseRespected
<1>1. ASSUME Typed, CyclesBehind, [Next]_vars, NEW r \in RunIds,
             runs[r].state = "running", runs[r].until > clock, runs'[r] # runs[r]
      PROVE  \/ runs'[r].state = "running" /\ runs'[r].token = runs[r].token
             \/ /\ exec[runs[r].token].pc = "returned"
                /\ exec'[runs[r].token].pc = "done"
  BY <1>1, NextKeeps DEF KeepsRow, Live, Holder
<1>2. Typed /\ CyclesBehind /\ [Next]_vars =>
        [\A r \in RunIds :
           runs[r].state = "running" /\ runs[r].until > clock /\ runs'[r] # runs[r] =>
             \/ runs'[r].state = "running" /\ runs'[r].token = runs[r].token
             \/ /\ exec[runs[r].token].pc = "returned"
                /\ exec'[runs[r].token].pc = "done"]_vars
  BY <1>1
<1> QED
  BY <1>2, TypedAlways, BehindAlways, PTL DEF Spec, LeaseRespected


-----------------------------------------------------------------------------
(* Rows and their views.                                                   *)

(* What JobRuns sees of a row.                                             *)
View(row) == [phase |-> row.state, sched |-> row.sched, attempt |-> row.attempt]

(* A row that changes without being given an execution.                    *)
QuietRow(old, new) ==
  /\ Jobs!Moves(View(old), View(new))
  /\ new.state = "pruned" \/ new.attempt = old.attempt
  /\ new.state = "running" => /\ old.state = "running"
                              /\ new.token = old.token
                              /\ old.until # NULL => new.until # NULL

(* A row that is given the execution of token t.                           *)
GrantedRow(old, new, t) ==
  /\ Jobs!Moves(View(old), View(new))
  /\ old.state # "pruned"
  /\ new.attempt = old.attempt + 1
  /\ new.state = "running" /\ new.token = t /\ new.until # NULL

(* A row that was never inserted looks so to JobRuns.                      *)
BlankRows == \A r \in RunIds : runs[r].state = "none" => View(runs[r]) = Jobs!Unborn

(* The view of a row is what JobRuns calls a job.                          *)
LEMMA ViewType ==
  ASSUME NEW row \in JobRun
  PROVE  /\ View(row) \in Jobs!Job
         /\ View(row).phase = row.state
         /\ View(row).sched = row.sched
         /\ View(row).attempt = row.attempt
BY DEF View, JobRun, Jobs!Job, Open, Terminal, Jobs!InHand, Jobs!Over

(* A row that does not change is quiet.                                    *)
LEMMA QuietSame ==
  ASSUME NEW row
  PROVE  QuietRow(row, row)
BY DEF QuietRow, Jobs!Moves

(* Recovery of an expired lease is quiet.                                  *)
LEMMA QuietRecovered ==
  ASSUME NEW rs \in Table, NEW now \in Time, NEW r \in RunIds
  PROVE  QuietRow(rs[r], Recovered(rs, now)[r])
<1> DEFINE new == Recovered(rs, now)[r]
<1>1. CASE new = rs[r]
  BY <1>1, QuietSame
<1>2. CASE /\ rs[r].state = "running"
           /\ new \in JobRun
           /\ new.state \in {"queued", "failed"}
           /\ new.sched = rs[r].sched
           /\ new.attempt = rs[r].attempt
           /\ new.state = "queued" => rs[r].attempt < MaxAttempts
  <2> HIDE DEF new
  <2>1. View(new) = [View(rs[r]) EXCEPT !.phase = new.state]
    BY <1>2 DEF View
  <2>2. Jobs!Moves(View(rs[r]), View(new))
    BY <1>2, <2>1 DEF View, Jobs!Moves, Jobs!Requeued, Jobs!Closed
  <2> QED
    BY <1>2, <2>2 DEF QuietRow, new
<1> QED
  BY <1>1, <1>2, RecoveredRow

(* The history limit, trimming after a quiet change, is quiet.             *)
LEMMA QuietTrimmed ==
  ASSUME NEW old \in JobRun, NEW mid \in JobRun, NEW new, QuietRow(old, mid),
         new = mid \/ (mid.state \in Terminal /\ new = Row("pruned"))
  PROVE  QuietRow(old, new)
<1>1. CASE new = mid
  BY <1>1
<1>2. CASE mid.state \in Terminal /\ new = Row("pruned")
  <2>1. View(new) = [Jobs!Unborn EXCEPT !.phase = "pruned"] /\ new.state = "pruned"
    BY <1>2 DEF View, Row, Jobs!Unborn
  <2>2. old.state # "pruned"
    BY <1>2 DEF QuietRow, View, Terminal, Jobs!Moves, Jobs!Accepted, Jobs!Unborn, Jobs!Begun,
                Jobs!Requeued, Jobs!Closed, Jobs!Dropped, Jobs!InHand
  <2> QED
    BY <2>1, <2>2 DEF QuietRow, View, Jobs!Moves, Jobs!Dropped
<1> QED
  BY <1>1, <1>2

(* A trimmed row is the row it was, or a finished one that is deleted.     *)
LEMMA QuietPruned ==
  ASSUME NEW rs \in Table, NEW s, NEW kept, NEW old \in JobRun, NEW r \in RunIds,
         QuietRow(old, rs[r])
  PROVE  QuietRow(old, Pruned(rs, s, kept)[r])
<1>1. rs[r] \in JobRun
  BY DEF Table
<1> QED
  BY <1>1, PrunedRow, QuietTrimmed

(* A run that leaves the worker is requeued with attempts left, or ends.   *)
LEMMA QuietReleased ==
  ASSUME NEW old \in JobRun, NEW new \in JobRun,
         new.sched = old.sched, new.attempt = old.attempt,
         \/ old.state = "running" /\ new.state \in {"succeeded", "failed", "cancelled"}
         \/ /\ old.state = "running" /\ old.attempt < MaxAttempts
            /\ new.state = "queued"
         \/ old.state = "queued" /\ new.state = "cancelled"
  PROVE  QuietRow(old, new)
<1>1. View(new) = [View(old) EXCEPT !.phase = new.state]
  BY DEF View
<1>2. Jobs!Moves(View(old), View(new))
  BY <1>1 DEF View, Jobs!Moves, Jobs!Requeued, Jobs!Closed
<1> QED
  BY <1>2 DEF QuietRow

(* An inserted row that is not executed at once is quiet.                  *)
LEMMA QuietInserted ==
  ASSUME NEW old \in JobRun, NEW new \in JobRun,
         old.state = "none", View(old) = Jobs!Unborn,
         new.sched \in Schedules, new.attempt = 0, new.state \in {"queued", "skipped"}
  PROVE  QuietRow(old, new)
<1>1. Jobs!Moves(View(old), View(new))
  BY DEF View, Jobs!Moves, Jobs!Accepted
<1> QED
  BY <1>1 DEF QuietRow, View, Jobs!Unborn

(* A claim grants an execution to a queued row, to an expired one, or to   *)
(* the row it inserts.                                                     *)
LEMMA LeaseGrants ==
  ASSUME NEW old \in JobRun, NEW row \in JobRun, NEW t \in Tokens, NEW now \in Time,
         row.attempt < MaxAttempts, row.attempt = old.attempt, row.state = "queued",
         \/ old.state \in Open /\ row.sched = old.sched
         \/ View(old) = Jobs!Unborn /\ row.sched \in Schedules
  PROVE  GrantedRow(old, Leased(row, t, now), t)
<1> DEFINE new == Leased(row, t, now)
<1>1. /\ new \in JobRun
      /\ new.state = "running" /\ new.sched = row.sched /\ new.token = t
      /\ new.attempt = row.attempt + 1
      /\ new.until = now + LeaseDuration
  BY LeasedRow
<1>2. new.until # NULL
  BY <1>1, WorkerAssumption DEF Time, NULL
<1> HIDE DEF new
<1>3. CASE old.state \in Open /\ row.sched = old.sched
  <2>1. View(new) = [View(old) EXCEPT !.phase = "running", !.attempt = @ + 1]
    <3>1. View(old) \in Jobs!Job /\ View(new) \in Jobs!Job
      BY <1>1, ViewType
    <3>2. /\ View(new).phase = "running" /\ View(new).sched = View(old).sched
          /\ View(new).attempt = View(old).attempt + 1
      BY <1>1, <1>3, ViewType
    <3> HIDE DEF View
    <3> QED
      BY <3>1, <3>2, PolicyAssumption DEF Jobs!Job
  <2>2. Jobs!Begun(View(old), View(new))
    BY <1>3, <2>1 DEF Jobs!Begun, Jobs!InHand, View, Open
  <2>3. Jobs!Moves(View(old), View(new)) /\ old.state # "pruned"
    BY <1>3, <2>2 DEF Jobs!Moves, Open
  <2> QED
    BY <1>1, <1>2, <2>3 DEF GrantedRow, new
<1>4. CASE View(old) = Jobs!Unborn /\ row.sched \in Schedules
  <2>1. old.state = "none" /\ old.attempt = 0
    BY <1>4 DEF View, Jobs!Unborn
  <2>2. Jobs!Accepted(View(old), View(new))
    BY <1>1, <1>4, <2>1 DEF View, Jobs!Accepted
  <2>3. Jobs!Moves(View(old), View(new))
    BY <2>2 DEF Jobs!Moves
  <2> QED
    BY <1>1, <1>2, <2>1, <2>3 DEF GrantedRow, new
<1> QED
  BY <1>3, <1>4

-----------------------------------------------------------------------------
(* The executions.                                                         *)

Flying == {"claimed", "executing", "returned"}

(* No execution is granted: executions keep their run, and one in flight   *)
(* was in flight for the same cycle.                                       *)
CalmExec ==
  \A t \in Tokens :
    /\ exec'[t].run = exec[t].run
    /\ exec'[t].pc \in Flying => exec[t].pc \in Flying /\ exec'[t].cycle = exec[t].cycle

Claims ==
  \/ \E c \in Cycles : \E r \in cycle[c].retry : ClaimRetry(c, r)
  \/ \E c \in Cycles : \E d \in cycle[c].due : ClaimScheduled(c, d)

(* Interrupting an execution only marks its context.                       *)
LEMMA InterruptCalm ==
  ASSUME ExecType, NEW t, NEW why, exec' = Interrupt(t, why)
  PROVE  CalmExec
BY DEF Interrupt, CalmExec, ExecType, Execution

(* An execution that leaves is out of flight.                              *)
LEMMA LeaveCalm ==
  ASSUME ExecType, NEW t \in Tokens, Leave(t)
  PROVE  CalmExec
BY DEF Leave, CalmExec, Claimed, ExecType, Execution, Flying

(* Only a claim grants an execution.                                       *)
LEMMA OthersAreCalm ==
  ASSUME Typed, [Next]_vars
  PROVE  Claims \/ CalmExec
<1> USE TypedParts
<1>0. exec' = exec => CalmExec
  BY SMTT(40) DEF CalmExec
<1>1. CASE UserStep
  BY <1>0, <1>1, InterruptCalm
     DEF UserStep, CreateSchedule, UpdateSchedule, Pause, Resume, Delete, Saved,
         RunScheduleNow, CancelJobRun
<1>2. ASSUME NEW c \in Cycles, CycleStep(c) \/ AbortCycle(c) \/ StopCycle(c)
      PROVE  Claims \/ CalmExec
  <2>1. CASE StopCycle(c)
    BY <2>1 DEF StopCycle, CalmExec, ExecType, Execution
  <2> QED
    BY <1>0, <1>2, <2>1
       DEF CycleStep, AbortCycle, RunDue, ListRetryableRuns, ListDueSchedules, ClaimsDone,
           Join, RetryConflict, DueConflict, RecordMisfire, Claims
<1>3. ASSUME NEW t \in Tokens, ExecStep(t)
      PROVE  CalmExec
  <2>1. CASE Register(t)
    BY <2>1 DEF Register, CalmExec, ExecType, Execution, Flying
  <2>2. CASE RenewLease(t)
    BY <1>0, <2>2 DEF RenewLease
  <2>3. CASE RenewFails(t) \/ Deadline(t)
    BY <2>3, InterruptCalm DEF RenewFails, Deadline
  <2>4. CASE \E result \in {"nil", "error", "canceled"} : Return(t, result)
    BY <2>4 DEF Return, CalmExec, ExecType, Execution, Flying
  <2>5. CASE Outcome(t)
    BY <2>5, LeaveCalm DEF Outcome, CompleteRun, FailRun, CancelRun, OutcomeLost
  <2> QED
    BY <1>3, <2>1, <2>2, <2>3, <2>4, <2>5 DEF ExecStep
<1>4. CASE Crash
  <2>1. ASSUME NEW t \in Tokens
        PROVE  exec'[t].run = exec[t].run /\ exec'[t].pc \notin Flying
    BY <1>4 DEF Crash, Unused, Claimed, ExecType, ExecutionsKnown, Flying
  <2> QED
    BY <2>1 DEF CalmExec
<1> QED
  BY <1>0, <1>1, <1>2, <1>3, <1>4 DEF Next, Tick, vars

-----------------------------------------------------------------------------
(* The steps.                                                              *)

QuietRows(old, new) == \A q \in RunIds : QuietRow(old[q], new[q])

(* One execution is granted, to run r under token t by cycle c.            *)
Grant(c, r, t) ==
  /\ exec[t].pc = "unused"
  /\ SlotFree(c)
  /\ exec' = [exec EXCEPT ![t] = Claimed(c, r)]
  /\ active' = active
  /\ GrantedRow(runs[r], runs'[r], t)
  /\ \A q \in RunIds \ {r} : QuietRow(runs[q], runs'[q])

(* A transaction that recovers leases, writes one row and trims a history  *)
(* is quiet when it is quiet on the row it writes.                         *)
LEMMA QuietTransaction ==
  ASSUME runs \in Table, NEW rs \in Table, QuietRows(runs, rs), NEW r \in RunIds,
         NEW row \in JobRun, QuietRow(runs[r], row), NEW s, NEW kept
  PROVE  QuietRows(runs, Pruned([rs EXCEPT ![r] = row], s, kept))
<1> DEFINE mid == [rs EXCEPT ![r] = row]
<1>1. mid \in Table /\ \A q \in RunIds : runs[q] \in JobRun /\ QuietRow(runs[q], mid[q])
  BY DEF Table, QuietRows
<1> HIDE DEF mid
<1>2. \A q \in RunIds : QuietRow(runs[q], Pruned(mid, s, kept)[q])
  BY <1>1, QuietPruned
<1> QED
  BY <1>2 DEF QuietRows, mid

(* The transaction that ends a run is quiet on the others.                 *)
LEMMA QuietFinished ==
  ASSUME runs \in Table, NEW r \in RunIds, NEW row \in JobRun, QuietRow(runs[r], row),
         Finished(r, row)
  PROVE  QuietRows(runs, runs')
<1>1. PICK kept : runs' = Pruned([runs EXCEPT ![r] = row], row.sched, kept)
  BY Zenon DEF Finished
<1>2. QuietRows(runs, runs)
  BY QuietSame DEF QuietRows
<1> QED
  BY <1>1, <1>2, QuietTransaction

(* Every step grants one execution, or is quiet.                           *)
LEMMA NextGrants ==
  ASSUME Typed, BlankRows, [Next]_vars
  PROVE  \/ CalmExec /\ QuietRows(runs, runs')
         \/ \E c \in Cycles, r \in RunIds, t \in Tokens : Grant(c, r, t)
<1> USE TypedParts
<1> DEFINE Quiet == QuietRows(runs, runs')
<1>0. \A rs : runs' = rs /\ QuietRows(runs, rs) => Quiet
  OBVIOUS
<1>a. QuietRows(runs, runs)
  BY QuietSame DEF QuietRows
<1>b. \A now \in Time : Recovered(runs, now) \in Table /\ QuietRows(runs, Recovered(runs, now))
  BY RecoveredTable, QuietRecovered DEF QuietRows
<1>c. \A r \in FreshRuns : /\ r \in RunIds /\ runs[r] \in JobRun
                           /\ runs[r].state = "none" /\ View(runs[r]) = Jobs!Unborn
  BY DEF FreshRuns, BlankRows, Table
<1> HIDE DEF Quiet
<1>1. ASSUME NEW s \in Schedules, NEW c \in Cycles \ {Poller}, RunScheduleNow(s, c)
      PROVE  Quiet
  <2> DEFINE rs  == Recovered(runs, clock)
             row == [Row("queued") EXCEPT !.sched = s, !.trigger = "manual",
                                          !.scheduledFor = clock, !.created = clock]
  <2>1. rs \in Table /\ QuietRows(runs, rs)
    BY <1>b DEF Time
  <2>2. row \in JobRun /\ row.state = "queued" /\ row.sched = s /\ row.attempt = 0
    <3>1. row \in JobRun
      BY InsertedRow DEF Open, Time
    <3>2. row.state = "queued" /\ row.sched = s /\ row.attempt = 0
      BY DEF Row
    <3> QED
      BY <3>1, <3>2
  <2>3. PICK r \in FreshRuns :
          \E kept : runs' = Pruned([rs EXCEPT ![r] = row], s, kept)
    BY <1>1 DEF RunScheduleNow
  <2> HIDE DEF rs, row
  <2>4. QuietRow(runs[r], row)
    BY <1>c, <2>2, QuietInserted
  <2> QED
    BY <1>c, <2>1, <2>2, <2>3, <2>4, QuietTransaction DEF Quiet
<1>2. ASSUME NEW r \in RunIds, Finished(r, Ended(runs[r], "cancelled")),
             runs[r].state = "queued"
      PROVE  Quiet
  <2> DEFINE row == Ended(runs[r], "cancelled")
  <2>1. row \in JobRun /\ row.state = "cancelled" /\ row.sched = runs[r].sched
        /\ row.attempt = runs[r].attempt /\ runs[r] \in JobRun
    BY EndedRow DEF Table, Terminal, Open
  <2> HIDE DEF row
  <2>2. QuietRow(runs[r], row)
    BY <1>2, <2>1, QuietReleased
  <2> QED
    BY <1>2, <2>1, <2>2, QuietFinished DEF row, Quiet
<1>3. ASSUME NEW c \in Cycles, RunDue(c)
      PROVE  Quiet
  BY <1>b, <1>3 DEF RunDue, Quiet, Time
<1>4. ASSUME NEW c \in Cycles, NEW r \in cycle[c].retry, ClaimRetry(c, r)
      PROVE  \E t \in Tokens : Grant(c, r, t)
  <2> DEFINE now == cycle[c].now
             rs  == Recovered(runs, now)
  <2>1. now \in Time /\ r \in RunIds
    BY CycleParts
  <2>2. rs \in Table /\ QuietRows(runs, rs) /\ rs[r] \in JobRun /\ runs[r] \in JobRun
    BY <1>b, <2>1 DEF Table
  <2>3. PICK t \in FreshTokens : /\ runs' = [rs EXCEPT ![r] = Leased(rs[r], t, now)]
                                 /\ exec' = [exec EXCEPT ![t] = Claimed(c, r)]
    BY <1>4, Zenon DEF ClaimRetry
  <2>4. rs[r].attempt < MaxAttempts /\ rs[r].state = "queued" /\ SlotFree(c) /\ active' = active
    BY <1>4, Zenon DEF ClaimRetry, RetryReady
  <2>5. t \in Tokens /\ exec[t].pc = "unused"
    BY DEF FreshTokens
  <2>6. \/ rs[r] = runs[r]
        \/ runs[r].state = "running" /\ rs[r].sched = runs[r].sched
                                     /\ rs[r].attempt = runs[r].attempt
    BY <2>1, RecoveredRow
  <2> HIDE DEF now, rs
  <2>7. GrantedRow(runs[r], Leased(rs[r], t, now), t)
    BY <2>1, <2>2, <2>4, <2>5, <2>6, LeaseGrants DEF Open
  <2>8. runs'[r] = Leased(rs[r], t, now) /\ \A q \in RunIds \ {r} : runs'[q] = rs[q]
    BY <2>1, <2>2, <2>3 DEF Table
  <2> QED
    BY <2>1, <2>2, <2>3, <2>4, <2>5, <2>7, <2>8 DEF Grant, QuietRows
<1>5. ASSUME NEW c \in Cycles, NEW d \in cycle[c].due, ClaimScheduled(c, d)
      PROVE  \E r \in RunIds, t \in Tokens : Grant(c, r, t)
  <2> DEFINE now == cycle[c].now
             rs  == Recovered(runs, now)
  <2>1. now \in Time /\ d \in Snapshot
    BY CycleParts
  <2>2. rs \in Table /\ QuietRows(runs, rs)
    BY <1>b, <2>1
  <2>3. PICK r \in FreshRuns, t \in FreshTokens :
          /\ \E kept :
               runs' = Pruned([rs EXCEPT ![r] = Leased(ScheduledRow(d, now), t, now)], d.id, kept)
          /\ exec' = [exec EXCEPT ![t] = Claimed(c, r)]
    BY <1>5 DEF ClaimScheduled
  <2>4. SlotFree(c) /\ active' = active
    BY <1>5 DEF ClaimScheduled
  <2>5. t \in Tokens /\ exec[t].pc = "unused" /\ r \in RunIds
    BY DEF FreshTokens, FreshRuns
  <2> HIDE DEF now, rs
  <2> DEFINE plain == ScheduledRow(d, now)
             row   == Leased(plain, t, now)
  <2>6. /\ plain \in JobRun /\ plain.sched \in Schedules
        /\ plain.attempt = 0 /\ plain.state = "queued"
    BY <2>1, ScheduledRowType DEF ScheduledRow, Row, Snapshot
  <2>7. row \in JobRun /\ row.state = "running"
    BY <2>1, <2>5, <2>6, LeasedRow, PolicyAssumption
  <2>8. GrantedRow(runs[r], row, t)
    <3> HIDE DEF plain
    <3>1. View(runs[r]) = Jobs!Unborn => runs[r].attempt = 0
      BY DEF View, Jobs!Unborn
    <3>2. 0 < MaxAttempts
      BY PolicyAssumption
    <3> QED
      BY <1>c, <2>1, <2>5, <2>6, <3>1, <3>2, LeaseGrants
  <2> DEFINE mid == [rs EXCEPT ![r] = row]
  <2>9. PICK kept : runs' = Pruned(mid, d.id, kept)
    BY <2>3
  <2> HIDE DEF plain, row
  <2>10. mid \in Table /\ mid[r] = row /\ \A q \in RunIds \ {r} : mid[q] = rs[q]
    BY <2>2, <2>5, <2>7 DEF Table
  <2> HIDE DEF mid
  <2>11. runs'[r] = row
    BY <2>5, <2>7, <2>9, <2>10, PrunedRow DEF Terminal
  <2>12. ASSUME NEW q \in RunIds \ {r}
         PROVE  QuietRow(runs[q], runs'[q])
    <3>1. QuietRow(runs[q], mid[q]) /\ runs[q] \in JobRun
      BY <2>2, <2>10 DEF QuietRows, Table
    <3> QED
      BY <2>9, <2>10, <3>1, QuietPruned
  <2> QED
    BY <2>3, <2>4, <2>5, <2>8, <2>11, <2>12 DEF Grant
<1>6. ASSUME NEW c \in Cycles, NEW d \in cycle[c].due, RecordMisfire(c, d)
      PROVE  Quiet
  <2> DEFINE row == Skipped(ScheduledRow(d, cycle[c].now))
  <2>1. PICK r \in FreshRuns :
          \E kept : runs' = Pruned([runs EXCEPT ![r] = row], d.id, kept)
    BY <1>6 DEF RecordMisfire
  <2>2. d \in Snapshot /\ cycle[c].now \in Time
    BY CycleParts
  <2>3. row \in JobRun /\ row.sched \in Schedules /\ row.attempt = 0 /\ row.state = "skipped"
    BY <2>2, ScheduledRowType DEF Snapshot
  <2> HIDE DEF row
  <2>4. QuietRow(runs[r], row)
    BY <1>c, <2>3, QuietInserted
  <2> QED
    BY <1>a, <1>c, <2>1, <2>3, <2>4, QuietTransaction DEF Quiet
<1>7. ASSUME NEW t \in Tokens, RenewLease(t)
      PROVE  Quiet
  <2>1. exec[t].run \in RunIds /\ clock + LeaseDuration # NULL
    BY <1>7, ExecutionUsed, WorkerAssumption DEF RenewLease, Time, NULL
  <2>2. runs' = [runs EXCEPT ![exec[t].run].until = clock + LeaseDuration]
    BY <1>7, Zenon DEF RenewLease
  <2>3. ASSUME NEW q \in RunIds
        PROVE  QuietRow(runs[q], runs'[q])
    <3>1. /\ runs'[q].state = runs[q].state /\ runs'[q].sched = runs[q].sched
          /\ runs'[q].attempt = runs[q].attempt /\ runs'[q].token = runs[q].token
          /\ runs'[q].until \in {runs[q].until, clock + LeaseDuration}
      BY <2>1, <2>2 DEF Table, JobRun
    <3>2. View(runs'[q]) = View(runs[q])
      BY <3>1 DEF View
    <3> QED
      BY <2>1, <3>1, <3>2 DEF QuietRow, Jobs!Moves
  <2> QED
    BY <2>3 DEF Quiet, QuietRows
<1>8. ASSUME NEW t \in Tokens, CompleteRun(t) \/ FailRun(t) \/ CancelRun(t)
      PROVE  Quiet
  <2> DEFINE r == exec[t].run
  <2>1. r \in RunIds /\ runs[r] \in JobRun
    BY <1>8, ExecutionUsed DEF CompleteRun, FailRun, CancelRun, Table
  <2>2. CASE CompleteRun(t)
    <3> DEFINE row == Ended(runs[r], "succeeded")
    <3>1. /\ row \in JobRun /\ row.state = "succeeded"
          /\ row.sched = runs[r].sched /\ row.attempt = runs[r].attempt
      BY <2>1, EndedRow DEF Terminal
    <3>2. runs[r].state = "running" /\ Finished(r, row)
      BY <2>2 DEF CompleteRun, Holds
    <3> HIDE DEF row
    <3>3. QuietRow(runs[r], row)
      BY <2>1, <3>1, <3>2, QuietReleased
    <3> QED
      BY <2>1, <3>1, <3>2, <3>3, QuietFinished DEF Quiet
  <2>3. CASE CancelRun(t)
    <3> DEFINE row == Ended(runs[r], "cancelled")
    <3>1. /\ row \in JobRun /\ row.state = "cancelled"
          /\ row.sched = runs[r].sched /\ row.attempt = runs[r].attempt
      BY <2>1, EndedRow DEF Terminal
    <3>2. runs[r].state \in {"running", "queued"} /\ Finished(r, row)
      BY <2>3 DEF CancelRun, Holds
    <3> HIDE DEF row
    <3>3. QuietRow(runs[r], row)
      BY <2>1, <3>1, <3>2, QuietReleased
    <3> QED
      BY <2>1, <3>1, <3>2, <3>3, QuietFinished DEF Quiet
  <2>4. CASE FailRun(t)
    <3> DEFINE row == Failed(runs[r])
    <3>1. /\ row \in JobRun /\ row.state \in {"queued", "failed"}
          /\ row.sched = runs[r].sched /\ row.attempt = runs[r].attempt
          /\ row.state = "queued" => runs[r].attempt < MaxAttempts
      BY <2>1, FailedRow
    <3>2. runs[r].state = "running" /\ Finished(r, row)
      BY <2>4 DEF FailRun, Holds
    <3> HIDE DEF row
    <3>3. QuietRow(runs[r], row)
      BY <2>1, <3>1, <3>2, QuietReleased
    <3> QED
      BY <2>1, <3>1, <3>2, <3>3, QuietFinished DEF Quiet
  <2> QED
    BY <1>8, <2>2, <2>3, <2>4
<1>9. CASE Claims
  <2>1. \A c \in Cycles : cycle[c].retry \in SUBSET RunIds
    BY CycleParts
  <2> QED
    BY <1>4, <1>5, <1>9, <2>1 DEF Claims
<1>10. CASE WritesRuns /\ ~Claims
  <2>1. Quiet
    BY <1>1, <1>2, <1>3, <1>6, <1>7, <1>8, <1>10 DEF WritesRuns, Claims
  <2> QED
    BY <1>10, <2>1, OthersAreCalm DEF Quiet
<1>11. CASE UNCHANGED runs /\ ~Claims
  BY <1>a, <1>11, OthersAreCalm
<1> QED
  BY <1>9, <1>10, <1>11, OthersLeaveRuns

-----------------------------------------------------------------------------
(* The scheduler implements JobRuns.                                       *)

(* A row that is blank, or not pruned, after a move was so before.         *)
LEMMA MovesBack ==
  ASSUME NEW old, NEW new, Jobs!Moves(View(old), View(new))
  PROVE  /\ new.state = "none" => View(new) = View(old) /\ old.state = "none"
         /\ new.state # "pruned" => old.state # "pruned"
BY DEF View, Jobs!Moves, Jobs!Accepted, Jobs!Unborn, Jobs!Begun, Jobs!Requeued, Jobs!Closed,
       Jobs!Dropped, Jobs!InHand

(* Every row moves as JobRuns allows, and at most one is given an          *)
(* execution.                                                              *)
LEMMA NextMoves ==
  ASSUME Typed, BlankRows, [Next]_vars
  PROVE  /\ \A q \in RunIds : Jobs!Moves(View(runs[q]), View(runs'[q]))
         /\ \A q, r \in RunIds : /\ runs'[q].attempt > runs[q].attempt
                                 /\ runs'[r].attempt > runs[r].attempt
                                 => q = r
<1>1. ASSUME NEW q \in RunIds, QuietRow(runs[q], runs'[q])
      PROVE  ~(runs'[q].attempt > runs[q].attempt)
  <2>1. runs[q].attempt \in Nat /\ runs'[q].attempt \in Nat
    BY TypedParts, NextTyped, PolicyAssumption DEF Typed, TypeOK, Table, JobRun
  <2>2. runs'[q].state = "pruned" => runs'[q].attempt \in {0, runs[q].attempt}
    BY <1>1 DEF QuietRow, View, Jobs!Moves, Jobs!Accepted, Jobs!Begun, Jobs!Requeued,
                Jobs!Closed, Jobs!Dropped, Jobs!Unborn
  <2> QED
    BY <1>1, <2>1, <2>2 DEF QuietRow
<1>2. CASE QuietRows(runs, runs')
  BY <1>1, <1>2 DEF QuietRows, QuietRow
<1>3. ASSUME NEW c \in Cycles, NEW r \in RunIds, NEW t \in Tokens, Grant(c, r, t)
      PROVE  /\ \A q \in RunIds : Jobs!Moves(View(runs[q]), View(runs'[q]))
             /\ \A q \in RunIds : runs'[q].attempt > runs[q].attempt => q = r
  BY <1>1, <1>3 DEF Grant, GrantedRow, QuietRow
<1> QED
  BY <1>2, <1>3, NextGrants

(* Rows that were never inserted stay blank.                               *)
LEMMA NextBlank ==
  ASSUME Typed, BlankRows, [Next]_vars
  PROVE  BlankRows'
BY NextMoves, MovesBack DEF BlankRows

(* Rows that were never inserted are blank in every reachable state.       *)
LEMMA BlankAlways == Spec => []BlankRows
<1>1. Init => BlankRows
  BY DEF Init, BlankRows, View, Row, Jobs!Unborn
<1>2. Typed /\ BlankRows /\ [Next]_vars => BlankRows'
  BY NextBlank
<1> QED
  BY <1>1, <1>2, TypedAlways, PTL DEF Spec

(* No-overlap over the table of runs, in every reachable state.            *)
LEMMA ExclusiveAlways == Spec => []Exclusive(runs)
<1>1. NoOverlap <=> Exclusive(runs)
  BY DEF NoOverlap, Exclusive
<1> QED
  BY <1>1, NoOverlapHolds, PTL

(* The scheduler implements JobRuns: whatever interleaves, a run is        *)
(* accepted once, begins at most MaxAttempts executions one at a time,     *)
(* ends once, and shares its schedule with no other open run when the      *)
(* schedule forbids overlap.                                               *)
THEOREM JobRunsImplemented == Spec => ImplementsJobRuns
<1> DEFINE job == [r \in RunIds |-> View(runs[r])]
<1>1. Init => Jobs!Init
  BY DEF Init, Row, Jobs!Init, Jobs!Unborn
<1>2. ASSUME Typed, BlankRows, Exclusive(runs), [Next]_vars
      PROVE  [Jobs!Step]_job
  <2>1. runs \in Table /\ runs' \in Table
    BY <1>2, NextTyped DEF Typed, TypeOK, Table
  <2>2. job' \in [RunIds -> Jobs!Job]
    BY <2>1, ViewType DEF Table
  <2>3. Exclusive(runs')
    BY <1>2, NextExclusive
  <2>4. Jobs!Exclusive(job')
    BY <2>3 DEF Exclusive, Jobs!Exclusive, Jobs!InHand, Open, View
  <2>5. \A r \in RunIds : Jobs!Moves(job[r], job'[r])
    BY <1>2, NextMoves
  <2>6. \A q, r \in RunIds : /\ job'[q].attempt > job[q].attempt
                             /\ job'[r].attempt > job[r].attempt
                             => q = r
    BY <1>2, NextMoves DEF View
  <2> QED
    BY <2>2, <2>4, <2>5, <2>6 DEF Jobs!Step, View
<1> QED
  BY <1>1, <1>2, TypedAlways, BlankAlways, ExclusiveAlways, PTL
     DEF Spec, ImplementsJobRuns, Jobs!Spec, View

-----------------------------------------------------------------------------
(* Nothing is lost between the rows, the executions and activeRuns.        *)

Executions(r) == {t \in Tokens : exec[t].run = r}

(* The accounts that carry over from step to step: a run is charged for    *)
(* every execution it was given until the history limit deletes it, the    *)
(* sets that are counted are finite, and a slot is taken per claim.        *)
Accounted ==
  /\ BlankRows
  /\ \A r \in RunIds : /\ IsFiniteSet(Executions(r))
                       /\ runs[r].state # "pruned" =>
                            Cardinality(Executions(r)) = runs[r].attempt
  /\ RunningIsLeased
  /\ ActiveIsLive
  /\ \A c \in Cycles : IsFiniteSet(InFlight(c)) /\ Cardinality(InFlight(c)) <= MaxConcurrent

(* No row has an execution when the program starts.                        *)
LEMMA InitAccounted ==
  ASSUME Init
  PROVE  Accounted
<1>1. \A r \in RunIds : Executions(r) = {}
  BY SetsAssumption DEF Init, Unused, Executions
<1>2. \A c \in Cycles : InFlight(c) = {}
  BY DEF Init, Unused, InFlight
<1>3. IsFiniteSet({}) /\ Cardinality({}) = 0
  BY FS_EmptySet
<1>4. BlankRows /\ RunningIsLeased /\ ActiveIsLive
  BY DEF Init, BlankRows, View, Row, Jobs!Unborn, RunningIsLeased, ActiveIsLive
<1>5. \A r \in RunIds : runs[r].attempt = 0
  BY DEF Init, Row
<1> QED
  BY <1>1, <1>2, <1>3, <1>4, <1>5, WorkerAssumption DEF Accounted

(* A step that grants nothing leaves the counts of executions alone and    *)
(* takes no slot.                                                          *)
LEMMA CalmAccounted ==
  ASSUME Typed, Accounted, CalmExec, QuietRows(runs, runs')
  PROVE  /\ \A r \in RunIds : /\ IsFiniteSet(Executions(r)')
                              /\ runs'[r].state # "pruned" =>
                                   Cardinality(Executions(r)') = runs'[r].attempt
         /\ RunningIsLeased'
         /\ \A c \in Cycles : /\ IsFiniteSet(InFlight(c)')
                              /\ Cardinality(InFlight(c)') <= MaxConcurrent
<1>1. ASSUME NEW r \in RunIds
      PROVE  /\ IsFiniteSet(Executions(r)')
             /\ runs'[r].state # "pruned" => Cardinality(Executions(r)') = runs'[r].attempt
  <2>1. Executions(r)' = Executions(r)
    BY DEF Executions, CalmExec
  <2>2. runs'[r].state # "pruned" =>
          runs[r].state # "pruned" /\ runs'[r].attempt = runs[r].attempt
    BY MovesBack DEF QuietRows, QuietRow
  <2> QED
    BY <2>1, <2>2 DEF Accounted
<1>2. RunningIsLeased'
  BY DEF Accounted, RunningIsLeased, QuietRows, QuietRow, CalmExec
<1>3. ASSUME NEW c \in Cycles
      PROVE  IsFiniteSet(InFlight(c)') /\ Cardinality(InFlight(c)') <= MaxConcurrent
  <2>1. InFlight(c)' \subseteq InFlight(c)
    BY DEF InFlight, CalmExec, Flying
  <2>2. IsFiniteSet(InFlight(c)) /\ Cardinality(InFlight(c)) <= MaxConcurrent
    BY DEF Accounted
  <2>3. /\ IsFiniteSet(InFlight(c)')
        /\ Cardinality(InFlight(c)') <= Cardinality(InFlight(c))
    BY <2>1, <2>2, FS_Subset
  <2>4. Cardinality(InFlight(c)) \in Nat /\ Cardinality(InFlight(c)') \in Nat
    BY <2>2, <2>3, FS_CardinalityType
  <2> QED
    BY <2>2, <2>3, <2>4, WorkerAssumption
<1> QED
  BY <1>1, <1>2, <1>3

(* A claim charges its run one execution and takes one free slot.          *)
LEMMA GrantAccounted ==
  ASSUME Typed, Accounted, NEW c \in Cycles, NEW r \in RunIds, NEW t \in Tokens, Grant(c, r, t)
  PROVE  /\ \A q \in RunIds : /\ IsFiniteSet(Executions(q)')
                              /\ runs'[q].state # "pruned" =>
                                   Cardinality(Executions(q)') = runs'[q].attempt
         /\ RunningIsLeased'
         /\ \A b \in Cycles : /\ IsFiniteSet(InFlight(b)')
                              /\ Cardinality(InFlight(b)') <= MaxConcurrent
<1>1. /\ exec[t].pc = "unused" /\ exec[t].run = NoRun
      /\ exec'[t] = Claimed(c, r)
      /\ \A u \in Tokens \ {t} : exec'[u] = exec[u]
  BY TypedParts DEF Grant, ExecType, ExecutionsKnown
<1>2. t \notin Executions(r) /\ t \notin InFlight(c)
  BY <1>1, SetsAssumption DEF Executions, InFlight
<1>3. ASSUME NEW q \in RunIds
      PROVE  /\ IsFiniteSet(Executions(q)')
             /\ runs'[q].state # "pruned" => Cardinality(Executions(q)') = runs'[q].attempt
  <2>1. /\ IsFiniteSet(Executions(q))
        /\ runs[q].state # "pruned" => Cardinality(Executions(q)) = runs[q].attempt
    BY DEF Accounted
  <2>2. CASE q = r
    <3>1. Executions(q)' = Executions(q) \cup {t}
      BY <1>1, <2>2 DEF Executions, Claimed
    <3>2. /\ IsFiniteSet(Executions(q)')
          /\ Cardinality(Executions(q)') = Cardinality(Executions(q)) + 1
      BY <1>2, <2>1, <2>2, <3>1, FS_AddElement
    <3> QED
      BY <2>1, <2>2, <3>2 DEF Grant, GrantedRow
  <2>3. CASE q # r
    <3>1. Executions(q)' = Executions(q)
      BY <1>1, <2>3, SetsAssumption DEF Executions, Claimed
    <3>2. runs'[q].state # "pruned" =>
            runs[q].state # "pruned" /\ runs'[q].attempt = runs[q].attempt
      BY <2>3, MovesBack DEF Grant, QuietRow
    <3> QED
      BY <2>1, <3>1, <3>2
  <2> QED
    BY <2>2, <2>3
<1>4. ASSUME NEW q \in RunIds, runs'[q].state = "running"
      PROVE  /\ runs'[q].until # NULL
             /\ runs'[q].token \in Tokens
             /\ exec'[runs'[q].token].run = q
  <2>1. CASE q = r
    BY <1>1, <2>1 DEF Grant, GrantedRow, Claimed
  <2>2. CASE q # r
    <3>1. /\ runs[q].state = "running" /\ runs'[q].token = runs[q].token
          /\ runs[q].until # NULL => runs'[q].until # NULL
      BY <1>4, <2>2 DEF Grant, QuietRow
    <3>2. runs[q].until # NULL /\ runs[q].token \in Tokens /\ exec[runs[q].token].run = q
      BY <3>1 DEF Accounted, RunningIsLeased
    <3>3. runs[q].token # t
      BY <1>1, <3>2, SetsAssumption
    <3> QED
      BY <1>1, <3>1, <3>2, <3>3
  <2> QED
    BY <2>1, <2>2
<1>5. ASSUME NEW b \in Cycles
      PROVE  IsFiniteSet(InFlight(b)') /\ Cardinality(InFlight(b)') <= MaxConcurrent
  <2>1. IsFiniteSet(InFlight(b)) /\ Cardinality(InFlight(b)) <= MaxConcurrent
    BY DEF Accounted
  <2>2. CASE b = c
    <3>1. InFlight(b)' = InFlight(b) \cup {t}
      BY <1>1, <2>2 DEF InFlight, Claimed
    <3>2. /\ IsFiniteSet(InFlight(b)')
          /\ Cardinality(InFlight(b)') = Cardinality(InFlight(b)) + 1
      BY <1>2, <2>1, <2>2, <3>1, FS_AddElement
    <3>3. Cardinality(InFlight(b)) < MaxConcurrent
      BY <2>2 DEF Grant, SlotFree
    <3> QED
      BY <2>1, <3>2, <3>3, FS_CardinalityType, WorkerAssumption
  <2>3. CASE b # c
    <3>1. InFlight(b)' = InFlight(b)
      BY <1>1, <2>3 DEF InFlight, Claimed
    <3> QED
      BY <2>1, <3>1
  <2> QED
    BY <2>2, <2>3
<1> QED
  BY <1>3, <1>4, <1>5 DEF RunningIsLeased

(* What activeRuns holds stays live: an execution is filed when it begins  *)
(* and leaves activeRuns when it is done.                                  *)
LEMMA NextActive ==
  ASSUME Typed, ActiveIsLive, [Next]_vars
  PROVE  ActiveIsLive'
<1> USE TypedParts
<1> DEFINE Under(e)  == e.pc \in {"executing", "returned"}
           StaysLive == \A t \in Tokens :
                          Under(exec[t]) => Under(exec'[t]) /\ exec'[t].run = exec[t].run
<1>0. active' = active /\ StaysLive => ActiveIsLive'
  BY DEF ActiveIsLive
<1>a. exec' = exec => StaysLive
  OBVIOUS
<1>b. ASSUME NEW t, NEW why, exec' = Interrupt(t, why)
      PROVE  StaysLive
  BY <1>b DEF Interrupt, ExecType, Execution
<1>c. ASSUME NEW c \in Cycles, NEW r, NEW t \in FreshTokens, exec' = [exec EXCEPT ![t] = Claimed(c, r)]
      PROVE  StaysLive
  BY <1>c DEF FreshTokens, ExecType
<1> HIDE DEF StaysLive
<1>1. CASE UserStep
  <2>1. active' = active /\ (exec' = exec \/ \E t, why : exec' = Interrupt(t, why))
    BY <1>1 DEF UserStep, CreateSchedule, UpdateSchedule, Pause, Resume, Delete, Saved,
                RunScheduleNow, CancelJobRun
  <2> QED
    BY <1>0, <1>a, <1>b, <2>1, SMTT(40)
<1>2. ASSUME NEW c \in Cycles, CycleStep(c) \/ AbortCycle(c) \/ StopCycle(c)
      PROVE  ActiveIsLive'
  <2>1. CASE StopCycle(c)
    <3>1. StaysLive
      BY <2>1 DEF StopCycle, ExecType, Execution, StaysLive
    <3> QED
      BY <1>0, <2>1, <3>1 DEF StopCycle
  <2>2. ASSUME NEW r \in cycle[c].retry, ClaimRetry(c, r)
        PROVE  ActiveIsLive'
    BY <1>0, <1>c, <2>2 DEF ClaimRetry
  <2>3. ASSUME NEW d \in cycle[c].due, ClaimScheduled(c, d)
        PROVE  ActiveIsLive'
    <3>1. active' = active /\ \E t \in FreshTokens, r \in RunIds : exec' = [exec EXCEPT ![t] = Claimed(c, r)]
      BY <2>3 DEF ClaimScheduled, FreshRuns
    <3> QED
      BY <1>0, <1>c, <3>1
  <2> QED
    BY <1>0, <1>2, <1>a, <2>1, <2>2, <2>3
       DEF CycleStep, AbortCycle, RunDue, ListRetryableRuns, ListDueSchedules, ClaimsDone,
           Join, RetryConflict, DueConflict, RecordMisfire
<1>3. ASSUME NEW t \in Tokens, ExecStep(t)
      PROVE  ActiveIsLive'
  <2>1. CASE Register(t)
    <3>1. exec[t].run \in RunIds
      BY <2>1, ExecutionUsed DEF Register
    <3>2. /\ exec'[t].pc = "executing" /\ exec'[t].run = exec[t].run
          /\ \A u \in Tokens \ {t} : exec'[u] = exec[u]
      BY <2>1 DEF Register, ExecType, Execution
    <3>3. active' = [active EXCEPT ![exec[t].run] = t] /\ exec[t].pc = "claimed"
      BY <2>1 DEF Register
    <3>4. ASSUME NEW r \in RunIds, active'[r] # NoToken
          PROVE  exec'[active'[r]].run = r /\ exec'[active'[r]].pc \in {"executing", "returned"}
      <4>1. CASE r = exec[t].run
        BY <3>1, <3>2, <3>3, <4>1
      <4>2. CASE r # exec[t].run
        <5>1. active'[r] = active[r] /\ active[r] \in Tokens
          BY <3>3, <3>4, <4>2
        <5>2. active[r] # t
          BY <3>3, <3>4, <5>1 DEF ActiveIsLive
        <5> QED
          BY <3>2, <3>4, <5>1, <5>2 DEF ActiveIsLive
      <4> QED
        BY <4>1, <4>2
    <3> QED
      BY <3>4 DEF ActiveIsLive
  <2>2. CASE RenewLease(t)
    BY <1>0, <1>a, <2>2 DEF RenewLease
  <2>3. CASE RenewFails(t) \/ Deadline(t)
    BY <1>0, <1>b, <2>3 DEF RenewFails, Deadline
  <2>4. ASSUME NEW result \in {"nil", "error", "canceled"}, Return(t, result)
        PROVE  ActiveIsLive'
    <3>1. StaysLive
      BY <2>4 DEF Return, ExecType, Execution, StaysLive
    <3> QED
      BY <1>0, <2>4, <3>1 DEF Return
  <2>5. CASE Outcome(t)
    <3>1. exec[t].pc = "returned" /\ Leave(t)
      BY <2>5 DEF Outcome, CompleteRun, FailRun, CancelRun, OutcomeLost
    <3>2. exec[t].run \in RunIds
      BY <3>1, ExecutionUsed
    <3>3. /\ active' = [active EXCEPT ![exec[t].run] = NoToken]
          /\ \A u \in Tokens \ {t} : exec'[u] = exec[u]
      BY <3>1 DEF Leave, ExecType
    <3>4. ASSUME NEW r \in RunIds, active'[r] # NoToken
          PROVE  exec'[active'[r]].run = r /\ exec'[active'[r]].pc \in {"executing", "returned"}
      <4>1. r # exec[t].run /\ active'[r] = active[r] /\ active[r] \in Tokens
        BY <3>2, <3>3, <3>4
      <4>2. active[r] # t
        BY <3>4, <4>1 DEF ActiveIsLive
      <4> QED
        BY <3>3, <3>4, <4>1, <4>2 DEF ActiveIsLive
    <3> QED
      BY <3>4 DEF ActiveIsLive
  <2> QED
    BY <1>3, <2>1, <2>2, <2>3, <2>4, <2>5 DEF ExecStep
<1>4. CASE Crash
  BY <1>4 DEF Crash, ActiveIsLive
<1> QED
  BY <1>0, <1>1, <1>2, <1>3, <1>4, <1>a DEF Next, Tick, vars

(* Every step keeps the accounts.                                          *)
LEMMA NextAccounted ==
  ASSUME Typed, Accounted, [Next]_vars
  PROVE  Accounted'
<1>1. BlankRows' /\ ActiveIsLive'
  BY NextBlank, NextActive DEF Accounted
<1>2. CASE CalmExec /\ QuietRows(runs, runs')
  BY <1>1, <1>2, CalmAccounted DEF Accounted
<1>3. ASSUME NEW c \in Cycles, NEW r \in RunIds, NEW t \in Tokens, Grant(c, r, t)
      PROVE  Accounted'
  BY <1>1, <1>3, GrantAccounted DEF Accounted
<1> QED
  BY <1>2, <1>3, NextGrants DEF Accounted

(* The attempt counter counts executions, a running row is leased to an    *)
(* execution of its own, activeRuns holds live executions of the runs they *)
(* are filed under, and a cycle stays within its pool: through retries,    *)
(* lost leases, cancellations, stops and crashes.                          *)
THEOREM RunsAccountedHolds == Spec => []RunsAreAccounted
<1>1. Init => Accounted
  BY InitAccounted
<1>2. Typed /\ Accounted /\ [Next]_vars => Accounted'
  BY NextAccounted
<1>3. Accounted => RunsAreAccounted
  BY DEF Accounted, RunsAreAccounted, AttemptsCountExecutions, Executions, PoolBounded
<1> QED
  BY <1>1, <1>2, <1>3, TypedAlways, PTL DEF Spec

-----------------------------------------------------------------------------
(* The rows behind the user's edits.  A row's origin (its schedule, its    *)
(* trigger, its occurrence and its age) is written when it is inserted.    *)
(* Every step rewrites the rows of the table to kin of theirs, inserts at  *)
(* most one, and may then trim one schedule's history.                     *)

Kin(old, new) ==
  /\ new.sched = old.sched /\ new.trigger = old.trigger
  /\ new.scheduledFor = old.scheduledFor /\ new.created = old.created
  /\ new.state = "none" <=> old.state = "none"
  /\ new.state = "pruned" <=> old.state = "pruned"

(* Cycle c writes the row of the occurrence of snapshot d, which was       *)
(* current, and advances its schedule.                                     *)
Serves(c, d) ==
  /\ d \in cycle[c].due
  /\ schedules[d.id].version = d.version
  /\ schedules[d.id].status = "active"
  /\ schedules[d.id].next = d.next
  /\ d.next \in 1..cycle[c].now
  /\ \E next \in {NextAfterClaim(d, cycle[c].now), NextOccurrence(d, cycle[c].now)} :
       schedules' = Advanced(d.id, next)

(* A row that is inserted: a manual run, or an occurrence that is served.  *)
Inserted(old, new) ==
  /\ old.state = "none"
  /\ new.state \in {"queued", "running", "skipped"}
  /\ \/ new.trigger = "manual" /\ schedules' = schedules
     \/ \E c \in Cycles : \E d \in cycle[c].due :
          Serves(c, d) /\ new.sched = d.id /\ new.scheduledFor = d.next

(* The table mid holds kin of the rows, and at most one that is inserted.  *)
Rewrites(mid) ==
  /\ mid \in Table
  /\ \E r : \A q \in RunIds : \/ Kin(runs[q], mid[q])
                              \/ q = r /\ Inserted(runs[q], mid[q])

(* The step leaves the table mid, or trims a history in it.                *)
Trims(mid) ==
  \/ runs' = mid
  \/ \E s : \E kept \in Kept(mid, s) : runs' = Pruned(mid, s, kept)

(* Releasing a row keeps its origin.                                       *)
LEMMA KinReleased ==
  ASSUME NEW row \in JobRun, row.state \notin {"none", "pruned"},
         NEW state \in Open \cup Terminal, NEW at \in Time
  PROVE  Kin(row, Released(row, state, at))
BY DEF Kin, Released, JobRun, Open, Terminal

(* Lease recovery keeps it.                                                *)
LEMMA KinRecovered ==
  ASSUME NEW rs \in Table, NEW now \in Time, NEW r \in RunIds
  PROVE  Kin(rs[r], Recovered(rs, now)[r])
<1>1. rs[r] \in JobRun
  BY DEF Table
<1>2. CASE rs[r].state = "running" /\ rs[r].until <= now
  <2>1. CASE rs[r].attempt >= MaxAttempts
    <3>1. Recovered(rs, now)[r] = Released(rs[r], "failed", NULL)
      BY <1>2, <2>1 DEF Recovered, Released
    <3>2. "failed" \in Open \cup Terminal /\ NULL \in Time
      BY DEF Terminal, Time, NULL
    <3> QED
      BY <1>1, <1>2, <3>1, <3>2, KinReleased
  <2>2. CASE ~(rs[r].attempt >= MaxAttempts)
    <3>1. Recovered(rs, now)[r] = Released(rs[r], "queued", now)
      BY <1>2, <2>2 DEF Recovered, Released
    <3>2. "queued" \in Open \cup Terminal
      BY DEF Open
    <3> QED
      BY <1>1, <1>2, <3>1, <3>2, KinReleased
  <2> QED
    BY <2>1, <2>2
<1>3. CASE ~(rs[r].state = "running" /\ rs[r].until <= now)
  BY <1>3 DEF Recovered, Kin
<1> QED
  BY <1>2, <1>3

(* So do a new lease, a renewal and a report.                              *)
LEMMA KinLeased ==
  ASSUME NEW row \in JobRun, row.state = "queued", NEW t \in Tokens, NEW now \in Time
  PROVE  Kin(row, Leased(row, t, now))
<1> DEFINE attempt == row.attempt + 1
           until   == now + LeaseDuration
<1>1. Leased(row, t, now) = [row EXCEPT !.state = "running", !.attempt = attempt,
                               !.token = t, !.until = until, !.retryAt = NULL]
  BY DEF Leased
<1> HIDE DEF attempt, until
<1> QED
  BY <1>1 DEF Kin, JobRun

(* An ended row is the row it was, with another state.                    *)
LEMMA KinEnded ==
  ASSUME NEW row \in JobRun, row.state \notin {"none", "pruned"},
         NEW state \in Open \cup Terminal
  PROVE  Kin(row, Ended(row, state))
<1>1. Ended(row, state) = Released(row, state, NULL) /\ NULL \in Time
  BY DEF Ended, Released, NULL, Time
<1> QED
  BY <1>1, KinReleased

(* So is a row whose execution failed, whether it is retried or not.       *)
LEMMA KinFailed ==
  ASSUME NEW row \in JobRun, row.state \notin {"none", "pruned"}
  PROVE  Kin(row, Failed(row))
<1>1. CASE row.attempt < MaxAttempts /\ schedules[row.sched].status # "deleted"
  <2> DEFINE retryAt == clock + RetryDelay[row.attempt]
  <2>1. Failed(row) = [Ended(row, "queued") EXCEPT !.retryAt = retryAt]
    BY <1>1 DEF Failed
  <2> HIDE DEF retryAt
  <2>2. Failed(row) = [row EXCEPT !.state = "queued", !.token = NoToken, !.until = NULL,
                                  !.retryAt = retryAt]
    BY <2>1 DEF Ended, JobRun
  <2> QED
    BY <2>2 DEF Kin, JobRun
<1>2. CASE ~(row.attempt < MaxAttempts /\ schedules[row.sched].status # "deleted")
  BY <1>2, KinEnded DEF Failed, Terminal
<1> QED
  BY <1>1, <1>2

(* The transaction that ends a run rewrites its row and trims.             *)
LEMMA FinishedRewrites ==
  ASSUME runs \in Table, NEW r \in RunIds, NEW row \in JobRun, Kin(runs[r], row),
         Finished(r, row)
  PROVE  \E mid : Rewrites(mid) /\ Trims(mid)
<1> DEFINE mid == [runs EXCEPT ![r] = row]
<1>1. mid \in Table /\ \A q \in RunIds : Kin(runs[q], mid[q])
  BY DEF Table, Kin
<1>2. \E kept \in Kept(mid, row.sched) : runs' = Pruned(mid, row.sched, kept)
  BY DEF Finished
<1> HIDE DEF mid
<1> QED
  BY <1>1, <1>2 DEF Rewrites, Trims

(* So does one that recovers leases and writes one more row.               *)
LEMMA WriteRewrites ==
  ASSUME runs \in Table, NEW rs \in Table, \A q \in RunIds : Kin(runs[q], rs[q]),
         NEW r \in RunIds, NEW row \in JobRun,
         Kin(runs[r], row) \/ Inserted(runs[r], row)
  PROVE  Rewrites([rs EXCEPT ![r] = row])
<1> DEFINE mid == [rs EXCEPT ![r] = row]
<1>1. mid \in Table /\ mid[r] = row /\ \A q \in RunIds \ {r} : mid[q] = rs[q]
  BY DEF Table
<1> HIDE DEF mid
<1>2. \A q \in RunIds : \/ Kin(runs[q], mid[q])
                        \/ q = r /\ Inserted(runs[q], mid[q])
  BY <1>1
<1> QED
  BY <1>1, <1>2 DEF Rewrites, mid

(* The row of an occurrence.                                               *)
LEMMA ScheduledRowOrigin ==
  ASSUME NEW d \in Snapshot, NEW now \in Time
  PROVE  LET row == ScheduledRow(d, now)
         IN  row.sched = d.id /\ row.scheduledFor = d.next /\ row.state = "queued"
BY DEF ScheduledRow, Row

(* Every step rewrites the rows to kin of theirs, but for one insertion.   *)
LEMMA NextRows ==
  ASSUME Typed, [Next]_vars
  PROVE  \E mid : Rewrites(mid) /\ Trims(mid)
<1> USE TypedParts
<1> DEFINE Goal == \E mid : Rewrites(mid) /\ Trims(mid)
<1>a. \A mid : runs' = mid /\ Rewrites(mid) => Goal
  BY DEF Trims
<1>b. \A mid : Rewrites(mid) /\ (\E s : \E kept \in Kept(mid, s) : runs' = Pruned(mid, s, kept))
        => Goal
  BY DEF Trims
<1>c. \A now \in Time : /\ Recovered(runs, now) \in Table
                        /\ \A q \in RunIds : Kin(runs[q], Recovered(runs, now)[q])
  BY RecoveredTable, KinRecovered
<1>d. \A q \in RunIds : Kin(runs[q], runs[q])
  BY DEF Kin
<1>e. \A r \in FreshRuns : r \in RunIds /\ runs[r].state = "none"
  BY DEF FreshRuns
<1>f. \A r \in RunIds, row \in JobRun : Kin(runs[r], row) /\ Finished(r, row) => Goal
  BY FinishedRewrites
<1> HIDE DEF Goal
<1>1. ASSUME NEW s \in Schedules, NEW c \in Cycles \ {Poller}, RunScheduleNow(s, c)
      PROVE  Goal
  <2> DEFINE rs  == Recovered(runs, clock)
             row == [Row("queued") EXCEPT !.sched = s, !.trigger = "manual",
                                          !.scheduledFor = clock, !.created = clock]
  <2>1. rs \in Table /\ \A q \in RunIds : Kin(runs[q], rs[q])
    BY <1>c
  <2>2. row \in JobRun
    BY InsertedRow DEF Open, Time
  <2>3. row.state = "queued" /\ row.trigger = "manual"
    BY DEF Row
  <2>4. PICK r \in FreshRuns :
          \E kept \in Kept([rs EXCEPT ![r] = row], s) :
            runs' = Pruned([rs EXCEPT ![r] = row], s, kept)
    BY <1>1 DEF RunScheduleNow
  <2>5. schedules' = schedules
    BY <1>1 DEF RunScheduleNow
  <2> HIDE DEF rs, row
  <2>6. Inserted(runs[r], row)
    BY <1>e, <2>3, <2>5 DEF Inserted
  <2>7. Rewrites([rs EXCEPT ![r] = row])
    BY <1>e, <2>1, <2>2, <2>6, WriteRewrites
  <2> QED
    BY <1>b, <2>4, <2>7
<1>2. ASSUME NEW r \in RunIds, Finished(r, Ended(runs[r], "cancelled")),
             runs[r].state = "queued"
      PROVE  Goal
  <2>1. Ended(runs[r], "cancelled") \in JobRun /\ runs[r] \in JobRun
    BY EndedRow DEF Table, Terminal, Open
  <2>2. Kin(runs[r], Ended(runs[r], "cancelled"))
    BY <1>2, <2>1, KinEnded DEF Terminal
  <2> QED
    BY <1>2, <1>f, <2>1, <2>2
<1>3. ASSUME NEW c \in Cycles, RunDue(c)
      PROVE  Goal
  BY <1>3, <1>a, <1>c DEF RunDue, Rewrites
<1>4. ASSUME NEW c \in Cycles, NEW r \in cycle[c].retry, ClaimRetry(c, r)
      PROVE  Goal
  <2> DEFINE now == cycle[c].now
             rs  == Recovered(runs, now)
  <2>1. now \in Time /\ r \in RunIds
    BY CycleParts
  <2>2. rs \in Table /\ (\A q \in RunIds : Kin(runs[q], rs[q])) /\ rs[r] \in JobRun
    BY <1>c, <2>1 DEF Table
  <2>3. PICK t \in FreshTokens : runs' = [rs EXCEPT ![r] = Leased(rs[r], t, now)]
    BY <1>4, Zenon DEF ClaimRetry
  <2>4. rs[r].state = "queued" /\ rs[r].attempt < MaxAttempts /\ t \in Tokens
    BY <1>4, Zenon DEF ClaimRetry, RetryReady, FreshTokens
  <2> HIDE DEF now, rs
  <2>5. Leased(rs[r], t, now) \in JobRun /\ Kin(rs[r], Leased(rs[r], t, now))
    BY <2>1, <2>2, <2>4, LeasedRow, KinLeased
  <2>6. Kin(runs[r], Leased(rs[r], t, now))
    BY <2>1, <2>2, <2>5 DEF Kin
  <2>7. Rewrites([rs EXCEPT ![r] = Leased(rs[r], t, now)])
    BY <2>1, <2>2, <2>5, <2>6, WriteRewrites
  <2> QED
    BY <1>a, <2>3, <2>7
<1>5. ASSUME NEW c \in Cycles, NEW d \in cycle[c].due, ClaimScheduled(c, d)
      PROVE  Goal
  <2> DEFINE now == cycle[c].now
             rs  == Recovered(runs, now)
             plain == ScheduledRow(d, now)
  <2>1. now \in Time /\ d \in Snapshot
    BY CycleParts
  <2>2. rs \in Table /\ \A q \in RunIds : Kin(runs[q], rs[q])
    BY <1>c, <2>1
  <2>3. PICK r \in FreshRuns, t \in FreshTokens :
          \E kept \in Kept([rs EXCEPT ![r] = Leased(plain, t, now)], d.id) :
            runs' = Pruned([rs EXCEPT ![r] = Leased(plain, t, now)], d.id, kept)
    BY <1>5 DEF ClaimScheduled
  <2>4. Claimable(rs, d, now) /\ schedules' = Advanced(d.id, NextAfterClaim(d, now))
    BY <1>5 DEF ClaimScheduled
  <2>5. Serves(c, d)
    BY <2>4 DEF Serves, Claimable
  <2>6. t \in Tokens
    BY DEF FreshTokens
  <2>7. /\ plain \in JobRun /\ plain.attempt = 0 /\ plain.state = "queued"
        /\ plain.sched = d.id /\ plain.scheduledFor = d.next
    BY <2>1, ScheduledRowType, ScheduledRowOrigin
  <2> HIDE DEF now, rs, plain
  <2> DEFINE row == Leased(plain, t, now)
  <2>8. row \in JobRun /\ row.state = "running" /\ Kin(plain, row)
    BY <2>1, <2>6, <2>7, LeasedRow, KinLeased, PolicyAssumption
  <2> HIDE DEF row
  <2>9. Inserted(runs[r], row)
    BY <1>e, <2>5, <2>7, <2>8 DEF Inserted, Kin
  <2>10. Rewrites([rs EXCEPT ![r] = row])
    BY <1>e, <2>2, <2>8, <2>9, WriteRewrites
  <2> QED
    BY <1>b, <2>3, <2>10 DEF row
<1>6. ASSUME NEW c \in Cycles, NEW d \in cycle[c].due, RecordMisfire(c, d)
      PROVE  Goal
  <2> DEFINE now == cycle[c].now
             row == Skipped(ScheduledRow(d, now))
  <2>1. now \in Time /\ d \in Snapshot
    BY CycleParts
  <2>2. PICK r \in FreshRuns :
          \E kept \in Kept([runs EXCEPT ![r] = row], d.id) :
            runs' = Pruned([runs EXCEPT ![r] = row], d.id, kept)
    BY <1>6 DEF RecordMisfire
  <2>3. Claimable(runs, d, now) /\ schedules' = Advanced(d.id, NextOccurrence(d, now))
    BY <1>6 DEF RecordMisfire
  <2>4. Serves(c, d)
    BY <2>3 DEF Serves, Claimable
  <2>5. /\ row \in JobRun /\ row.state = "skipped"
        /\ row.sched = d.id /\ row.scheduledFor = d.next
    BY <2>1, ScheduledRowType, ScheduledRowOrigin DEF Skipped, JobRun
  <2> HIDE DEF now, row
  <2>6. Inserted(runs[r], row)
    BY <1>e, <2>4, <2>5 DEF Inserted
  <2>7. Rewrites([runs EXCEPT ![r] = row])
    BY <1>d, <1>e, <2>5, <2>6, WriteRewrites
  <2> QED
    BY <1>b, <2>2, <2>7
<1>7. ASSUME NEW t \in Tokens, RenewLease(t)
      PROVE  Goal
  <2> DEFINE until == clock + LeaseDuration
  <2>1. exec[t].run \in RunIds
    BY <1>7, ExecutionUsed DEF RenewLease
  <2>2. runs' = [runs EXCEPT ![exec[t].run].until = until]
    BY <1>7, Zenon DEF RenewLease
  <2>3. until \in Time
    BY WorkerAssumption DEF Time
  <2> HIDE DEF until
  <2>4. runs' \in Table
    BY <2>1, <2>2, <2>3, SMTT(40) DEF Table, JobRun
  <2>5. \A q \in RunIds : Kin(runs[q], runs'[q])
    BY <2>1, <2>2 DEF Table, JobRun, Kin
  <2> QED
    BY <1>a, <2>4, <2>5 DEF Rewrites
<1>8. ASSUME NEW t \in Tokens, CompleteRun(t) \/ FailRun(t) \/ CancelRun(t)
      PROVE  Goal
  <2> DEFINE r == exec[t].run
  <2>1. r \in RunIds /\ runs[r] \in JobRun
    BY <1>8, ExecutionUsed DEF CompleteRun, FailRun, CancelRun, Table
  <2>2. runs[r].state \notin {"none", "pruned"}
    BY <1>8 DEF CompleteRun, FailRun, CancelRun, Holds
  <2>3. PICK row \in JobRun : Kin(runs[r], row) /\ Finished(r, row)
    <3>1. CASE CompleteRun(t)
      BY <2>1, <2>2, <3>1, EndedRow, KinEnded DEF CompleteRun, Terminal, Open
    <3>2. CASE FailRun(t)
      BY <2>1, <2>2, <3>2, FailedRow, KinFailed DEF FailRun
    <3>3. CASE CancelRun(t)
      BY <2>1, <2>2, <3>3, EndedRow, KinEnded DEF CancelRun, Terminal, Open
    <3> QED
      BY <1>8, <3>1, <3>2, <3>3
  <2> QED
    BY <1>f, <2>1, <2>3
<1>9. CASE UNCHANGED runs
  <2>1. Rewrites(runs)
    BY <1>d DEF Rewrites
  <2> QED
    BY <1>9, <1>a, <2>1 DEF Goal
<1>10. CASE WritesRuns
  <2>1. ASSUME NEW c \in Cycles, \E d \in cycle[c].due : ClaimScheduled(c, d) \/ RecordMisfire(c, d)
        PROVE  Goal
    BY <1>5, <1>6, <2>1
  <2>2. ASSUME NEW t \in Tokens,
               RenewLease(t) \/ CompleteRun(t) \/ FailRun(t) \/ CancelRun(t)
        PROVE  Goal
    BY <1>7, <1>8, <2>2
  <2> QED
    BY <1>1, <1>2, <1>3, <1>4, <1>10, <2>1, <2>2 DEF WritesRuns, Goal
<1> QED
  BY <1>9, <1>10, OthersLeaveRuns

-----------------------------------------------------------------------------
(* The schedules.                                                          *)

(* Dividing and multiplying again falls short by less than the divisor.    *)
LEMMA DivNext ==
  ASSUME NEW a \in Nat, NEW b \in Nat \ {0}
  PROVE  (a \div b + 1) * b > a
<1>1. a = (a \div b) * b + (a % b) /\ a % b < b /\ a \div b \in Nat
  BY SMT
<1>2. \A q \in Nat : (q + 1) * b = q * b + b /\ q * b \in Nat
  BY SMT
<1>3. (a \div b + 1) * b = (a \div b) * b + b /\ (a \div b) * b \in Nat
  BY <1>1, <1>2
<1> QED
  BY <1>1, <1>3, SMT

(* The next occurrence of an interval schedule is strictly later, and not  *)
(* before its start.                                                       *)
LEMMA IntervalLater ==
  ASSUME NEW d, d.start \in Time, d.kind = "interval", NEW after \in Time
  PROVE  /\ NextOccurrence(d, after) \in Time
         /\ NextOccurrence(d, after) > after
         /\ NextOccurrence(d, after) >= d.start
<1>1. NextOccurrence(d, after) \in Time
  BY NextOccurrenceTime
<1>2. CASE d.start > after
  BY <1>2 DEF NextOccurrence, Time
<1>3. CASE ~(d.start > after)
  <2> DEFINE a    == after - d.start
             step == (a \div Interval + 1) * Interval
  <2>1. a \in Nat
    BY <1>3 DEF Time
  <2>2. step \in Nat /\ step > a
    BY <2>1, DivNat, DivNext, PolicyAssumption
  <2>3. NextOccurrence(d, after) = d.start + step
    BY <1>3 DEF NextOccurrence
  <2> HIDE DEF step
  <2>4. d.start \in Nat /\ after \in Nat
    BY DEF Time
  <2> QED
    BY <1>1, <2>2, <2>3, <2>4
<1> QED
  BY <1>1, <1>2, <1>3

(* Whose form was saved: an interval schedule starts one interval from now.*)
Entered(s) ==
  schedules'[s].kind = "interval" =>
    /\ schedules'[s].start = clock + Interval
    /\ schedules'[s].status = "active" => schedules'[s].next = schedules'[s].start
    /\ schedules'[s].status = "paused" => schedules'[s].next = NULL

SameRhythm(s) == /\ schedules'[s].kind = schedules[s].kind
                 /\ schedules'[s].start = schedules[s].start
                 /\ schedules[s].status \in {"active", "paused"}

(* A user's write to schedule s.                                           *)
UserSaves(s) ==
  /\ schedules'[s].version = schedules[s].version + 1
  /\ \A u \in Schedules \ {s} : schedules'[u] = schedules[u]
  /\ runs' = runs
  /\ \/ Entered(s) /\ (schedules[s].status = "deleted" /\ EnabledInputs \subseteq {"unset"}
                         => schedules'[s].status = "deleted")
     \/ /\ SameRhythm(s)
        /\ schedules'[s].status = "paused" /\ schedules'[s].next = schedules[s].next
     \/ /\ SameRhythm(s)
        /\ schedules'[s].status = "active"
        /\ schedules'[s].next = IF schedules[s].next = NULL
                                THEN InitialOccurrence(schedules[s], clock)
                                ELSE schedules[s].next
     \/ schedules'[s].status = "deleted"

(* What a form enters.                                                     *)
LEMMA FormEntered ==
  ASSUME clock \in Time \ {NULL}, NEW kind, NEW policy, NEW at, NEW status
  PROVE  LET new == Rescheduled(FromInput(kind, policy, at, status))
         IN  /\ new.status = status /\ new.kind = kind
             /\ kind = "interval" =>
                  /\ new.start = clock + Interval
                  /\ status = "active" => new.next = new.start
                  /\ status = "paused" => new.next = NULL
<1> DEFINE sched == FromInput(kind, policy, at, status)
           next  == IF sched.status = "active" THEN InitialOccurrence(sched, clock)
                                               ELSE NULL
           new   == [sched EXCEPT !.next = next]
<1>1. /\ sched.status = status /\ sched.kind = kind
      /\ kind = "interval" => sched.start = clock + Interval
  BY DEF FromInput
<1>2. Rescheduled(sched) = new
  BY DEF Rescheduled
<1>3. kind = "interval" => InitialOccurrence(sched, clock) = clock + Interval
  BY <1>1, PolicyAssumption DEF InitialOccurrence, NextOccurrence, Time, NULL
<1>4. /\ new.status = sched.status /\ new.kind = sched.kind /\ new.start = sched.start
      /\ new.next = next
  BY DEF FromInput
<1> HIDE DEF sched, new
<1> QED
  BY <1>1, <1>2, <1>3, <1>4 DEF sched

(* What saving a schedule writes.                                          *)
LEMMA SavedRow ==
  ASSUME schedules \in [Schedules -> Schedule], NEW s \in Schedules,
         NEW sched \in Schedule, Saved(s, sched)
  PROVE  /\ schedules'[s].version = schedules[s].version + 1
         /\ schedules'[s].status = sched.status /\ schedules'[s].next = sched.next
         /\ schedules'[s].kind = sched.kind /\ schedules'[s].start = sched.start
         /\ \A u \in Schedules \ {s} : schedules'[u] = schedules[u]
         /\ runs' = runs
<1> DEFINE new == [sched EXCEPT !.version = schedules[s].version + 1]
<1>1. schedules' = [schedules EXCEPT ![s] = new] /\ runs' = runs
  BY DEF Saved
<1>2. /\ new.version = schedules[s].version + 1
      /\ new.status = sched.status /\ new.next = sched.next
      /\ new.kind = sched.kind /\ new.start = sched.start
  BY DEF Schedule
<1> HIDE DEF new
<1> QED
  BY <1>1, <1>2

(* Every write of the schedules is a user's or a claim's.                  *)
LEMMA NextSchedules ==
  ASSUME Typed, [Next]_vars
  PROVE  \/ schedules' = schedules
         \/ \E s \in Schedules : UserSaves(s)
         \/ \E c \in Cycles : \E d \in cycle[c].due : Serves(c, d)
<1> USE TypedParts
<1>1. ASSUME NEW s \in Schedules, NEW kind \in Kinds, NEW policy \in Policies,
             NEW at \in RunAtTimes, CreateSchedule(s, kind, policy, at)
      PROVE  UserSaves(s)
  <2> DEFINE new == Rescheduled(FromInput(kind, policy, at, "active"))
  <2>1. new \in Schedule /\ Saved(s, new) /\ schedules[s].status = "absent"
    BY <1>1, InputType DEF CreateSchedule
  <2>2. /\ new.status = "active" /\ new.kind = kind
        /\ kind = "interval" =>
             /\ new.start = clock + Interval
             /\ new.next = new.start
    BY FormEntered
  <2> HIDE DEF new
  <2> QED
    BY <2>1, <2>2, SavedRow DEF UserSaves, Entered
<1>2. ASSUME NEW s \in Schedules, NEW kind \in Kinds, NEW policy \in Policies,
             NEW at \in RunAtTimes, NEW enabled \in EnabledInputs,
             UpdateSchedule(s, kind, policy, at, enabled)
      PROVE  UserSaves(s)
  <2> DEFINE status == StatusFor(schedules[s].status, enabled)
             new    == Rescheduled(FromInput(kind, policy, at, status))
  <2>1. schedules[s].status \in {"absent", "active", "paused", "completed", "deleted"}
    BY DEF Schedule
  <2>2. status \in {"absent", "active", "paused", "completed", "deleted"}
    BY <2>1, InputAssumption DEF StatusFor
  <2>3. schedules[s].status = "deleted" /\ EnabledInputs \subseteq {"unset"}
          => status = "deleted"
    BY DEF StatusFor
  <2> HIDE DEF status
  <2>4. new \in Schedule
    BY <2>2, InputType
  <2>5. Saved(s, new)
    BY <1>2 DEF UpdateSchedule, status
  <2>6. /\ new.status = status /\ new.kind = kind
        /\ kind = "interval" =>
             /\ new.start = clock + Interval
             /\ status = "active" => new.next = new.start
             /\ status = "paused" => new.next = NULL
    BY FormEntered
  <2> HIDE DEF new
  <2> QED
    BY <2>3, <2>4, <2>5, <2>6, SavedRow DEF UserSaves, Entered
<1>3. ASSUME NEW s \in Schedules, Pause(s) \/ Resume(s) \/ Delete(s)
      PROVE  UserSaves(s)
  <2> DEFINE old == schedules[s]
  <2>1. old \in Schedule
    OBVIOUS
  <2>2. CASE Pause(s)
    <3> DEFINE new == [old EXCEPT !.status = "paused"]
    <3>1. Saved(s, new) /\ old.status \in {"active", "paused"}
      BY <2>2 DEF Pause
    <3> HIDE DEF old
    <3>2. /\ new \in Schedule /\ new.status = "paused" /\ new.next = old.next
          /\ new.kind = old.kind /\ new.start = old.start
      BY <2>1 DEF Schedule
    <3> HIDE DEF new
    <3> QED
      BY <3>1, <3>2, SavedRow DEF UserSaves, SameRhythm, old
  <2>3. CASE Resume(s)
    <3> DEFINE next == IF old.next = NULL THEN InitialOccurrence(old, clock) ELSE old.next
               new  == [old EXCEPT !.status = "active", !.next = next]
    <3>1. Saved(s, new) /\ old.status \in {"active", "paused"}
      BY <2>3 DEF Resume
    <3>2. next \in Time
      BY <2>1, InitialOccurrenceTime DEF Schedule
    <3> HIDE DEF old, next
    <3>3. /\ new \in Schedule /\ new.status = "active" /\ new.next = next
          /\ new.kind = old.kind /\ new.start = old.start
      BY <2>1, <3>2 DEF Schedule
    <3> HIDE DEF new
    <3> QED
      BY <3>1, <3>3, SavedRow DEF UserSaves, SameRhythm, old, next
  <2>4. CASE Delete(s)
    <3> DEFINE new == [old EXCEPT !.status = "deleted", !.next = NULL]
    <3>1. Saved(s, new)
      BY <2>4 DEF Delete
    <3> HIDE DEF old
    <3>2. new \in Schedule /\ new.status = "deleted"
      BY <2>1 DEF Schedule, Time, NULL
    <3> HIDE DEF new
    <3> QED
      BY <3>1, <3>2, SavedRow DEF UserSaves
  <2> QED
    BY <1>3, <2>2, <2>3, <2>4
<1>4. CASE UserStep
  BY <1>1, <1>2, <1>3, <1>4 DEF UserStep, RunScheduleNow, CancelJobRun
<1>5. ASSUME NEW c \in Cycles, NEW d \in cycle[c].due, ClaimScheduled(c, d) \/ RecordMisfire(c, d)
      PROVE  Serves(c, d)
  BY <1>5 DEF ClaimScheduled, RecordMisfire, Claimable, Serves
<1>6. ASSUME NEW c \in Cycles, CycleStep(c) \/ AbortCycle(c) \/ StopCycle(c)
      PROVE  schedules' = schedules \/ \E d \in cycle[c].due : Serves(c, d)
  BY <1>5, <1>6 DEF CycleStep, AbortCycle, StopCycle, RunDue, ListRetryableRuns,
                    ListDueSchedules, ClaimsDone, Join, ClaimRetry, RetryConflict, DueConflict
<1>7. ASSUME NEW t \in Tokens, ExecStep(t)
      PROVE  schedules' = schedules
  BY <1>7 DEF ExecStep, Outcome, Register, RenewLease, RenewFails, Deadline, Return,
              CompleteRun, FailRun, CancelRun, OutcomeLost, Leave
<1> QED
  BY <1>4, <1>6, <1>7 DEF Next, Tick, Crash, vars

(* A cycle's snapshots are those it had, or some it takes now.             *)
LEMMA NextDue ==
  ASSUME Typed, [Next]_vars, NEW c \in Cycles
  PROVE  \/ cycle'[c].due \subseteq cycle[c].due
         \/ /\ schedules' = schedules
            /\ \A d \in cycle'[c].due : \E s \in Schedules : d = SnapshotOf(s)
<1> USE TypedParts
<1> DEFINE Goal == \/ cycle'[c].due \subseteq cycle[c].due
                   \/ /\ schedules' = schedules
                      /\ \A d \in cycle'[c].due : \E s \in Schedules : d = SnapshotOf(s)
<1>a. ASSUME NEW b \in Cycles, NEW new, cycle' = [cycle EXCEPT ![b] = new],
             new.due \subseteq cycle[b].due
      PROVE  Goal
  BY <1>a
<1>b. ASSUME NEW b \in Cycles, NEW pc, cycle' = [cycle EXCEPT ![b] = CycleAt(pc)]
      PROVE  Goal
  BY <1>a, <1>b DEF CycleAt
<1>c. ASSUME NEW b \in Cycles, NEW live,
             cycle' = [cycle EXCEPT ![b] = [CycleAt("join") EXCEPT !.live = live]]
      PROVE  Goal
  <2>1. [CycleAt("join") EXCEPT !.live = live].due = {}
    BY DEF CycleAt
  <2> QED
    BY <1>a, <1>c, <2>1
<1>d. UNCHANGED cycle => Goal
  BY SMTT(40)
<1> HIDE DEF Goal
<1>1. CASE UserStep
  BY <1>1, <1>b, <1>d
     DEF UserStep, CreateSchedule, UpdateSchedule, Pause, Resume, Delete, Saved,
         RunScheduleNow, CancelJobRun, Goal
<1>2. ASSUME NEW b \in Cycles, CycleStep(b) \/ AbortCycle(b) \/ StopCycle(b)
      PROVE  Goal
  <2>0. cycle[b] \in Cycle
    OBVIOUS
  <2>1. CASE RunDue(b)
    <3>1. cycle' = [cycle EXCEPT ![b] = [CycleAt("list") EXCEPT !.now = clock]]
      BY <2>1, Zenon DEF RunDue
    <3>2. [CycleAt("list") EXCEPT !.now = clock].due = {}
      BY DEF CycleAt
    <3> QED
      BY <1>a, <3>1, <3>2
  <2>2. CASE AbortCycle(b) \/ StopCycle(b) \/ ClaimsDone(b) \/ Join(b)
    BY <1>b, <1>c, <2>2, Zenon DEF AbortCycle, StopCycle, ClaimsDone, Join
  <2>3. CASE ListRetryableRuns(b)
    <3>1. PICK batch : cycle' = [cycle EXCEPT ![b].pc = "retry", ![b].retry = batch,
                                              ![b].left = MaxClaims]
      BY <2>3 DEF ListRetryableRuns
    <3> DEFINE new == [cycle[b] EXCEPT !.pc = "retry", !.retry = batch, !.left = MaxClaims]
    <3>2. cycle' = [cycle EXCEPT ![b] = new]
      BY <3>1
    <3>3. new.due = cycle[b].due
      BY <2>0 DEF Cycle
    <3> HIDE DEF new
    <3> QED
      BY <1>a, <3>2, <3>3
  <2>4. CASE ListDueSchedules(b)
    <3>1. PICK batch \in Firsts(Due(cycle[b].now), cycle[b].left, LAMBDA s : schedules[s].next) :
            cycle' = [cycle EXCEPT ![b].pc = "due", ![b].due = {SnapshotOf(s) : s \in batch}]
      BY <2>4 DEF ListDueSchedules
    <3>2. batch \subseteq Schedules
      BY DEF Firsts, Due
    <3> DEFINE due == {SnapshotOf(s) : s \in batch}
    <3>3. \A d \in due : \E s \in Schedules : d = SnapshotOf(s)
      BY <3>2
    <3> HIDE DEF due
    <3> DEFINE new == [cycle[b] EXCEPT !.pc = "due", !.due = due]
    <3>4. cycle' = [cycle EXCEPT ![b] = new]
      BY <3>1 DEF due
    <3>5. new.due = due
      BY <2>0 DEF Cycle
    <3>6. schedules' = schedules
      BY <2>4 DEF ListDueSchedules
    <3> HIDE DEF new
    <3> QED
      BY <3>3, <3>4, <3>5, <3>6 DEF Goal
  <2>5. ASSUME NEW r \in cycle[b].retry, ClaimRetry(b, r) \/ RetryConflict(b, r)
        PROVE  Goal
    <3>1. PICK left : \/ cycle' = [cycle EXCEPT ![b].retry = @ \ {r}, ![b].left = left]
                      \/ cycle' = [cycle EXCEPT ![b].retry = @ \ {r}]
      BY <2>5 DEF ClaimRetry, RetryConflict
    <3> DEFINE new == [cycle[b] EXCEPT !.retry = @ \ {r}, !.left = left]
               odd == [cycle[b] EXCEPT !.retry = @ \ {r}]
    <3>2. cycle' = [cycle EXCEPT ![b] = new] \/ cycle' = [cycle EXCEPT ![b] = odd]
      BY <3>1
    <3>3. new.due = cycle[b].due /\ odd.due = cycle[b].due
      BY <2>0 DEF Cycle
    <3> HIDE DEF new, odd
    <3> QED
      BY <1>a, <3>2, <3>3
  <2>6. ASSUME NEW d \in cycle[b].due,
               ClaimScheduled(b, d) \/ RecordMisfire(b, d) \/ DueConflict(b, d)
        PROVE  Goal
    <3> DEFINE due == cycle[b].due \ {d}
    <3>1. PICK left : \/ cycle' = [cycle EXCEPT ![b].due = due, ![b].left = left]
                      \/ cycle' = [cycle EXCEPT ![b].due = due]
      BY <2>6 DEF ClaimScheduled, RecordMisfire, DueConflict
    <3>2. due \subseteq cycle[b].due
      OBVIOUS
    <3> HIDE DEF due
    <3> DEFINE new == [cycle[b] EXCEPT !.due = due, !.left = left]
               odd == [cycle[b] EXCEPT !.due = due]
    <3>3. cycle' = [cycle EXCEPT ![b] = new] \/ cycle' = [cycle EXCEPT ![b] = odd]
      BY <3>1
    <3>4. new.due = due /\ odd.due = due
      BY <2>0 DEF Cycle
    <3> HIDE DEF new, odd
    <3> QED
      BY <1>a, <3>2, <3>3, <3>4
  <2> QED
    BY <1>2, <2>1, <2>2, <2>3, <2>4, <2>5, <2>6, Zenon DEF CycleStep
<1>3. ASSUME NEW t \in Tokens, ExecStep(t)
      PROVE  Goal
  BY <1>3, <1>d DEF ExecStep, Outcome, Register, RenewLease, RenewFails, Deadline, Return,
                    CompleteRun, FailRun, CancelRun, OutcomeLost, Leave
<1>4. CASE Crash
  BY <1>4 DEF Crash, CycleAt
<1> QED
  BY <1>1, <1>2, <1>3, <1>4, <1>d DEF Next, Tick, vars, Goal

(* What a cycle listed is true of the schedule as long as its version is   *)
(* the one the cycle saw.                                                  *)
SnapshotsTrue ==
  \A c \in Cycles : \A d \in cycle[c].due :
    /\ d.version <= schedules[d.id].version
    /\ d.version = schedules[d.id].version =>
         d.kind = schedules[d.id].kind /\ d.start = schedules[d.id].start

(* Advancing a schedule moves its next occurrence and nothing else a       *)
(* snapshot is compared by.                                                *)
LEMMA ServesRow ==
  ASSUME Typed, NEW c \in Cycles, NEW d \in cycle[c].due, Serves(c, d)
  PROVE  /\ d.id \in Schedules
         /\ schedules'[d.id].version = schedules[d.id].version + 1
         /\ schedules'[d.id].kind = schedules[d.id].kind
         /\ schedules'[d.id].start = schedules[d.id].start
         /\ schedules'[d.id].next \in {NextAfterClaim(d, cycle[c].now), NextOccurrence(d, cycle[c].now)}
         /\ schedules'[d.id].status = IF schedules'[d.id].next = NULL THEN "completed" ELSE "active"
         /\ \A u \in Schedules \ {d.id} : schedules'[u] = schedules[u]
<1> USE TypedParts
<1>1. d \in Snapshot
  BY CycleParts
<1>2. d.id \in Schedules
  BY <1>1 DEF Snapshot
<1> DEFINE old == schedules[d.id]
<1>3. old \in Schedule /\ old.status = "active"
  BY <1>2 DEF Serves
<1>4. PICK next \in {NextAfterClaim(d, cycle[c].now), NextOccurrence(d, cycle[c].now)} :
        schedules' = Advanced(d.id, next)
  BY DEF Serves
<1> DEFINE status  == IF next = NULL THEN "completed" ELSE old.status
           version == old.version + 1
           new     == [old EXCEPT !.status = status, !.next = next, !.version = version]
<1>5. schedules' = [schedules EXCEPT ![d.id] = new]
  BY <1>4 DEF Advanced
<1> HIDE DEF status, version
<1>6. /\ new.version = version /\ new.kind = old.kind /\ new.start = old.start
      /\ new.next = next /\ new.status = status
  BY <1>3 DEF Schedule
<1> HIDE DEF new
<1>7. schedules'[d.id] = new /\ \A u \in Schedules \ {d.id} : schedules'[u] = schedules[u]
  BY <1>2, <1>5
<1> QED
  BY <1>2, <1>3, <1>4, <1>6, <1>7 DEF status, version

(* Serving an occurrence of an interval schedule moves it beyond that      *)
(* occurrence.                                                             *)
LEMMA ServesAhead ==
  ASSUME Typed, SnapshotsTrue, NEW c \in Cycles, NEW d \in cycle[c].due, Serves(c, d),
         schedules[d.id].kind = "interval"
  PROVE  /\ schedules'[d.id].next > d.next
         /\ schedules'[d.id].next \in Time \ {NULL}
         /\ schedules'[d.id].status = "active"
<1> USE TypedParts
<1>1. d \in Snapshot /\ cycle[c].now \in Time
  BY CycleParts
<1>2. d.kind = "interval" /\ d.start \in Time /\ d.next \in Time
  BY <1>1 DEF SnapshotsTrue, Serves, Snapshot
<1>3. /\ NextOccurrence(d, d.next) \in Time /\ NextOccurrence(d, d.next) > d.next
      /\ NextOccurrence(d, cycle[c].now) \in Time
      /\ NextOccurrence(d, cycle[c].now) > cycle[c].now
  BY <1>1, <1>2, IntervalLater
<1>4. d.next <= cycle[c].now
  BY <1>1, <1>2 DEF Serves, Time
<1>5. NextAfterClaim(d, cycle[c].now)
        \in {NextOccurrence(d, d.next), NextOccurrence(d, cycle[c].now)}
  BY DEF NextAfterClaim
<1>6. \A n \in {NextAfterClaim(d, cycle[c].now), NextOccurrence(d, cycle[c].now)} :
        n > d.next /\ n \in Time \ {NULL}
  BY <1>1, <1>2, <1>3, <1>4, <1>5 DEF Time, NULL
<1> QED
  BY <1>6, ServesRow

(* A write raises the version, so what cycles listed before is told apart. *)
LEMMA NextSnapshots ==
  ASSUME Typed, SnapshotsTrue, [Next]_vars
  PROVE  SnapshotsTrue'
<1> USE TypedParts
<1> DEFINE Same(d, row) == /\ d.version <= row.version
                           /\ d.version = row.version => d.kind = row.kind /\ d.start = row.start
<1>1. ASSUME NEW s \in Schedules
      PROVE  Same(SnapshotOf(s), schedules[s]) /\ SnapshotOf(s).id = s
  BY DEF SnapshotOf, Schedule
<1>2. ASSUME NEW s \in Schedules
      PROVE  \/ schedules'[s] = schedules[s]
             \/ schedules'[s].version = schedules[s].version + 1
  <2>1. CASE schedules' = schedules
    BY <2>1
  <2>2. ASSUME NEW u \in Schedules, UserSaves(u)
        PROVE  \/ schedules'[s] = schedules[s]
               \/ schedules'[s].version = schedules[s].version + 1
    BY <2>2 DEF UserSaves
  <2>3. ASSUME NEW c \in Cycles, NEW d \in cycle[c].due, Serves(c, d)
        PROVE  \/ schedules'[s] = schedules[s]
               \/ schedules'[s].version = schedules[s].version + 1
    BY <2>3, ServesRow
  <2> QED
    BY <2>1, <2>2, <2>3, NextSchedules
<1>3. SUFFICES ASSUME NEW c \in Cycles, NEW d \in cycle'[c].due
               PROVE  Same(d, schedules'[d.id])
  BY DEF SnapshotsTrue
<1>4. CASE cycle'[c].due \subseteq cycle[c].due
  <2>1. d \in Snapshot /\ d \in cycle[c].due
    BY <1>4, CycleParts
  <2>2. d.id \in Schedules /\ d.version \in Nat /\ schedules[d.id].version \in Nat
    BY <2>1 DEF Snapshot, Schedule
  <2>3. Same(d, schedules[d.id])
    BY <2>1 DEF SnapshotsTrue
  <2> QED
    BY <1>2, <2>2, <2>3
<1>5. CASE schedules' = schedules /\ \A e \in cycle'[c].due : \E s \in Schedules : e = SnapshotOf(s)
  BY <1>1, <1>5
<1> QED
  BY <1>4, <1>5, NextDue

-----------------------------------------------------------------------------
(* Occurrences, served once.                                               *)

Occurs(row, s) == row.sched = s /\ row.trigger = "scheduled"

(* The rows of occurrences after a step are those before, and the one that *)
(* the step serves.                                                        *)
LEMMA RowsAfter ==
  ASSUME Typed, [Next]_vars, NEW q \in RunIds, NEW s \in Schedules, Occurs(runs'[q], s)
  PROVE  \/ Occurs(runs[q], s) /\ runs'[q].scheduledFor = runs[q].scheduledFor
         \/ \E c \in Cycles : \E d \in cycle[c].due :
              Serves(c, d) /\ d.id = s /\ runs'[q].scheduledFor = d.next
<1>1. PICK mid : Rewrites(mid) /\ Trims(mid)
  BY NextRows
<1>2. Row("pruned").sched # s
  BY SetsAssumption DEF Row
<1>3. runs'[q] = mid[q] \/ runs'[q] = Row("pruned")
  BY <1>1 DEF Trims, Pruned
<1>4. runs'[q] = mid[q]
  BY <1>2, <1>3 DEF Occurs
<1>5. Kin(runs[q], mid[q]) \/ Inserted(runs[q], mid[q])
  BY <1>1 DEF Rewrites
<1> QED
  BY <1>4, <1>5 DEF Kin, Inserted, Occurs

(* The clock does not run back.                                            *)
LEMMA NextClock ==
  ASSUME [Next]_vars
  PROVE  clock' \in {clock, clock + 1}
<1>1. CASE UserStep
  BY <1>1, ZenonT(60) DEF UserStep, CreateSchedule, UpdateSchedule, Pause, Resume, Delete, Saved,
     RunScheduleNow, CancelJobRun
<1>2. ASSUME NEW c \in Cycles, CycleStep(c) \/ AbortCycle(c) \/ StopCycle(c)
      PROVE  clock' = clock
  BY <1>2 DEF CycleStep, AbortCycle, StopCycle, RunDue, ListRetryableRuns, ListDueSchedules,
              ClaimsDone, Join, ClaimRetry, RetryConflict, ClaimScheduled, RecordMisfire,
              DueConflict
<1>3. ASSUME NEW t \in Tokens, ExecStep(t)
      PROVE  clock' = clock
  BY <1>3 DEF ExecStep, Outcome, Register, RenewLease, RenewFails, Deadline, Return,
              CompleteRun, FailRun, CancelRun, OutcomeLost, Leave
<1> QED
  BY <1>1, <1>2, <1>3, SMTT(40) DEF Next, Tick, Crash, vars

(* No occurrence is served before its time.                                *)
OccurrencesPast ==
  \A s \in Schedules : \A r \in RunIds :
    Occurs(runs[r], s) => runs[r].scheduledFor <= clock

(* An occurrence is served by a clock reading that is past.                *)
LEMMA NextPast ==
  ASSUME Typed, CyclesBehind, OccurrencesPast, [Next]_vars
  PROVE  OccurrencesPast'
<1> USE TypedParts
<1> SUFFICES ASSUME NEW s \in Schedules, NEW r \in RunIds, Occurs(runs'[r], s)
             PROVE  runs'[r].scheduledFor <= clock'
  BY DEF OccurrencesPast, Occurs
<1>1. clock \in Nat /\ clock' \in {clock, clock + 1}
  BY NextClock DEF Time
<1>2. CASE Occurs(runs[r], s) /\ runs'[r].scheduledFor = runs[r].scheduledFor
  <2>1. runs[r].scheduledFor \in Nat /\ runs[r].scheduledFor <= clock
    BY <1>2 DEF OccurrencesPast, Table, JobRun, Time
  <2> QED
    BY <1>1, <1>2, <2>1
<1>3. ASSUME NEW c \in Cycles, NEW d \in cycle[c].due, Serves(c, d),
             runs'[r].scheduledFor = d.next
      PROVE  runs'[r].scheduledFor <= clock'
  <2>1. cycle[c].now \in Nat /\ cycle[c].now <= clock
    BY CycleParts DEF CyclesBehind, Time
  <2>2. d.next \in 1..cycle[c].now
    BY <1>3 DEF Serves
  <2> QED
    BY <1>1, <1>3, <2>1, <2>2
<1> QED
  BY <1>2, <1>3, RowsAfter

(* Where an interval schedule goes on: at its next occurrence, or at its   *)
(* start when saving the form of a paused schedule has cleared that.       *)
Horizon(sched) == IF sched.next = NULL THEN sched.start ELSE sched.next

Running(sched) == sched.kind = "interval" /\ sched.status \in {"active", "paused"}

(* It lies ahead of every occurrence that was served.                      *)
IntervalsAhead ==
  \A s \in Schedules : Running(schedules[s]) =>
    /\ schedules[s].status = "active" => schedules[s].next # NULL
    /\ \A r \in RunIds : Occurs(runs[r], s) => runs[r].scheduledFor < Horizon(schedules[s])

(* A user's edit leaves the horizon, resumes at it, or begins anew one     *)
(* interval from now.                                                      *)
LEMMA UserAhead ==
  ASSUME Typed, Typed', IntervalsAhead, OccurrencesPast, NEW s \in Schedules, UserSaves(s),
         Running(schedules'[s])
  PROVE  /\ schedules'[s].status = "active" => schedules'[s].next # NULL
         /\ \A r \in RunIds : Occurs(runs[r], s) => runs[r].scheduledFor < Horizon(schedules'[s])
<1> USE TypedParts
<1> DEFINE old == schedules[s]
           new == schedules'[s]
<1>1. /\ clock \in Nat \ {0} /\ old \in Schedule
      /\ old.start \in Nat /\ old.next \in Nat
      /\ \A r \in RunIds : runs[r].scheduledFor \in Nat
  BY DEF Schedule, Table, JobRun, Time, NULL
<1>2. Interval \in Nat \ {0}
  BY PolicyAssumption
<1>3. \A r \in RunIds : Occurs(runs[r], s) => runs[r].scheduledFor <= clock
  BY DEF OccurrencesPast
<1>4. Running(old) => \A r \in RunIds : Occurs(runs[r], s) => runs[r].scheduledFor < Horizon(old)
  BY DEF IntervalsAhead
<1>5. new.kind = "interval" /\ new.status \in {"active", "paused"}
  BY DEF Running
<1>6. CASE Entered(s)
  <2>1. new.start = clock + Interval /\ new.next \in {new.start, NULL}
    BY <1>5, <1>6 DEF Entered
  <2>2. Horizon(new) = clock + Interval
    BY <2>1 DEF Horizon
  <2>3. new.status = "active" => new.next = clock + Interval
    BY <1>6, <2>1 DEF Entered, Running
  <2> HIDE DEF new
  <2>4. \A r \in RunIds : Occurs(runs[r], s) => runs[r].scheduledFor < Horizon(new)
    BY <1>1, <1>2, <1>3, <2>2
  <2>5. clock + Interval # NULL
    BY <1>1, <1>2 DEF NULL
  <2> QED
    BY <2>3, <2>4, <2>5 DEF new
<1>7. CASE /\ SameRhythm(s)
           /\ new.status = "paused" /\ new.next = old.next
  <2>1. Horizon(new) = Horizon(old) /\ Running(old)
    BY <1>5, <1>7 DEF Horizon, SameRhythm, Running
  <2> QED
    BY <1>4, <1>7, <2>1
<1>8. CASE /\ SameRhythm(s)
           /\ new.status = "active"
           /\ new.next = IF old.next = NULL THEN InitialOccurrence(old, clock) ELSE old.next
  <2>1. Running(old) /\ old.kind = "interval"
    BY <1>5, <1>8 DEF SameRhythm, Running
  <2>2. CASE old.next = NULL
    <3>1. InitialOccurrence(old, clock) = NextOccurrence(old, clock - 1)
      BY <2>1 DEF InitialOccurrence
    <3>2. clock - 1 \in Time /\ old.start \in Time
      BY <1>1 DEF Time
    <3>3. /\ InitialOccurrence(old, clock) \in Nat
          /\ InitialOccurrence(old, clock) > clock - 1
          /\ InitialOccurrence(old, clock) >= old.start
      BY <2>1, <3>1, <3>2, IntervalLater DEF Time
    <3>4. new.next = InitialOccurrence(old, clock)
      BY <1>8, <2>2
    <3> HIDE DEF new
    <3>5. new.next # NULL /\ Horizon(new) = new.next /\ Horizon(new) >= Horizon(old)
          /\ Horizon(new) \in Nat /\ Horizon(old) \in Nat
      BY <1>1, <2>2, <3>3, <3>4 DEF Horizon, NULL
    <3> HIDE DEF old
    <3>6. \A r \in RunIds : Occurs(runs[r], s) => runs[r].scheduledFor < Horizon(new)
      BY <1>1, <1>4, <2>1, <3>5
    <3> QED
      BY <3>5, <3>6 DEF new
  <2>3. CASE old.next # NULL
    <3>1. new.next # NULL /\ Horizon(new) = Horizon(old)
      BY <1>8, <2>3 DEF Horizon
    <3> QED
      BY <1>4, <2>1, <3>1
  <2> QED
    BY <2>2, <2>3
<1>9. new.status # "deleted"
  BY <1>5
<1> QED
  BY <1>6, <1>7, <1>8, <1>9 DEF UserSaves

(* Every step keeps the schedules ahead of their occurrences.              *)
LEMMA NextAhead ==
  ASSUME Typed, SnapshotsTrue, OccurrencesPast, IntervalsAhead, [Next]_vars
  PROVE  IntervalsAhead'
<1> USE TypedParts
<1>0. Typed'
  BY NextTyped
<1> DEFINE Ahead(s) ==
      Running(schedules'[s]) =>
        /\ schedules'[s].status = "active" => schedules'[s].next # NULL
        /\ \A r \in RunIds :
             Occurs(runs'[r], s) => runs'[r].scheduledFor < Horizon(schedules'[s])
<1> SUFFICES ASSUME NEW s \in Schedules
             PROVE  Ahead(s)
  BY DEF IntervalsAhead, Running, Occurs, Horizon
<1>1. \A r \in RunIds : runs[r].scheduledFor \in Nat
  BY DEF Table, JobRun, Time
<1>2. ASSUME NEW r \in RunIds, NEW c \in Cycles, NEW d \in cycle[c].due, Serves(c, d),
             d.id = s, Running(schedules'[s])
      PROVE  /\ schedules[s].kind = "interval"
             /\ schedules[s].next = d.next
             /\ schedules'[s].next > d.next
             /\ schedules'[s].next \in Nat
             /\ schedules'[s].next # NULL
  <2>1. schedules[s].kind = "interval"
    BY <1>2, ServesRow DEF Running
  <2> QED
    BY <1>2, <2>1, ServesAhead DEF Serves, Time
<1>3. ASSUME \A r \in RunIds : Occurs(runs'[r], s) =>
               Occurs(runs[r], s) /\ runs'[r].scheduledFor = runs[r].scheduledFor,
             schedules'[s] = schedules[s]
      PROVE  Ahead(s)
  BY <1>3 DEF IntervalsAhead
<1>4. CASE schedules' = schedules
  <2>1. ASSUME NEW c \in Cycles, NEW d \in cycle[c].due, Serves(c, d)
        PROVE  FALSE
    <3>1. d.id \in Schedules /\ schedules'[d.id].version = schedules[d.id].version + 1
      BY <2>1, ServesRow
    <3>2. schedules[d.id].version \in Nat
      BY <3>1 DEF Schedule
    <3> QED
      BY <1>4, <3>1, <3>2
  <2>2. \A r \in RunIds : Occurs(runs'[r], s) =>
           Occurs(runs[r], s) /\ runs'[r].scheduledFor = runs[r].scheduledFor
    BY <2>1, RowsAfter
  <2> QED
    BY <1>3, <1>4, <2>2
<1>5. ASSUME NEW u \in Schedules, UserSaves(u)
      PROVE  Ahead(s)
  <2>1. runs' = runs
    BY <1>5 DEF UserSaves
  <2>2. CASE u = s
    BY <1>0, <1>5, <2>1, <2>2, UserAhead
  <2>3. CASE u # s
    <3>1. schedules'[s] = schedules[s]
      BY <1>5, <2>3 DEF UserSaves
    <3> QED
      BY <1>3, <2>1, <3>1
  <2> QED
    BY <2>2, <2>3
<1>6. ASSUME NEW c \in Cycles, NEW d \in cycle[c].due, Serves(c, d)
      PROVE  Ahead(s)
  <2>1. CASE d.id = s
    <3> SUFFICES ASSUME Running(schedules'[s])
                 PROVE  /\ schedules'[s].next # NULL
                        /\ \A r \in RunIds : Occurs(runs'[r], s) =>
                             runs'[r].scheduledFor < Horizon(schedules'[s])
      OBVIOUS
    <3>1. ASSUME NEW r \in RunIds, Occurs(runs'[r], s)
          PROVE  runs'[r].scheduledFor < schedules'[s].next
      <4>1. CASE Occurs(runs[r], s) /\ runs'[r].scheduledFor = runs[r].scheduledFor
        <5>1. /\ schedules[s].kind = "interval" /\ schedules[s].next = d.next
              /\ schedules'[s].next > d.next /\ schedules'[s].next \in Nat
          BY <1>2, <1>6, <2>1
        <5>2. schedules[s].status = "active" /\ d.next \in Nat /\ d.next # NULL
          BY <1>6, <2>1, <5>1 DEF Serves, Schedule, NULL, Time
        <5>3. runs[r].scheduledFor < d.next
          BY <4>1, <5>1, <5>2 DEF IntervalsAhead, Running, Horizon
        <5> QED
          BY <1>1, <4>1, <5>1, <5>2, <5>3
      <4>2. ASSUME NEW b \in Cycles, NEW e \in cycle[b].due, Serves(b, e), e.id = s,
                   runs'[r].scheduledFor = e.next
            PROVE  runs'[r].scheduledFor < schedules'[s].next
        <5>1. schedules'[s].next > e.next /\ schedules'[s].next \in Nat
          BY <1>2, <4>2
        <5>2. e.next \in Nat
          BY <4>2 DEF Serves, Schedule, Time
        <5> QED
          BY <4>2, <5>1, <5>2
      <4> QED
        BY <3>1, <4>1, <4>2, RowsAfter
    <3>2. schedules'[s].next # NULL
      <4>1. schedules[d.id].kind = "interval"
        BY <1>6, <2>1, ServesRow DEF Running
      <4> QED
        BY <1>6, <2>1, <4>1, ServesAhead
    <3> QED
      BY <3>1, <3>2 DEF Horizon
  <2>2. CASE d.id # s
    <3>1. schedules'[s] = schedules[s]
      BY <1>6, <2>2, ServesRow
    <3>2. ASSUME NEW b \in Cycles, NEW e \in cycle[b].due, Serves(b, e), e.id = s
          PROVE  FALSE
      <4>1. schedules'[s].version = schedules[s].version + 1 /\ schedules[s].version \in Nat
        BY <3>2, ServesRow DEF Schedule
      <4> QED
        BY <3>1, <4>1
    <3>3. \A r \in RunIds : Occurs(runs'[r], s) =>
             Occurs(runs[r], s) /\ runs'[r].scheduledFor = runs[r].scheduledFor
      BY <3>2, RowsAfter
    <3> QED
      BY <1>3, <3>1, <3>3
  <2> QED
    BY <2>1, <2>2
<1> QED
  BY <1>4, <1>5, <1>6, NextSchedules

-----------------------------------------------------------------------------
(* The history limit.                                                      *)

(* Rows that were ever inserted; there are finitely many.                  *)
Inserts(rs) == {r \in RunIds : rs[r].state # "none"}

(* A step inserts one row at most.                                         *)
LEMMA RewritesFinite ==
  ASSUME NEW mid, Rewrites(mid), IsFiniteSet(Inserts(runs))
  PROVE  IsFiniteSet(Inserts(mid))
<1>1. PICK r : \A q \in RunIds : Kin(runs[q], mid[q]) \/ q = r
  BY DEF Rewrites
<1>2. Inserts(mid) \subseteq Inserts(runs) \cup {r}
  BY <1>1 DEF Inserts, Kin
<1>3. IsFiniteSet(Inserts(runs) \cup {r})
  BY FS_AddElement
<1> QED
  BY <1>2, <1>3, FS_Subset

(* The rows the history limit keeps when it deletes another one.           *)
LEMMA KeptRows ==
  ASSUME NEW mid \in Table, IsFiniteSet(Inserts(mid)), NEW s, NEW kept \in Kept(mid, s),
         NEW r \in History(mid, s) \ kept
  PROVE  /\ kept \subseteq History(mid, s)
         /\ Cardinality(kept) = HistoryLimit
         /\ \A k \in kept : mid[k].created >= mid[r].created
<1> DEFINE H == History(mid, s)
<1>1. /\ kept \subseteq H
      /\ Cardinality(kept) = IF Cardinality(H) < HistoryLimit THEN Cardinality(H)
                                                            ELSE HistoryLimit
      /\ \A k \in kept, d \in H \ kept : 0 - mid[k].created <= 0 - mid[d].created
  BY DEF Kept, Firsts
<1>2. \A k \in RunIds : mid[k].created \in Nat
  BY DEF Table, JobRun, Time
<1>3. H \subseteq Inserts(mid) /\ H \subseteq RunIds
  BY DEF History, Inserts, Terminal
<1>4. \A k \in kept : mid[k].created >= mid[r].created
  <2>1. \A a, b \in Nat : 0 - a <= 0 - b => a >= b
    BY SMT
  <2>2. r \in H \ kept
    OBVIOUS
  <2> HIDE DEF H
  <2> QED
    BY <1>1, <1>2, <1>3, <2>1, <2>2
<1> HIDE DEF H
<1>5. IsFiniteSet(H)
  BY <1>3, FS_Subset
<1>6. Cardinality(kept) # Cardinality(H)
  <2>1. r \in H /\ r \notin kept
    BY DEF H
  <2> QED
    BY <1>1, <1>5, <2>1, FS_Subset
<1> QED
  BY <1>1, <1>4, <1>6 DEF H

(* What is deleted leaves a full history of its schedule, none of it older.*)
LEMMA PruneStep ==
  ASSUME Typed, IsFiniteSet(Inserts(runs)), [Next]_vars
  PROVE  PruneKeepsNewest
<1> USE TypedParts
<1>0. DOMAIN runs = RunIds
  BY DEF Table
<1> SUFFICES ASSUME NEW r \in RunIds,
                    runs'[r].state = "pruned", runs[r].state \notin {"none", "pruned"}
             PROVE  Cardinality({q \in RunIds : /\ runs'[q].sched = runs[r].sched
                                                /\ runs'[q].state \in Terminal
                                                /\ runs'[q].created >= runs[r].created})
                      >= HistoryLimit
  BY <1>0 DEF PruneKeepsNewest
<1> DEFINE Left == {q \in RunIds : /\ runs'[q].sched = runs[r].sched
                                   /\ runs'[q].state \in Terminal
                                   /\ runs'[q].created >= runs[r].created}
<1>1. PICK mid : Rewrites(mid) /\ Trims(mid)
  BY NextRows
<1>2. Kin(runs[r], mid[r]) /\ mid \in Table
  BY <1>1 DEF Rewrites, Inserted
<1>3. mid[r].state # "pruned"
  BY <1>2 DEF Kin
<1>4. PICK s : \E kept \in Kept(mid, s) : runs' = Pruned(mid, s, kept)
  BY <1>1, <1>3 DEF Trims
<1>5. PICK kept \in Kept(mid, s) : runs' = Pruned(mid, s, kept)
  BY <1>4
<1>6. r \in History(mid, s) \ kept
  BY <1>3, <1>5 DEF Pruned
<1>7. IsFiniteSet(Inserts(mid))
  BY <1>1, RewritesFinite
<1>8. /\ kept \subseteq History(mid, s)
      /\ Cardinality(kept) = HistoryLimit
      /\ \A k \in kept : mid[k].created >= mid[r].created
  BY <1>2, <1>6, <1>7, KeptRows
<1>9. ASSUME NEW k \in kept
      PROVE  k \in Left
  <2>1. k \in RunIds /\ mid[k].sched = s /\ mid[k].state \in Terminal
    BY <1>8 DEF History
  <2>2. runs'[k] = mid[k]
    BY <1>5, <2>1 DEF Pruned
  <2>3. mid[r].sched = s /\ mid[r].sched = runs[r].sched /\ mid[r].created = runs[r].created
    BY <1>2, <1>6 DEF Kin, History
  <2> QED
    BY <1>8, <2>1, <2>2, <2>3
<1>10. IsFiniteSet(Left)
  <2>1. \A q \in RunIds : runs'[q] = mid[q] \/ runs'[q] = Row("pruned")
    BY <1>5 DEF Pruned
  <2>2. Row("pruned").state \notin Terminal
    BY DEF Row, Terminal
  <2>3. Left \subseteq Inserts(mid)
    BY <2>1, <2>2 DEF Inserts, Terminal
  <2> QED
    BY <1>7, <2>3, FS_Subset
<1>11. Cardinality(Left) >= Cardinality(kept)
  <2>1. kept \subseteq Left
    BY <1>9
  <2> HIDE DEF Left
  <2> QED
    BY <1>10, <2>1, FS_Subset, FS_CardinalityType
<1> QED
  BY <1>8, <1>11

-----------------------------------------------------------------------------
(* The claims.                                                             *)

(* An execution is granted to a run whose schedule lets it.                *)
LEMMA ClaimStep ==
  ASSUME Typed, [Next]_vars
  PROVE  ClaimsFollowSchedule
<1> USE TypedParts
<1> SUFFICES ASSUME NEW t \in Tokens, exec[t].pc = "unused", exec'[t].pc = "claimed"
             PROVE  LET row == runs'[exec'[t].run]
                        status == schedules[row.sched].status
                    IN  status # "deleted" /\ (status = "paused" => row.trigger = "manual")
  BY DEF ClaimsFollowSchedule
<1>1. ASSUME NEW c \in Cycles, NEW r \in cycle[c].retry, ClaimRetry(c, r)
      PROVE  LET row == runs'[exec'[t].run]
                 status == schedules[row.sched].status
             IN  status # "deleted" /\ (status = "paused" => row.trigger = "manual")
  <2> DEFINE now == cycle[c].now
             rs  == Recovered(runs, now)
  <2>1. now \in Time /\ r \in RunIds
    BY CycleParts
  <2>2. PICK u \in FreshTokens : /\ runs' = [rs EXCEPT ![r] = Leased(rs[r], u, now)]
                                 /\ exec' = [exec EXCEPT ![u] = Claimed(c, r)]
    BY <1>1, Zenon DEF ClaimRetry
  <2>3. RetryAllowed(r) /\ rs[r].state = "queued"
    BY <1>1, Zenon DEF ClaimRetry, RetryReady
  <2>4. rs \in Table /\ rs[r] \in JobRun /\ Kin(runs[r], rs[r])
    BY <2>1, RecoveredTable, KinRecovered DEF Table
  <2> HIDE DEF now, rs
  <2>5. Kin(rs[r], Leased(rs[r], u, now)) /\ runs'[r] = Leased(rs[r], u, now)
    BY <2>1, <2>2, <2>3, <2>4, KinLeased DEF FreshTokens, Table
  <2>6. exec'[t].run = r
    BY <2>2 DEF ExecType, Claimed
  <2>7. runs'[r].sched = runs[r].sched /\ runs'[r].trigger = runs[r].trigger
    BY <2>4, <2>5 DEF Kin
  <2> QED
    BY <2>3, <2>6, <2>7 DEF RetryAllowed
<1>2. ASSUME NEW c \in Cycles, NEW d \in cycle[c].due, ClaimScheduled(c, d)
      PROVE  LET row == runs'[exec'[t].run]
                 status == schedules[row.sched].status
             IN  status # "deleted" /\ (status = "paused" => row.trigger = "manual")
  <2> DEFINE now == cycle[c].now
             rs  == Recovered(runs, now)
             plain == ScheduledRow(d, now)
  <2>1. now \in Time /\ d \in Snapshot
    BY CycleParts
  <2>2. rs \in Table
    BY <2>1, RecoveredTable
  <2>3. PICK r \in FreshRuns, u \in FreshTokens :
          /\ \E kept \in Kept([rs EXCEPT ![r] = Leased(plain, u, now)], d.id) :
               runs' = Pruned([rs EXCEPT ![r] = Leased(plain, u, now)], d.id, kept)
          /\ exec' = [exec EXCEPT ![u] = Claimed(c, r)]
    BY <1>2 DEF ClaimScheduled
  <2>4. schedules[d.id].status = "active"
    BY <1>2 DEF ClaimScheduled, Claimable
  <2>5. r \in RunIds /\ u \in Tokens
    BY DEF FreshRuns, FreshTokens
  <2>6. /\ plain \in JobRun /\ plain.attempt = 0 /\ plain.state = "queued"
        /\ plain.sched = d.id
    BY <2>1, ScheduledRowType, ScheduledRowOrigin
  <2> HIDE DEF now, rs, plain
  <2> DEFINE row == Leased(plain, u, now)
             mid == [rs EXCEPT ![r] = row]
  <2>7. row \in JobRun /\ row.state = "running" /\ row.sched = d.id
    BY <2>1, <2>5, <2>6, LeasedRow, PolicyAssumption
  <2>8. PICK kept : runs' = Pruned(mid, d.id, kept)
    BY <2>3
  <2> HIDE DEF row
  <2>9. mid \in Table /\ mid[r] = row
    BY <2>2, <2>5, <2>7 DEF Table
  <2> HIDE DEF mid
  <2>10. runs'[r] = row
    BY <2>5, <2>7, <2>8, <2>9, PrunedRow DEF Terminal
  <2>11. exec'[t].run = r
    BY <2>3 DEF ExecType, Claimed
  <2> QED
    BY <2>4, <2>7, <2>10, <2>11
<1>3. CASE CalmExec
  BY <1>3 DEF CalmExec, Flying
<1>4. CASE Claims
  BY <1>1, <1>2, <1>4 DEF Claims
<1> QED
  BY <1>3, <1>4, OthersAreCalm

(* Saving a form never brings a deleted schedule back, unless its own      *)
(* enabled switch is sent.                                                 *)
LEMMA DeleteStep ==
  ASSUME Typed, [Next]_vars, EnabledInputs \subseteq {"unset"}
  PROVE  DeletedIsFinal
<1> SUFFICES ASSUME NEW s \in Schedules, schedules[s].status = "deleted"
             PROVE  schedules'[s].status = "deleted"
  BY DEF DeletedIsFinal
<1>1. ASSUME NEW u \in Schedules, UserSaves(u)
      PROVE  schedules'[s].status = "deleted"
  BY <1>1 DEF UserSaves, SameRhythm
<1>2. ASSUME NEW c \in Cycles, NEW d \in cycle[c].due, Serves(c, d)
      PROVE  schedules'[s].status = "deleted"
  BY <1>2, ServesRow DEF Serves
<1> QED
  BY <1>1, <1>2, NextSchedules

(* What the steps of the edits rest on.                                    *)
EditsInv ==
  SnapshotsTrue /\ OccurrencesPast /\ IntervalsAhead /\ IsFiniteSet(Inserts(runs))

(* The tables are empty when the program is first started.                 *)
LEMMA InitEdits ==
  ASSUME Init
  PROVE  EditsInv
<1>1. \A c \in Cycles : cycle[c].due = {}
  BY DEF Init, CycleAt
<1>2. \A r \in RunIds : runs[r].state = "none" /\ runs[r].sched = NoSchedule
  BY DEF Init, Row
<1>3. \A s \in Schedules : ~Running(schedules[s])
  BY DEF Init, AbsentSchedule, Running
<1>4. Inserts(runs) = {}
  BY <1>2 DEF Inserts
<1> QED
  BY <1>1, <1>2, <1>3, <1>4, SetsAssumption, FS_EmptySet
     DEF EditsInv, SnapshotsTrue, OccurrencesPast, IntervalsAhead, Occurs

(* Every step keeps what the edits rest on.                                *)
LEMMA NextEdits ==
  ASSUME Typed, CyclesBehind, EditsInv, [Next]_vars
  PROVE  EditsInv'
<1>1. PICK mid : Rewrites(mid) /\ Trims(mid)
  BY NextRows
<1>2. IsFiniteSet(Inserts(mid))
  BY <1>1, RewritesFinite DEF EditsInv
<1>3. Inserts(runs') \subseteq Inserts(mid)
  <2>1. \A q \in RunIds : \/ runs'[q] = mid[q]
                          \/ mid[q].state \in Terminal
    BY <1>1 DEF Trims, Pruned, History
  <2> QED
    BY <2>1 DEF Inserts, Terminal
<1>4. IsFiniteSet(Inserts(runs'))
  BY <1>2, <1>3, FS_Subset
<1> QED
  BY <1>4, NextSnapshots, NextPast, NextAhead DEF EditsInv, Inserts

(* Under the user's edits no occurrence comes up twice, a claim follows    *)
(* the schedule's current row, deletion is final as long as no form sends  *)
(* its own enabled switch, and the history limit deletes the oldest.       *)
THEOREM EditsKept ==
  ASSUME EnabledInputs \subseteq {"unset"}
  PROVE  Spec => EditsAreKept
<1>1. Init => EditsInv
  BY InitEdits
<1>2. Typed /\ CyclesBehind /\ EditsInv /\ [Next]_vars => EditsInv'
  BY NextEdits
<1>3. Typed /\ EditsInv => IntervalMovesOn
  <2> SUFFICES ASSUME Typed, EditsInv, NEW r \in RunIds,
                      runs[r].sched \in Schedules, runs[r].trigger = "scheduled",
                      schedules[runs[r].sched].status = "active",
                      schedules[runs[r].sched].kind = "interval"
               PROVE  runs[r].scheduledFor < schedules[runs[r].sched].next
    BY TypedParts DEF IntervalMovesOn, Table
  <2> QED
    BY DEF EditsInv, IntervalsAhead, Running, Occurs, Horizon
<1>4. Typed /\ EditsInv /\ [Next]_vars =>
        ClaimsFollowSchedule /\ DeletedIsFinal /\ PruneKeepsNewest
  BY PruneStep, ClaimStep, DeleteStep DEF EditsInv
<1>5. ClaimsFollowSchedule /\ DeletedIsFinal /\ PruneKeepsNewest /\ IntervalMovesOn'
        => [EditStep]_vars
  BY DEF EditStep
<1> QED
  BY <1>1, <1>2, <1>3, <1>4, <1>5, TypedAlways, BehindAlways, PTL DEF Spec, EditsAreKept
=============================================================================
