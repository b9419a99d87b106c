---------------------------- MODULE ChatRunsProofs ----------------------------
(***************************************************************************)
(* Proofs about chat runs, for any number of runs, calls and limits.  Each *)
(* run has its own rows and its own goroutine, and the runs meet only at   *)
(* the slot of the model: so the invariant is stated run by run.  First it, *)
(* and what one step of a run does: to its locals, its events, its rows,   *)
(* its subagents, its silence and the slot.  A step of one run leaves the  *)
(* others' alone (OthersStep), and only TurnFits speaks of the slot.  Then *)
(* the steps around the goroutines, the invariant, and the properties that *)
(* follow from it.                                                         *)
(***************************************************************************)
EXTENDS ChatRunsProperties, FiniteSetTheorems, TLAPS

-----------------------------------------------------------------------------
(* The inductive invariant, run by run.                                    *)

\* The wait for the owner, the child's life, and all of executeTool.
Asking == {"register", "annotate", "lookup", "wait", "decide", "expire"}
Minding ==
  {"childQueue", "childRun", "childStart", "childStream", "childSave", "childFail",
   "childCancel"}
Tooling == {"tool", "ask", "denied", "launch", "effect", "report", "find"} \cup Asking \cup Minding

Preparations == {"setup", "switch", "audit", "budget", "context", "begin"}
Answering == {"step", "start", "stream", "segments", "complete"}

Working == Preparations \cup Answering \cup Tooling

\* After the runtime has returned for good.
Leaving == {"fail", "cancelled", "told", "close", "done", "lost"}

\* The calls collected from a stream can be counted.
CollectedIsFinite(r) == IsFiniteSet(task[r].todo)

\* The goroutine's copy is its row until a save of its own fails or a route is
\* half switched; from the moment they differ the copy's versions never fit.
CopyFits(r) ==
  /\ row[r].state = run[r].state
  /\ run[r].version = row[r].version => run[r] = row[r]
  /\ task[r].pc \notin Leaving \cup {"audit"} => run[r] = row[r]
  /\ At(r, "audit") => row[r].version = run[r].version + 1 /\ row[r].switched

\* Where the goroutine is tells the state of its row.
StateFits(r) ==
  /\ At(r, "idle") => row[r] = Absent
  /\ At(r, "created") => row[r].state = "created"
  /\ At(r, "queued") => row[r].state = "queued"
  /\ task[r].pc \in Working \ {"wait"} => row[r].state = "running"
  /\ At(r, "wait") => row[r].state = "waiting_approval"
  /\ task[r].pc \in {"aborted", "fail"} => row[r].state \in {"running", "waiting_approval"}
  /\ At(r, "aborted") /\ task[r].cause = "eligible" => row[r].state = "running"
  /\ At(r, "cancelled") => row[r].state = "cancelling" \/ row[r].version # run[r].version

\* A run that goes on has no cause to end, one that ends badly has one.
CauseFits(r) ==
  /\ task[r].pc \in {"created", "queued"} => task[r].cause = "none"
  /\ task[r].pc \in Working \ {"switch", "audit", "childFail", "childCancel", "report"} =>
       task[r].cause = "none"
  /\ task[r].pc \in {"aborted", "fail", "cancelled"} => task[r].cause # "none"
  /\ row[r].state = "completed" =>
       task[r].pc \in {"told", "close", "done", "lost"} /\ task[r].cause = "none"
  /\ task[r].pc \in {"told", "close"} /\ task[r].cause = "none" => row[r].state = "completed"
  /\ At(r, "done") /\ task[r].cause = "none" => row[r].state \in {"completed", "created", "queued"}

\* The last event comes once, and nothing waits to be sent after it.
TellingFits(r) ==
  /\ ~shown[r].after
  /\ shown[r].terminal # "none" =>
       /\ ~shown[r].pending /\ ~shown[r].segment
       /\ task[r].pc \in {"aborted"} \cup Leaving
       /\ At(r, "aborted") => task[r].attempt = 2
       /\ At(r, "told") => task[r].cause # "none"
  /\ shown[r].terminal = "complete" => row[r].state = "completed"
  /\ At(r, "close") => shown[r].terminal # "none"
  /\ At(r, "done") => shown[r].terminal # "none" \/ row[r].state \in {"created", "queued"}
  /\ task[r].pc \in {"close", "done"} /\ row[r].state = "completed" => shown[r].terminal = "complete"
  /\ task[r].attempt = 2 \/ task[r].pc \in {"created", "queued"} \cup Preparations => ~task[r].held

\* A call in the hands of executeTool has not taken effect yet, and where it is
\* tells what is known of its approval.
ApprovalFits(r) ==
  LET c == task[r].call
  IN  /\ \A d \in Calls :
           /\ effects[r][d] <= 1
           /\ effects[r][d] > 0 => d \in task[r].seen
           /\ d \in Writes /\ effects[r][d] > 0 => approval[r][d] = "approved"
      /\ task[r].pc \in Tooling \ {"tool", "denied", "report"} => c \notin task[r].seen
      /\ task[r].pc \in Asking => approval[r][c] = "pending"
      /\ task[r].pc \in {"launch", "effect"} /\ c \in Writes => approval[r][c] = "approved"
      /\ task[r].pc \in Minding \cup {"find"} => c \in Delegates
      /\ At(r, "decide") => task[r].answer \in Answers

\* Nobody can answer for a run that has not begun or is over.
GateFits(r) ==
  task[r].pc \in {"idle", "created", "queued", "done", "lost"} => \A c \in Calls : gate[r][c] = "absent"

Unfinished(r, c) == child[r][c].run \notin Terminal \cup {"absent"}

\* A subagent under way is in the hands of its call, or its parent is ending.
ChildrenFit(r) ==
  \A c \in Calls :
    /\ child[r][c].run = child[r][c].status
    /\ Unfinished(r, c) =>
         \/ task[r].pc \in Minding /\ c = task[r].call
         \/ At(r, "report") /\ Dead(r)
         \/ At(r, "aborted") /\ task[r].cause # "eligible"
         \/ task[r].pc \in Leaving /\ row[r].state # "completed"

\* The first route is silent until its attempt is committed.
SilenceFits(r) ==
  /\ ~task[r].committed =>
       /\ ~shown[r].output /\ task[r].todo = {}
       /\ task[r].pc \notin Tooling
       /\ \A c \in Calls : record[r][c] = "absent" /\ effects[r][c] = 0
  /\ task[r].pc \in {"created", "queued", "setup", "budget", "context", "begin"}
       /\ task[r].attempt = 1 => ~task[r].committed
  /\ task[r].pc \in {"idle", "switch"} => task[r].attempt = 1 /\ ~task[r].committed

\* Streams are counted while they are open; a panic may leave one counted.
TurnFits(r) ==
  /\ depth[r] > 0 <=> slot = r
  /\ task[r].pc \notin Leaving => depth[r] = OpenStreams(r)
  /\ panics = 0 => depth[r] = OpenStreams(r)
  /\ At(r, "childStream") => (task[r].nested <=> task[r].stream = "interactive")

ReviewsFit == slot = Reviewer => reviews > 0

RunFits(r) ==
  /\ CollectedIsFinite(r) /\ CopyFits(r) /\ StateFits(r) /\ CauseFits(r) /\ TellingFits(r)
  /\ ApprovalFits(r) /\ GateFits(r) /\ ChildrenFit(r) /\ SilenceFits(r) /\ TurnFits(r)

IInv == TypeOK /\ ReviewsFit /\ \A r \in Runs : RunFits(r)

-----------------------------------------------------------------------------
(* What the writes do to a task.                                           *)

\* All but where the goroutine is and why it ends.
KeepsRoute(r) ==
  /\ task'[r].kind = task[r].kind /\ task'[r].stream = task[r].stream
  /\ task'[r].attempt = task[r].attempt
  /\ task'[r].committed = task[r].committed

KeepsTools(r) ==
  /\ task'[r].todo = task[r].todo /\ task'[r].call = task[r].call
  /\ task'[r].seen = task[r].seen /\ task'[r].answer = task[r].answer

Keeps(r) ==
  /\ KeepsRoute(r) /\ KeepsTools(r) /\ task'[r].held = task[r].held
  /\ task'[r].nested = task[r].nested

TaskTyped == task' \in [Runs -> TaskType]

\* One task is written, with a record of the right kind.
LEMMA TaskWritten ==
  ASSUME TypeOK, NEW r \in Runs, NEW new \in TaskType, task' = [task EXCEPT ![r] = new]
  PROVE  TaskTyped /\ task'[r] = new
  BY DEF TypeOK, TaskTyped

\* The locals of a run are of the right kind.
LEMMA TaskHere == ASSUME TypeOK, NEW r \in Runs PROVE task[r] \in TaskType
  BY DEF TypeOK

\* The goroutine goes to another place.
LEMMA PcInTask ==
  ASSUME NEW t \in TaskType, NEW p \in Places
  PROVE  [t EXCEPT !.pc = p] \in TaskType
  BY DEF TaskType

\* It goes there with a cause to end.
LEMMA CauseInTask ==
  ASSUME NEW t \in TaskType, NEW p \in Places, NEW c \in Causes
  PROVE  [t EXCEPT !.pc = p, !.cause = c] \in TaskType
  BY DEF TaskType

\* The counters start anew for another route.
LEMMA RouteInTask ==
  ASSUME NEW t \in TaskType, NEW p \in Places, NEW a \in {1, 2}, NEW s \in 0..MaxSteps,
         NEW m \in {0, 1}, NEW c \in Causes
  PROVE  [t EXCEPT !.pc = p, !.attempt = a, !.step = s, !.misses = m, !.cause = c] \in TaskType
  BY DEF TaskType

\* The context of the attempt is assembled.
LEMMA AssembledInTask ==
  ASSUME NEW t \in TaskType, NEW p \in Places, NEW b \in BOOLEAN
  PROVE  [t EXCEPT !.pc = p, !.assembled = b] \in TaskType
  BY DEF TaskType

\* The runtime begins: the cause is settled and the route held or not.
LEMMA BeginInTask ==
  ASSUME NEW t \in TaskType, NEW p \in Places, NEW c \in Causes, NEW h \in BOOLEAN
  PROVE  [t EXCEPT !.pc = p, !.cause = c, !.held = h] \in TaskType
  BY DEF TaskType

\* Goto moves the goroutine and nothing else.
LEMMA GotoDoes ==
  ASSUME TypeOK, NEW r \in Runs, NEW p \in Places, Goto(r, p)
  PROVE  TaskTyped /\ task'[r].pc = p /\ task'[r].cause = task[r].cause /\ Keeps(r)
  <1>1. [task[r] EXCEPT !.pc = p] \in TaskType
    BY TaskHere, PcInTask
  <1>2. TaskTyped /\ task'[r] = [task[r] EXCEPT !.pc = p]
    BY <1>1, TaskWritten DEF Goto, TypeOK
  <1> QED BY <1>2 DEF TypeOK, TaskType, Keeps, KeepsRoute, KeepsTools

\* A move with a cause changes nothing else.
LEMMA CauseSetDoes ==
  ASSUME TypeOK, NEW r \in Runs, NEW p \in Places, NEW c \in Causes,
         task' = [task EXCEPT ![r].pc = p, ![r].cause = c]
  PROVE  TaskTyped /\ task'[r].pc = p /\ task'[r].cause = c /\ Keeps(r)
  <1>1. [task[r] EXCEPT !.pc = p, !.cause = c] \in TaskType
    BY TaskHere, CauseInTask
  <1>2. task' = [task EXCEPT ![r] = [task[r] EXCEPT !.pc = p, !.cause = c]]
    BY DEF TypeOK, TaskType
  <1>3. TaskTyped /\ task'[r] = [task[r] EXCEPT !.pc = p, !.cause = c]
    BY <1>1, <1>2, TaskWritten
  <1> QED BY <1>3 DEF TypeOK, TaskType, Keeps, KeepsRoute, KeepsTools

\* Failing ends the chat's part with its cause.
LEMMA FailingDoes ==
  ASSUME TypeOK, NEW r \in Runs, NEW c \in Causes, Failing(r, c)
  PROVE  TaskTyped /\ task'[r].pc = "fail" /\ task'[r].cause = c /\ Keeps(r)
  BY CauseSetDoes, ZenonT(60) DEF Failing, Places

\* A failed subagent keeps its cause for the delegation's save.
LEMMA ChildFailsDoes ==
  ASSUME TypeOK, NEW r \in Runs, NEW c \in Causes, ChildFails(r, c)
  PROVE  TaskTyped /\ task'[r].pc = "childFail" /\ task'[r].cause = c /\ Keeps(r)
  BY CauseSetDoes DEF ChildFails, Places

\* A dead context is a cancel or a deadline.
LEMMA DeadCauses == ASSUME NEW r \in Runs PROVE DeadCause(r) \in {"cancelled", "error"}
  BY DEF DeadCause

\* The switch done, the second route is prepared like the first.
LEMMA AuditSwitched ==
  ASSUME TypeOK, NEW r \in Runs, AuditSwitch(r), context[r] # "cancelled"
  PROVE  /\ TaskTyped /\ task'[r].pc = "setup" /\ task'[r].attempt = 2 /\ task'[r].cause = "none"
         /\ KeepsTools(r) /\ task'[r].held = task[r].held /\ task'[r].stream = task[r].stream
         /\ task'[r].committed = task[r].committed
  <1> DEFINE new == [task[r] EXCEPT !.pc = "setup", !.attempt = 2, !.step = 0, !.misses = 0,
                                    !.cause = "none"]
  <1>0. "setup" \in Places /\ "none" \in Causes /\ 0 \in 0..MaxSteps
    BY LimitsAssumption DEF Places, Causes
  <1>1. new \in TaskType
    BY <1>0, TaskHere, RouteInTask
  <1>2. task' = [task EXCEPT ![r] = new]
    BY ZenonT(60) DEF AuditSwitch, TypeOK, TaskType
  <1>3. TaskTyped /\ task'[r] = new
    BY <1>1, <1>2, TaskWritten
  <1> QED BY <1>3 DEF TypeOK, TaskType, KeepsTools

\* The context is there and the runtime may begin.
LEMMA Assembled ==
  ASSUME TypeOK, NEW r \in Runs, task' = [task EXCEPT ![r].pc = "begin", ![r].assembled = TRUE]
  PROVE  TaskTyped /\ task'[r].pc = "begin" /\ task'[r].cause = task[r].cause /\ Keeps(r)
  <1> DEFINE new == [task[r] EXCEPT !.pc = "begin", !.assembled = TRUE]
  <1>1. new \in TaskType
    BY TaskHere, AssembledInTask DEF Places
  <1>2. task' = [task EXCEPT ![r] = new]
    BY DEF TypeOK, TaskType
  <1>3. TaskTyped /\ task'[r] = new
    BY <1>1, <1>2, TaskWritten
  <1> QED BY <1>3, SMTT(40) DEF TypeOK, TaskType, Keeps, KeepsRoute, KeepsTools

\* The runtime begins unless its context is dead; only the first route is held.
LEMMA BeginRunDoes ==
  ASSUME TypeOK, NEW r \in Runs, BeginRun(r)
  PROVE  /\ TaskTyped /\ KeepsRoute(r) /\ KeepsTools(r)
         /\ \/ Dead(r) /\ task'[r].pc = "aborted" /\ task'[r].cause \in {"cancelled", "error"}
                 /\ ~task'[r].held
            \/ ~Dead(r) /\ task'[r].pc = "step" /\ task'[r].cause = "none"
                 /\ (task'[r].held <=> task[r].attempt = 1)
  <1> DEFINE p == IF Dead(r) THEN "aborted" ELSE "step"
             c == IF Dead(r) THEN DeadCause(r) ELSE "none"
             h == task[r].attempt = 1 /\ ~Dead(r)
             new == [task[r] EXCEPT !.pc = p, !.cause = c, !.held = h]
  <1>1. p \in Places /\ c \in Causes /\ h \in BOOLEAN
    BY DeadCauses DEF Places, Causes
  <1>2. task' = [task EXCEPT ![r].pc = p, ![r].cause = c, ![r].held = h]
    BY DEF BeginRun
  <1>3. (Dead(r) => p = "aborted" /\ c \in {"cancelled", "error"} /\ ~h)
          /\ (~Dead(r) => p = "step" /\ c = "none" /\ (h <=> task[r].attempt = 1))
    BY DeadCauses
  <1> HIDE DEF p, c, h
  <1>4. new \in TaskType
    BY <1>1, TaskHere, BeginInTask
  <1>5. task' = [task EXCEPT ![r] = new]
    BY <1>2 DEF TypeOK, TaskType
  <1>6. TaskTyped /\ task'[r] = new
    BY <1>4, <1>5, TaskWritten
  <1> QED BY <1>3, <1>6 DEF TypeOK, TaskType, KeepsRoute, KeepsTools

\* A step of the loop begins with nothing collected.
LEMMA StepInTask ==
  ASSUME NEW t \in TaskType, NEW p \in Places, NEW s \in 0..MaxSteps, NEW S \in SUBSET Calls
  PROVE  [t EXCEPT !.pc = p, !.step = s, !.todo = S] \in TaskType
  BY DEF TaskType

\* The attempt is committed, by text or by a call.
LEMMA CommittedInTask ==
  ASSUME NEW t \in TaskType, NEW S \in SUBSET Calls
  PROVE  /\ [t EXCEPT !.held = FALSE, !.committed = TRUE] \in TaskType
         /\ [[t EXCEPT !.held = FALSE, !.committed = TRUE] EXCEPT !.todo = S] \in TaskType
  BY DEF TaskType

\* A call is taken from those collected, and counted.
LEMMA CallInTask ==
  ASSUME NEW t \in TaskType, NEW p \in Places, NEW c \in Calls, NEW S \in SUBSET Calls,
         NEW n \in 0..MaxToolCalls
  PROVE  [t EXCEPT !.pc = p, !.call = c, !.todo = S, !.used = n] \in TaskType
  BY DEF TaskType

\* A call is counted.
LEMMA UsedInTask ==
  ASSUME NEW t \in TaskType, NEW p \in Places, NEW c \in Calls, NEW n \in 0..MaxToolCalls
  PROVE  [t EXCEPT !.pc = p, !.call = c, !.used = n] \in TaskType
  BY DEF TaskType

\* A call is taken, with or without the rest of its turn.
LEMMA TodoInTask ==
  ASSUME NEW t \in TaskType, NEW p \in Places, NEW c \in Calls, NEW S \in SUBSET Calls
  PROVE  /\ [t EXCEPT !.pc = p, !.call = c, !.todo = S] \in TaskType
         /\ [t EXCEPT !.pc = p, !.todo = S] \in TaskType
  BY DEF TaskType

\* A missed answer is counted; the route is held or let go.
LEMMA MissInTask ==
  ASSUME NEW t \in TaskType, NEW p \in Places, NEW m \in {0, 1}, NEW h \in BOOLEAN
  PROVE  /\ [t EXCEPT !.pc = p, !.misses = m] \in TaskType
         /\ [t EXCEPT !.pc = p, !.held = h] \in TaskType
  BY DEF TaskType

\* A call is seen by its result, or a child's stream lies in its parent's.
LEMMA ResultInTask ==
  ASSUME NEW t \in TaskType, NEW p \in Places, NEW b \in BOOLEAN, NEW S \in SUBSET Calls
  PROVE  /\ [t EXCEPT !.pc = p, !.ok = b, !.seen = S] \in TaskType
         /\ [t EXCEPT !.pc = p, !.nested = b] \in TaskType
  BY DEF TaskType

\* The owner's answer is kept.
LEMMA AnswerInTask ==
  ASSUME NEW t \in TaskType, NEW p \in Places, NEW a \in Answers
  PROVE  [t EXCEPT !.pc = p, !.answer = a] \in TaskType
  BY DEF TaskType

\* A step goes on to a stream and keeps all but its counters.
LEMMA BeginStepDoes ==
  ASSUME TypeOK, NEW r \in Runs, BeginStep(r), ~(Dead(r) \/ task[r].step = MaxSteps)
  PROVE  /\ TaskTyped /\ task'[r].pc = "start" /\ task'[r].cause = task[r].cause
         /\ KeepsRoute(r) /\ task'[r].held = task[r].held /\ task'[r].todo = {}
         /\ task'[r].seen = task[r].seen
  <1> DEFINE s == task[r].step + 1
             new == [task[r] EXCEPT !.pc = "start", !.step = s, !.todo = {}]
  <1>1. task[r].step \in 0..MaxSteps
    BY TaskHere DEF TaskType
  <1>2. s \in 0..MaxSteps
    BY <1>1, LimitsAssumption
  <1>3. task' = [task EXCEPT ![r].pc = "start", ![r].step = @ + 1, ![r].todo = {}]
    BY DEF BeginStep
  <1>4. task' = [task EXCEPT ![r] = new]
    BY <1>3 DEF TypeOK, TaskType
  <1> HIDE DEF s
  <1>5. "start" \in Places /\ {} \in SUBSET Calls
    BY DEF Places
  <1>6. new \in TaskType
    BY <1>2, <1>5, TaskHere, StepInTask
  <1>7. TaskTyped /\ task'[r] = new
    BY <1>4, <1>6, TaskWritten
  <1> QED BY <1>7 DEF TypeOK, TaskType, KeepsRoute

\* Text commits the attempt and ends its silence.
LEMMA TextDeltaDoes ==
  ASSUME TypeOK, NEW r \in Runs, TextDelta(r)
  PROVE  /\ TaskTyped /\ task'[r].pc = "stream" /\ task'[r].cause = task[r].cause
         /\ KeepsTools(r) /\ task'[r].attempt = task[r].attempt /\ ~task'[r].held
         /\ task'[r].committed /\ task'[r].stream = task[r].stream /\ task'[r].kind = task[r].kind
  <1>1. Committed(r) \in TaskType
    BY TaskHere, CommittedInTask DEF Committed
  <1>2. TaskTyped /\ task'[r] = Committed(r)
    BY <1>1, TaskWritten DEF TextDelta
  <1> QED BY <1>2 DEF TypeOK, TaskType, KeepsTools, Committed, TextDelta, At

\* A call proposed commits the attempt and is collected.
LEMMA ProposeCallDoes ==
  ASSUME TypeOK, NEW r \in Runs, NEW c \in Calls, ProposeCall(r, c)
  PROVE  /\ TaskTyped /\ task'[r].pc = "stream" /\ task'[r].cause = task[r].cause
         /\ task'[r].todo = task[r].todo \cup {c} /\ task'[r].seen = task[r].seen
         /\ task'[r].attempt = task[r].attempt /\ ~task'[r].held
         /\ task'[r].committed /\ task'[r].stream = task[r].stream /\ task'[r].kind = task[r].kind
  <1> DEFINE S == task[r].todo \cup {c}
             new == [[task[r] EXCEPT !.held = FALSE, !.committed = TRUE] EXCEPT !.todo = S]
  <1>1. S \in SUBSET Calls
    BY TaskHere DEF TaskType
  <1>2. task' = [task EXCEPT ![r] = new]
    BY DEF ProposeCall, Committed, TypeOK, TaskType
  <1> HIDE DEF S
  <1>3. new \in TaskType
    BY <1>1, TaskHere, CommittedInTask
  <1>4. TaskTyped /\ task'[r] = new
    BY <1>2, <1>3, TaskWritten
  <1>5. DEFINE t == task[r]
  <1>6. t \in TaskType /\ t.pc = "stream"
    BY TaskHere DEF ProposeCall, At
  <1> HIDE DEF t
  <1>7. task'[r] = [[t EXCEPT !.held = FALSE, !.committed = TRUE] EXCEPT !.todo = S]
    BY <1>4 DEF t
  <1>8. /\ task'[r].pc = t.pc /\ task'[r].cause = t.cause /\ task'[r].todo = S
        /\ task'[r].seen = t.seen /\ task'[r].attempt = t.attempt /\ ~task'[r].held
        /\ task'[r].committed /\ task'[r].stream = t.stream /\ task'[r].kind = t.kind
    BY <1>6, <1>7 DEF TaskType
  <1> QED BY <1>4, <1>6, <1>8 DEF S, t

\* A call goes to executeTool and is counted: alone, during a stream, or with
\* the others of its turn.
LEMMA CallBegins ==
  ASSUME TypeOK, NEW r \in Runs, NEW c \in Calls, NEW S \in SUBSET Calls,
         NEW n \in 0..MaxToolCalls,
         task' = [task EXCEPT ![r].pc = "tool", ![r].call = c, ![r].todo = S, ![r].used = n]
  PROVE  /\ TaskTyped /\ task'[r].pc = "tool" /\ task'[r].cause = task[r].cause
         /\ task'[r].call = c /\ task'[r].todo = S /\ task'[r].seen = task[r].seen
         /\ KeepsRoute(r) /\ task'[r].held = task[r].held
  <1> DEFINE a == [task[r] EXCEPT !.pc = "tool", !.call = c, !.todo = S, !.used = n]
  <1>1. "tool" \in Places
    BY DEF Places
  <1>2. a \in TaskType
    BY <1>1, TaskHere, CallInTask
  <1>3. task' = [task EXCEPT ![r] = a]
    BY DEF TypeOK, TaskType
  <1>4. TaskTyped /\ task'[r] = a
    BY <1>2, <1>3, TaskWritten
  <1> QED BY <1>4 DEF TypeOK, TaskType, KeepsRoute

\* The first call of a turn goes to executeTool.
LEMMA CallsBegin ==
  ASSUME TypeOK, NEW r \in Runs, NEW c \in Calls, NEW n \in 0..MaxToolCalls,
         task' = [task EXCEPT ![r].pc = "tool", ![r].call = c, ![r].used = n]
  PROVE  /\ TaskTyped /\ task'[r].pc = "tool" /\ task'[r].cause = task[r].cause
         /\ task'[r].call = c /\ task'[r].todo = task[r].todo /\ task'[r].seen = task[r].seen
         /\ KeepsRoute(r) /\ task'[r].held = task[r].held
  <1> DEFINE a == [task[r] EXCEPT !.pc = "tool", !.call = c, !.used = n]
  <1>1. "tool" \in Places
    BY DEF Places
  <1>2. a \in TaskType
    BY <1>1, TaskHere, UsedInTask
  <1>3. task' = [task EXCEPT ![r] = a]
    BY DEF TypeOK, TaskType
  <1>4. TaskTyped /\ task'[r] = a
    BY <1>2, <1>3, TaskWritten
  <1> QED BY <1>4 DEF TypeOK, TaskType, KeepsRoute

\* An answered call goes back to its stream, to the next call or to the next step.
LEMMA AnsweredDoes ==
  ASSUME TypeOK, NEW r \in Runs, Answered(r)
  PROVE  /\ TaskTyped /\ task'[r].cause = task[r].cause /\ task'[r].seen = task[r].seen
         /\ KeepsRoute(r) /\ task'[r].held = task[r].held
         /\ \/ task[r].stream = "interactive" /\ task'[r].pc = "stream" /\ Keeps(r)
            \/ task[r].stream # "interactive" /\ task'[r].pc = "step"
            \/ task[r].stream # "interactive" /\ task'[r].pc = "tool"
         /\ task'[r].todo \subseteq task[r].todo
  <1>1. CASE task[r].stream = "interactive"
    <2>1. Goto(r, "stream")
      BY <1>1 DEF Answered
    <2>2. "stream" \in Places
      BY DEF Places
    <2>3. TaskTyped /\ task'[r].pc = "stream" /\ task'[r].cause = task[r].cause /\ Keeps(r)
      BY <2>1, <2>2, GotoDoes
    <2> QED BY <1>1, <2>3 DEF Keeps, KeepsTools, KeepsRoute
  <1>2. CASE task[r].stream # "interactive"
               /\ task' = [task EXCEPT ![r].pc = "step", ![r].todo = {}]
    <2> DEFINE new == [task[r] EXCEPT !.pc = "step", !.todo = {}]
    <2>1. new \in TaskType
      <3>1. "step" \in Places /\ {} \in SUBSET Calls /\ task[r].call \in Calls
        BY TaskHere DEF Places, TaskType
      <3> QED BY <3>1, TaskHere, TodoInTask
    <2>2. task' = [task EXCEPT ![r] = new]
      BY <1>2 DEF TypeOK, TaskType
    <2>3. TaskTyped /\ task'[r] = new
      BY <2>1, <2>2, TaskWritten
    <2> QED BY <1>2, <2>3, SMTT(40) DEF TypeOK, TaskType, KeepsRoute
  <1>3. CASE task[r].stream # "interactive"
               /\ \E c \in task[r].todo \ {Call(r)} :
                    task' = [task EXCEPT ![r].pc = "tool", ![r].call = c,
                                         ![r].todo = @ \ {Call(r)}]
    <2>1. PICK c \in task[r].todo \ {Call(r)} :
            task' = [task EXCEPT ![r].pc = "tool", ![r].call = c, ![r].todo = @ \ {Call(r)}]
      BY <1>3
    <2> DEFINE S == task[r].todo \ {Call(r)}
    <2>2. c \in Calls /\ S \in SUBSET Calls
      BY <2>1, TaskHere DEF TaskType
    <2>3. task' = [task EXCEPT ![r].pc = "tool", ![r].call = c, ![r].todo = S]
      BY <2>1 DEF TypeOK, TaskType
    <2>4. S \subseteq task[r].todo /\ "tool" \in Places
      BY SMTT(40) DEF Places
    <2> HIDE DEF S
    <2> DEFINE new == [task[r] EXCEPT !.pc = "tool", !.call = c, !.todo = S]
    <2>5. new \in TaskType
      BY <2>2, <2>4, TaskHere, TodoInTask
    <2>6. task' = [task EXCEPT ![r] = new]
      BY <2>3 DEF TypeOK, TaskType
    <2>7. TaskTyped /\ task'[r] = new
      BY <2>5, <2>6, TaskWritten
    <2> QED BY <1>3, <2>4, <2>7 DEF TypeOK, TaskType, KeepsRoute
  <1> QED BY <1>1, <1>2, <1>3 DEF Answered

\* A tool that ran is reported; only a success counts as seen.
LEMMA RanDoes ==
  ASSUME TypeOK, NEW r \in Runs, NEW ok \in BOOLEAN, Ran(r, ok)
  PROVE  /\ TaskTyped /\ task'[r].pc = "report" /\ task'[r].cause = task[r].cause
         /\ KeepsRoute(r) /\ task'[r].held = task[r].held
         /\ task'[r].todo = task[r].todo /\ task'[r].call = task[r].call
         /\ ok => task'[r].seen = task[r].seen \cup {task[r].call}
         /\ ~ok => task'[r].seen = task[r].seen
  <1> DEFINE S == IF ok THEN task[r].seen \cup {Call(r)} ELSE task[r].seen
             new == [task[r] EXCEPT !.pc = "report", !.ok = ok, !.seen = S]
  <1>1. S \in SUBSET Calls
    BY TaskHere DEF TaskType, Call
  <1>2. task' = [task EXCEPT ![r].pc = "report", ![r].ok = ok, ![r].seen = S]
    BY DEF Ran, TypeOK, TaskType
  <1>3. (ok => S = task[r].seen \cup {task[r].call}) /\ (~ok => S = task[r].seen)
    BY DEF Call
  <1> HIDE DEF S
  <1>4. task' = [task EXCEPT ![r] = new]
    BY <1>2 DEF TypeOK, TaskType
  <1>5. new \in TaskType
    <2>1. "report" \in Places
      BY DEF Places
    <2> QED BY <1>1, <2>1, TaskHere, ResultInTask
  <1>6. TaskTyped /\ task'[r] = new
    BY <1>4, <1>5, TaskWritten
  <1> QED BY <1>3, <1>6 DEF TypeOK, TaskType, KeepsRoute

\* The owner's answer is taken from the gate.
LEMMA TakeAnswerDoes ==
  ASSUME TypeOK, NEW r \in Runs, TakeAnswer(r)
  PROVE  /\ TaskTyped /\ task'[r].pc = "decide" /\ task'[r].cause = task[r].cause
         /\ KeepsRoute(r) /\ task'[r].held = task[r].held
         /\ task'[r].todo = task[r].todo /\ task'[r].call = task[r].call
         /\ task'[r].seen = task[r].seen /\ task'[r].answer \in Answers
  <1> DEFINE a == gate[r][Call(r)]
             new == [task[r] EXCEPT !.pc = "decide", !.answer = a]
  <1>1. a \in Answers
    BY DEF TakeAnswer
  <1>2. task' = [task EXCEPT ![r].pc = "decide", ![r].answer = a]
    BY DEF TakeAnswer
  <1> HIDE DEF a
  <1>3. task' = [task EXCEPT ![r] = new]
    BY <1>2 DEF TypeOK, TaskType
  <1>4. new \in TaskType
    BY <1>1, TaskHere, AnswerInTask DEF Places
  <1>5. TaskTyped /\ task'[r] = new
    BY <1>3, <1>4, TaskWritten
  <1> QED BY <1>1, <1>5 DEF TypeOK, TaskType, KeepsRoute

\* A child that may stream notes whether its parent's stream is open.
LEMMA AcquireChildTurnDoes ==
  ASSUME TypeOK, NEW r \in Runs, AcquireChildTurn(r)
  PROVE  /\ TaskTyped /\ task'[r].pc = "childStream" /\ task'[r].cause = task[r].cause
         /\ KeepsRoute(r) /\ KeepsTools(r) /\ task'[r].held = task[r].held
         /\ task'[r].nested <=> depth[r] > 0
  <1> DEFINE b == depth[r] > 0
             new == [task[r] EXCEPT !.pc = "childStream", !.nested = b]
  <1>1. b \in BOOLEAN
    OBVIOUS
  <1>2. task' = [task EXCEPT ![r].pc = "childStream", ![r].nested = b]
    BY DEF AcquireChildTurn
  <1>3. b <=> depth[r] > 0
    OBVIOUS
  <1> HIDE DEF b
  <1>4. task' = [task EXCEPT ![r] = new]
    BY <1>2 DEF TypeOK, TaskType
  <1>5. new \in TaskType
    <2>1. "childStream" \in Places /\ {} \in SUBSET Calls
      BY DEF Places
    <2> QED BY <1>1, <2>1, TaskHere, ResultInTask
  <1>6. TaskTyped /\ task'[r] = new
    BY <1>4, <1>5, TaskWritten
  <1> QED BY <1>3, <1>6 DEF TypeOK, TaskType, KeepsRoute, KeepsTools

\* The route or its silence is settled on the way out of a stream or a route.
LEMMA HeldSetDoes ==
  ASSUME TypeOK, NEW r \in Runs, NEW p \in Places,
         task' = [task EXCEPT ![r].pc = p, ![r].held = FALSE]
  PROVE  /\ TaskTyped /\ task'[r].pc = p /\ task'[r].cause = task[r].cause
         /\ KeepsRoute(r) /\ KeepsTools(r) /\ ~task'[r].held
  <1> DEFINE new == [task[r] EXCEPT !.pc = p, !.held = FALSE]
  <1>1. new \in TaskType
    BY TaskHere, MissInTask
  <1>2. task' = [task EXCEPT ![r] = new]
    BY DEF TypeOK, TaskType
  <1>3. TaskTyped /\ task'[r] = new
    BY <1>1, <1>2, TaskWritten
  <1> QED BY <1>3 DEF TypeOK, TaskType, KeepsRoute, KeepsTools

\* A missed answer leads to another step.
LEMMA MissDoes ==
  ASSUME TypeOK, NEW r \in Runs, task' = [task EXCEPT ![r].pc = "step", ![r].misses = 1]
  PROVE  /\ TaskTyped /\ task'[r].pc = "step" /\ task'[r].cause = task[r].cause /\ Keeps(r)
  <1> DEFINE new == [task[r] EXCEPT !.pc = "step", !.misses = 1]
  <1>1. new \in TaskType
    BY TaskHere, MissInTask DEF Places
  <1>2. task' = [task EXCEPT ![r] = new]
    BY DEF TypeOK, TaskType
  <1>3. TaskTyped /\ task'[r] = new
    BY <1>1, <1>2, TaskWritten
  <1> QED BY <1>3, SMTT(40) DEF TypeOK, TaskType, Keeps, KeepsRoute, KeepsTools

-----------------------------------------------------------------------------
(* What the writes do to the rest of a run.                                *)

ShownTyped == shown' \in [Runs -> ShownType]
RowsTyped == row' \in [Runs -> RowType] /\ run' \in [Runs -> RowType]
Ends == {"complete", "cancelled", "error"}

\* An event takes along the text that was waiting.
LEMMA SentDoes ==
  ASSUME NEW s \in ShownType
  PROVE  /\ Sent(s) \in ShownType
         /\ Sent(s).output = s.output /\ Sent(s).terminal = s.terminal
         /\ Sent(s).segment = s.segment /\ ~Sent(s).pending
         /\ s.terminal = "none" => Sent(s).after = s.after
  BY DEF Sent, ShownType

\* Once there was a last event, nothing of this is left to send.
LEMMA ClosedDoes ==
  ASSUME NEW s \in ShownType
  PROVE  /\ Closed(s) \in ShownType
         /\ Closed(s).output = s.output /\ Closed(s).terminal = s.terminal
         /\ ~Closed(s).segment
         /\ s.terminal = "none" => Closed(s).after = s.after
         /\ ~s.segment => Closed(s) = s
  <1>1. CASE s.segment
    <2>1. Sent(s) \in ShownType /\ Closed(s) = [Sent(s) EXCEPT !.segment = FALSE]
      BY <1>1, SentDoes DEF Closed
    <2> DEFINE u == Sent(s)
    <2>2. u \in ShownType /\ Closed(s) = [u EXCEPT !.segment = FALSE]
      BY <2>1
    <2>3. u.output = s.output /\ u.terminal = s.terminal /\ ~u.pending
            /\ (s.terminal = "none" => u.after = s.after)
      BY SentDoes
    <2> HIDE DEF u
    <2>4. [u EXCEPT !.segment = FALSE] \in ShownType
      BY <2>2 DEF ShownType
    <2> QED BY <1>1, <2>2, <2>3, <2>4 DEF ShownType
  <1>2. CASE ~s.segment
    BY <1>2 DEF Closed, ShownType
  <1> QED BY <1>1, <1>2 DEF ShownType

\* The timer sends the text that was waiting, and nothing else.
LEMMA FlushedDoes ==
  ASSUME NEW s \in ShownType
  PROVE  /\ Flushed(s) \in ShownType
         /\ Flushed(s).output = s.output /\ Flushed(s).terminal = s.terminal
         /\ s.terminal = "none" => Flushed(s).after = s.after
         /\ ~s.pending => Flushed(s) = s
         /\ ~Flushed(s).pending
  <1>1. CASE s.pending
    BY <1>1, SentDoes DEF Flushed
  <1>2. CASE ~s.pending
    BY <1>2 DEF Flushed, ShownType
  <1> QED BY <1>1, <1>2 DEF ShownType

\* The last event is sent once and after all the others.
LEMMA EndedDoes ==
  ASSUME NEW s \in ShownType, NEW x \in Ends
  PROVE  /\ Ended(s, x) \in ShownType /\ Ended(s, x).output = s.output
         /\ Ended(s, x).segment = s.segment
         /\ s.terminal # "none" => Ended(s, x) = s
         /\ s.terminal = "none" => /\ Ended(s, x).terminal = x /\ ~Ended(s, x).pending
                                   /\ Ended(s, x).after = s.after
  <1>1. CASE s.terminal = "none"
    <2> DEFINE u == Sent(s)
    <2>1. u \in ShownType /\ Ended(s, x) = [u EXCEPT !.terminal = x]
      BY <1>1, SentDoes DEF Ended
    <2>2. u.output = s.output /\ u.segment = s.segment /\ ~u.pending /\ u.after = s.after
      BY <1>1, SentDoes
    <2> HIDE DEF u
    <2>3. [u EXCEPT !.terminal = x] \in ShownType
      BY <2>1 DEF ShownType, Ends
    <2> QED BY <1>1, <2>1, <2>2, <2>3 DEF ShownType
  <1>2. CASE s.terminal # "none"
    BY <1>2 DEF Ended
  <1> QED BY <1>1, <1>2

\* A held route passes its text on when it is let go.
LEMMA PassedDoes ==
  ASSUME NEW r \in Runs, NEW s \in ShownType
  PROVE  /\ Passed(r, s) \in ShownType
         /\ Passed(r, s).output = s.output /\ Passed(r, s).terminal = s.terminal
         /\ Passed(r, s).segment = s.segment
         /\ s.terminal = "none" => Passed(r, s).after = s.after
         /\ ~task[r].held => Passed(r, s) = s
  <1>1. CASE task[r].held
    <2> DEFINE u == Sent(s)
    <2>1. u \in ShownType /\ Passed(r, s) = [u EXCEPT !.started = TRUE]
      BY <1>1, SentDoes DEF Passed
    <2>2. u.output = s.output /\ u.segment = s.segment /\ u.terminal = s.terminal
            /\ (s.terminal = "none" => u.after = s.after)
      BY SentDoes
    <2> HIDE DEF u
    <2>3. [u EXCEPT !.started = TRUE] \in ShownType
      BY <2>1 DEF ShownType
    <2> QED BY <1>1, <2>1, <2>2, <2>3 DEF ShownType
  <1>2. CASE ~task[r].held
    BY <1>2 DEF Passed
  <1> QED BY <1>1, <1>2

\* The runtime gives up: on the second route the owner is told at once.
LEMMA FailsDoes ==
  ASSUME TypeOK, NEW r \in Runs, NEW c \in Causes, Fails(r, c)
  PROVE  /\ TaskTyped /\ task'[r].pc = "aborted" /\ task'[r].cause = c /\ Keeps(r)
         /\ ShownTyped
         /\ task[r].attempt = 1 => shown' = shown
         /\ task[r].attempt = 2 =>
              \E x \in {"cancelled", "error"} : shown'[r] = Ended(Closed(shown[r]), x)
  <1>1. TaskTyped /\ task'[r].pc = "aborted" /\ task'[r].cause = c /\ Keeps(r)
    BY CauseSetDoes DEF Fails, Places
  <1>2. CASE task[r].attempt = 1
    BY <1>1, <1>2 DEF Fails, ShownTyped, TypeOK
  <1>3. CASE task[r].attempt # 1
    <2> DEFINE x == IF "cancelled" \in {c, context[r]} THEN "cancelled" ELSE "error"
               new == Ended(Closed(shown[r]), x)
    <2>1. shown' = [shown EXCEPT ![r] = new]
      BY <1>3 DEF Fails
    <2>2. x \in {"cancelled", "error"} /\ shown[r] \in ShownType
      BY DEF TypeOK
    <2>3. new \in ShownType
      BY <2>2, ClosedDoes, EndedDoes DEF Ends
    <2> HIDE DEF x, new
    <2>4. shown' \in [Runs -> ShownType] /\ shown'[r] = new
      BY <2>1, <2>3 DEF TypeOK
    <2> QED BY <1>1, <1>3, <2>2, <2>4 DEF ShownTyped, new
  <1> QED BY <1>2, <1>3

\* A move of a row raises its version by one.
LEMMA MovedDoes ==
  ASSUME NEW old \in RowType, NEW to \in RunStates
  PROVE  /\ Moved(old, to) \in RowType /\ Moved(old, to).state = to
         /\ Moved(old, to).version = old.version + 1 /\ Moved(old, to).switched = old.switched
  <1> DEFINE n == old.version + 1
  <1>1. n \in Nat /\ Moved(old, to) = [old EXCEPT !.state = to, !.version = n]
    BY DEF Moved, RowType
  <1>2. n = old.version + 1
    OBVIOUS
  <1> HIDE DEF n
  <1> QED BY <1>1, <1>2 DEF RowType

\* A save moves both copies, or neither.
LEMMA SavedDoes ==
  ASSUME TypeOK, NEW r \in Runs, NEW to \in RunStates, Saved(r, to)
  PROVE  /\ RowsTyped
         /\ \/ /\ row' = row /\ run' = run
               /\ ~CanTransition(run[r].state, to) \/ run[r].version # row[r].version
            \/ /\ CanTransition(run[r].state, to) /\ run[r].version = row[r].version
               /\ row'[r] = run'[r] /\ row'[r].state = to
               /\ row'[r].version = run[r].version + 1 /\ row'[r].switched = run[r].switched
  <1> DEFINE new == Moved(run[r], to)
  <1>1. run[r] \in RowType /\ row[r] \in RowType
    BY DEF TypeOK
  <1>2. /\ new \in RowType /\ new.state = to /\ new.version = run[r].version + 1
        /\ new.switched = run[r].switched
    BY <1>1, MovedDoes
  <1> HIDE DEF new
  <1>3. CASE CanTransition(run[r].state, to) /\ Accepted(r, new)
    <2>1. row' = [row EXCEPT ![r] = new] /\ run' = [run EXCEPT ![r] = new]
      BY <1>3 DEF Saved, new
    <2>2. run[r].version = row[r].version
      BY <1>1, <1>2, <1>3 DEF Accepted, RowType
    <2> QED BY <1>2, <1>3, <2>1, <2>2 DEF RowsTyped, TypeOK
  <1>4. CASE ~(CanTransition(run[r].state, to) /\ Accepted(r, new))
    <2>1. row' = row /\ run' = run
      BY <1>4 DEF Saved, new
    <2>2. Accepted(r, new) \/ run[r].version # row[r].version
      BY <1>1, <1>2 DEF Accepted, RowType
    <2> QED BY <1>4, <2>1, <2>2 DEF RowsTyped, TypeOK
  <1> QED BY <1>3, <1>4

-----------------------------------------------------------------------------
(* What a group of steps leaves alone.                                     *)

\* Preparing a route touches neither the slot nor the calls.
LEMMA PreparingLeaves ==
  ASSUME NEW r \in Runs, Preparing(r)
  PROVE  UNCHANGED <<context, timeUp, turn, clicks, approval, granted, record, effects, child,
                     reviews, faults>>
  BY SMTT(40) DEF Preparing, Enqueue, Register, Admit, SetupDone, SetupFails, SwitchRoute,
     AuditSwitch, PersistBudget, AssembleContext, store

\* A model's turn writes no row and no approval.
LEMMA ModelTurnLeaves ==
  ASSUME NEW r \in Runs, ModelTurn(r)
  PROVE  UNCHANGED <<row, run, context, clicks, approval, granted, effects, child, reviews, faults>>
  BY DEF ModelTurn, BeginRun, BeginStep, AcquireTurn, AcquireFails, TextDelta, ProposeCall,
         CallDuringStream, EndStream, StreamFails, store

\* A tool call leaves the child runs alone.
LEMMA ToolCallLeaves ==
  ASSUME NEW r \in Runs, ToolCall(r)
  PROVE  UNCHANGED <<context, overdue, child, reviews, faults>>
  BY DEF ToolCall, Authorize, CreateApproval, RegisterApproval, AnnounceApproval, BeginWait,
         TakeAnswer, TakeExpiry, WaitEnds, RecordAnswer, RecordExpiry, ReportDenial, LaunchTool,
         ExecuteTool, ReportTool, store, clicks

\* A subagent's life leaves its parent's rows and approvals alone.
LEMMA DelegationLeaves ==
  ASSUME NEW r \in Runs, Delegation(r)
  PROVE  UNCHANGED <<row, run, context, timeUp, clicks, approval, granted, record, shown,
                     reviews, faults>>
  BY DEF Delegation, FindDelegation, QueueChild, StartChild, MovePair, AcquireChildTurn,
         AcquireChildFails, ChildTurnEnds, CompleteChild, FailChild, CancelChild, store

\* An ending run leaves the calls and the slot alone.
LEMMA EndingLeaves ==
  ASSUME NEW r \in Runs, Ending(r)
  PROVE  UNCHANGED <<context, timeUp, turn, overdue, approval, granted, record, effects, child,
                     faults>>
  BY DEF Ending, LeaveRoute, SaveSegments, CompleteRun, FailRun, RecordCancelled, Tell, Finish,
         store, clicks

\* A tool call that ends its run.
LEMMA AbandonedDoes ==
  ASSUME TypeOK, NEW r \in Runs, NEW c \in Causes, Abandoned(r, c)
  PROVE  /\ TaskTyped /\ task'[r].pc = "aborted" /\ task'[r].cause = c /\ Keeps(r)
         /\ ShownTyped
         /\ task[r].attempt = 1 => shown' = shown
         /\ task[r].attempt = 2 =>
              \E x \in {"cancelled", "error"} : shown'[r] = Ended(Closed(shown[r]), x)
         /\ timeUp' = [timeUp EXCEPT ![r] = FALSE]
         /\ IF task[r].stream = "interactive" THEN ReleaseTurn(r) ELSE UNCHANGED turn
  <1>1. Fails(r, c)
    BY DEF Abandoned
  <1>2. timeUp' = [timeUp EXCEPT ![r] = FALSE]
    BY <1>1 DEF Fails
  <1> QED BY <1>1, <1>2, FailsDoes DEF Abandoned

-----------------------------------------------------------------------------
(* Types.                                                                  *)

\* A call during the stream goes to executeTool, or there are too many of them.
LEMMA CallDuringStreamDoes ==
  ASSUME TypeOK, NEW r \in Runs, CallDuringStream(r)
  PROVE  /\ TaskTyped /\ KeepsRoute(r) /\ task'[r].held = task[r].held
         /\ task'[r].seen = task[r].seen /\ At(r, "stream") /\ task[r].stream = "interactive"
         /\ \/ /\ task'[r].pc = "tool" /\ task'[r].call \in task[r].todo /\ task'[r].todo = {}
               /\ task'[r].cause = task[r].cause /\ UNCHANGED <<timeUp, shown, turn>>
            \/ Fails(r, "error") /\ ReleaseTurn(r)
  <1>1. PICK c \in task[r].todo :
          IF task[r].used < MaxToolCalls
          THEN /\ task' = [task EXCEPT ![r].pc = "tool", ![r].call = c, ![r].todo = {},
                                       ![r].used = @ + 1]
               /\ UNCHANGED <<timeUp, shown, turn>>
          ELSE Fails(r, "error") /\ ReleaseTurn(r)
    BY DEF CallDuringStream
  <1>2. At(r, "stream") /\ task[r].stream = "interactive"
    BY DEF CallDuringStream
  <1>3. CASE task[r].used < MaxToolCalls
    <2> DEFINE n == task[r].used + 1
               S == {}
    <2>1. task[r].used \in Nat /\ c \in Calls /\ S \in SUBSET Calls
      BY <1>1, TaskHere, LimitsAssumption DEF TaskType
    <2>2. n \in 0..MaxToolCalls
      BY <1>3, <2>1, LimitsAssumption
    <2>3. task' = [task EXCEPT ![r].pc = "tool", ![r].call = c, ![r].todo = S, ![r].used = n]
      BY <1>1, <1>3 DEF TypeOK, TaskType
    <2> HIDE DEF n, S
    <2>4. /\ TaskTyped /\ task'[r].pc = "tool" /\ task'[r].cause = task[r].cause
          /\ task'[r].call = c /\ task'[r].todo = S /\ task'[r].seen = task[r].seen
          /\ KeepsRoute(r) /\ task'[r].held = task[r].held
      BY <2>1, <2>2, <2>3, CallBegins
    <2> QED BY <1>1, <1>2, <1>3, <2>4 DEF S
  <1>4. CASE ~(task[r].used < MaxToolCalls)
    <2>1. Fails(r, "error") /\ ReleaseTurn(r)
      BY <1>1, <1>4
    <2> QED BY <1>2, <2>1, FailsDoes DEF Causes, Keeps, KeepsTools
  <1> QED BY <1>3, <1>4

\* A stream's end: another step, the answer, the calls of the turn, or a failure.
LEMMA EndStreamDoes ==
  ASSUME TypeOK, NEW r \in Runs, CollectedIsFinite(r), EndStream(r)
  PROVE  /\ TaskTyped /\ KeepsRoute(r) /\ task'[r].seen = task[r].seen
         /\ task'[r].todo = task[r].todo /\ At(r, "stream") /\ ReleaseTurn(r)
         /\ \/ /\ task'[r].pc = "step" /\ task'[r].cause = task[r].cause
               /\ task'[r].held = task[r].held /\ UNCHANGED <<timeUp, shown>>
            \/ /\ task'[r].pc = "segments" /\ task'[r].cause = task[r].cause /\ ~task'[r].held
               /\ timeUp' = [timeUp EXCEPT ![r] = FALSE]
               /\ shown' = [shown EXCEPT ![r] = Closed(Passed(r, @))]
            \/ /\ task'[r].pc = "tool" /\ task'[r].cause = task[r].cause
               /\ task'[r].call \in task[r].todo /\ task[r].stream = "plain"
               /\ task'[r].held = task[r].held /\ UNCHANGED <<timeUp, shown>>
            \/ Fails(r, "error")
  <1> DEFINE calls == Collected(r)
             n == task[r].used + Cardinality(calls)
  <1>1. At(r, "stream") /\ ReleaseTurn(r)
    BY DEF EndStream
  <1>2. CASE /\ task' = [task EXCEPT ![r].pc = "step", ![r].misses = 1]
             /\ UNCHANGED <<timeUp, shown>>
    BY <1>1, <1>2, MissDoes DEF Keeps, KeepsTools
  <1>3. CASE /\ task' = [task EXCEPT ![r].pc = "segments", ![r].held = FALSE]
             /\ timeUp' = [timeUp EXCEPT ![r] = FALSE]
             /\ shown' = [shown EXCEPT ![r] = Closed(Passed(r, @))]
    <2>1. "segments" \in Places
      BY DEF Places
    <2> QED BY <1>1, <1>3, <2>1, HeldSetDoes DEF KeepsTools
  <1>4. CASE /\ Affordable(r) /\ UNCHANGED <<timeUp, shown>>
             /\ \E c \in calls :
                  task' = [task EXCEPT ![r].pc = "tool", ![r].call = c, ![r].used = n]
    <2>1. PICK c \in calls :
            task' = [task EXCEPT ![r].pc = "tool", ![r].call = c, ![r].used = n]
      BY <1>4
    <2>2. task[r].stream = "plain" /\ calls = task[r].todo
      BY <2>1 DEF Collected
    <2>3. task[r].used \in Nat /\ c \in Calls /\ task[r].todo \in SUBSET Calls
      BY <2>1, <2>2, TaskHere, LimitsAssumption DEF TaskType
    <2>4. Cardinality(calls) \in Nat
      BY <2>2, FS_CardinalityType DEF CollectedIsFinite
    <2>5. n \in 0..MaxToolCalls
      BY <1>4, <2>3, <2>4, LimitsAssumption DEF Affordable
    <2> HIDE DEF n
    <2>6. /\ TaskTyped /\ task'[r].pc = "tool" /\ task'[r].cause = task[r].cause
          /\ task'[r].call = c /\ task'[r].todo = task[r].todo /\ task'[r].seen = task[r].seen
          /\ KeepsRoute(r) /\ task'[r].held = task[r].held
      BY <2>1, <2>3, <2>5, CallsBegin
    <2> QED BY <1>1, <1>4, <2>1, <2>2, <2>6
  <1>5. CASE Fails(r, "error")
    BY <1>1, <1>5, FailsDoes DEF Causes, Keeps, KeepsTools
  <1> QED BY <1>2, <1>3, <1>4, <1>5 DEF EndStream

-----------------------------------------------------------------------------
(* What the front end is sent.                                             *)

\* One run's events are written, with a record of the right kind.
LEMMA ShownWritten ==
  ASSUME TypeOK, NEW r \in Runs, NEW new \in ShownType, shown' = [shown EXCEPT ![r] = new]
  PROVE  ShownTyped /\ shown'[r] = new
  BY DEF TypeOK, ShownTyped

\* An event before the last one.
GoesOn(r) ==
  /\ ShownTyped /\ shown'[r].output = shown[r].output
  /\ shown'[r].terminal = shown[r].terminal
  /\ shown[r].terminal = "none" => shown'[r].after = shown[r].after

\* Silence goes on.
LEMMA NothingSent == ASSUME TypeOK, NEW r \in Runs, shown' = shown PROVE GoesOn(r)
  BY DEF GoesOn, TypeOK, ShownTyped

\* What the owner sees of a run is of the right kind.
LEMMA ShownHere == ASSUME TypeOK, NEW r \in Runs PROVE shown[r] \in ShownType
  BY DEF TypeOK

\* A failed setup tells nothing more than its notice.
LEMMA SetupFailsTells == ASSUME TypeOK, NEW r \in Runs, SetupFails(r) PROVE GoesOn(r)
  <1>1. CASE shown' = shown
    BY <1>1, NothingSent
  <1>2. CASE shown' = [shown EXCEPT ![r] = [Sent(@) EXCEPT !.started = TRUE]]
    <2> DEFINE u == Sent(shown[r])
               new == [u EXCEPT !.started = TRUE]
    <2>1. u \in ShownType /\ u.output = shown[r].output /\ u.terminal = shown[r].terminal
            /\ (shown[r].terminal = "none" => u.after = shown[r].after)
      BY ShownHere, SentDoes
    <2>2. shown' = [shown EXCEPT ![r] = new]
      BY <1>2 DEF TypeOK
    <2> HIDE DEF u
    <2>3. /\ new \in ShownType /\ new.output = u.output /\ new.terminal = u.terminal
          /\ new.after = u.after
      BY <2>1 DEF ShownType
    <2> HIDE DEF new
    <2> QED BY <2>1, <2>2, <2>3, ShownWritten DEF GoesOn
  <1> QED BY <1>1, <1>2 DEF SetupFails

\* An event sent leaves nothing waiting.
LEMMA SentTells ==
  ASSUME TypeOK, NEW r \in Runs, shown' = [shown EXCEPT ![r] = Sent(@)]
  PROVE  GoesOn(r) /\ ~shown'[r].pending /\ shown'[r].segment = shown[r].segment
  <1>1. shown' = [shown EXCEPT ![r] = Sent(shown[r])]
    OBVIOUS
  <1> QED BY <1>1, ShownHere, SentDoes, ShownWritten, ZenonT(60) DEF GoesOn

\* Text is no last event.
LEMMA TextDeltaTells ==
  ASSUME TypeOK, NEW r \in Runs, TextDelta(r), shown[r].terminal = "none"
  PROVE  ShownTyped /\ shown'[r].terminal = "none" /\ shown'[r].after = shown[r].after
  <1> DEFINE u == Passed(r, shown[r])
             b == u.after \/ shown[r].terminal # "none"
             new == [u EXCEPT !.output = TRUE, !.segment = TRUE, !.pending = TRUE, !.after = b]
  <1>1. u \in ShownType /\ u.terminal = "none" /\ u.after = shown[r].after
    BY ShownHere, PassedDoes
  <1>2. shown' = [shown EXCEPT ![r] = new]
    BY DEF TextDelta, Buffered
  <1>3. b \in BOOLEAN /\ b = u.after
    BY <1>1 DEF ShownType
  <1> HIDE DEF u, b
  <1>4. new \in ShownType /\ new.terminal = u.terminal /\ new.after = b
    BY <1>1, <1>3 DEF ShownType
  <1> HIDE DEF new
  <1> QED BY <1>1, <1>2, <1>3, <1>4, ShownWritten

\* A call proposed is no last event.
LEMMA ProposeCallTells ==
  ASSUME TypeOK, NEW r \in Runs, NEW c \in Calls, ProposeCall(r, c), shown[r].terminal = "none"
  PROVE  GoesOn(r)
  <1> DEFINE u == Passed(r, shown[r])
             v == Closed(u)
             new == Sent(v)
  <1>1. /\ u \in ShownType /\ u.output = shown[r].output /\ u.terminal = "none"
        /\ u.after = shown[r].after
    BY ShownHere, PassedDoes
  <1>2. shown' = [shown EXCEPT ![r] = new]
    BY DEF ProposeCall
  <1> HIDE DEF u
  <1>3. v \in ShownType /\ v.output = u.output /\ v.terminal = "none" /\ v.after = u.after
    BY <1>1, ClosedDoes
  <1> HIDE DEF v
  <1>4. new \in ShownType /\ new.output = v.output /\ new.terminal = "none" /\ new.after = v.after
    BY <1>3, SentDoes
  <1> HIDE DEF new
  <1> QED BY <1>1, <1>2, <1>3, <1>4, ShownWritten DEF GoesOn

\* The answer whole, the last event is still to come.
LEMMA AnswerTells ==
  ASSUME TypeOK, NEW r \in Runs, shown[r].terminal = "none",
         shown' = [shown EXCEPT ![r] = Closed(Passed(r, @))]
  PROVE  GoesOn(r)
  <1> DEFINE u == Passed(r, shown[r])
             new == Closed(u)
  <1>1. /\ u \in ShownType /\ u.output = shown[r].output /\ u.terminal = "none"
        /\ u.after = shown[r].after
    BY ShownHere, PassedDoes
  <1>2. shown' = [shown EXCEPT ![r] = new]
    OBVIOUS
  <1> HIDE DEF u
  <1>3. new \in ShownType /\ new.output = u.output /\ new.terminal = "none" /\ new.after = u.after
    BY <1>1, ClosedDoes
  <1> HIDE DEF new
  <1> QED BY <1>1, <1>2, <1>3, ShownWritten DEF GoesOn

\* Leaving a route sends only what was held.
LEMMA LeaveRouteTells ==
  ASSUME TypeOK, NEW r \in Runs, LeaveRoute(r)
  PROVE  GoesOn(r) /\ shown'[r].segment = shown[r].segment
           /\ (~task[r].held => shown'[r] = shown[r])
  <1>1. shown' = [shown EXCEPT ![r] = Passed(r, shown[r])]
    BY DEF LeaveRoute
  <1> DEFINE new == Passed(r, shown[r])
  <1>2. /\ new \in ShownType /\ new.output = shown[r].output
        /\ new.terminal = shown[r].terminal /\ new.segment = shown[r].segment
        /\ shown[r].terminal = "none" => new.after = shown[r].after
        /\ ~task[r].held => new = shown[r]
    BY ShownHere, PassedDoes
  <1> HIDE DEF new
  <1> QED BY <1>1, <1>2, ShownWritten DEF GoesOn, new

\* Tell sends the last event that fits the cause.
LEMMA TellTells ==
  ASSUME TypeOK, NEW r \in Runs, Tell(r)
  PROVE  /\ ShownTyped
         /\ task[r].cause = "none" => shown'[r] = Ended(Closed(shown[r]), "complete")
         /\ task[r].cause # "none" =>
              \E x \in {"cancelled", "error"} : shown'[r] = Ended(Closed(shown[r]), x)
  <1> DEFINE x == CASE task[r].cause = "none" -> "complete"
                    [] task[r].cause = "cancelled" -> "cancelled"
                    [] task[r].cause \in {"eligible", "error"} -> "error"
             new == Ended(Closed(shown[r]), x)
  <1>1. task[r].cause \in Causes
    BY TaskHere DEF TaskType
  <1>2. /\ x \in Ends
        /\ task[r].cause = "none" => x = "complete"
        /\ task[r].cause # "none" => x \in {"cancelled", "error"}
    BY <1>1 DEF Causes, Ends
  <1>3. shown' = [shown EXCEPT ![r] = new]
    BY DEF Tell
  <1> HIDE DEF x
  <1>4. new \in ShownType
    BY <1>2, ShownHere, ClosedDoes, EndedDoes
  <1>5. ShownTyped /\ shown'[r] = new
    BY <1>3, <1>4, ShownWritten
  <1> QED BY <1>2, <1>5

\* The deferred calls send a last event only where there was none.
LEMMA FinishTells ==
  ASSUME TypeOK, NEW r \in Runs, Finish(r)
  PROVE  /\ ShownTyped
         /\ shown[r].terminal # "none" /\ ~shown[r].pending /\ ~shown[r].segment =>
              shown'[r] = shown[r]
         /\ shown[r].terminal = "none" => shown'[r].terminal # "none"
  <1> DEFINE x == IF context[r] = "cancelled" THEN "cancelled" ELSE "error"
             u == Flushed(shown[r])
             v == Closed(u)
             new == Ended(v, x)
  <1>1. x \in Ends /\ x # "none"
    BY DEF Ends
  <1>2. shown' = [shown EXCEPT ![r] = new]
    BY DEF Finish
  <1>3. /\ u \in ShownType /\ u.terminal = shown[r].terminal
        /\ ~shown[r].pending => u = shown[r]
    BY ShownHere, FlushedDoes
  <1> HIDE DEF u, x
  <1>4. v \in ShownType /\ v.terminal = u.terminal /\ (~u.segment => v = u)
    BY <1>3, ClosedDoes
  <1> HIDE DEF v
  <1>5. /\ new \in ShownType /\ (v.terminal # "none" => new = v)
        /\ v.terminal = "none" => new.terminal = x
    BY <1>1, <1>4, EndedDoes
  <1> HIDE DEF new
  <1>6. ShownTyped /\ shown'[r] = new
    BY <1>2, <1>5, ShownWritten
  <1> QED BY <1>1, <1>3, <1>4, <1>5, <1>6

-----------------------------------------------------------------------------
(* What becomes of the row.                                                *)

RowsKept == row' = row /\ run' = run

\* Both copies of a run's row are of the right kind.
LEMMA RowHere == ASSUME TypeOK, NEW r \in Runs PROVE row[r] \in RowType /\ run[r] \in RowType
  BY DEF TypeOK

\* A row is written again: its version is raised and its state kept.
LEMMA RaisedDoes ==
  ASSUME NEW old \in RowType
  PROVE  /\ [old EXCEPT !.version = @ + 1] \in RowType
         /\ [old EXCEPT !.version = @ + 1].version = old.version + 1
         /\ [old EXCEPT !.version = @ + 1].state = old.state
         /\ [old EXCEPT !.version = @ + 1].switched = old.switched
         /\ [old EXCEPT !.version = @ + 1, !.switched = TRUE] \in RowType
         /\ [old EXCEPT !.version = @ + 1, !.switched = TRUE].version = old.version + 1
         /\ [old EXCEPT !.version = @ + 1, !.switched = TRUE].state = old.state
         /\ [old EXCEPT !.version = @ + 1, !.switched = TRUE].switched
  <1> DEFINE n == old.version + 1
  <1>1. n \in Nat
    BY DEF RowType
  <1>2. /\ [old EXCEPT !.version = n] \in RowType
        /\ [old EXCEPT !.version = n, !.switched = TRUE] \in RowType
    <2> HIDE DEF n
    <2> QED BY <1>1 DEF RowType
  <1>3. /\ [old EXCEPT !.version = n].version = n
        /\ [old EXCEPT !.version = n].state = old.state
        /\ [old EXCEPT !.version = n].switched = old.switched
        /\ [old EXCEPT !.version = n, !.switched = TRUE].version = n
        /\ [old EXCEPT !.version = n, !.switched = TRUE].state = old.state
        /\ [old EXCEPT !.version = n, !.switched = TRUE].switched
    BY DEF RowType
  <1> QED BY <1>2, <1>3

\* The switch is saved over the row it read, or the run fails.
LEMMA SwitchRouteDoes ==
  ASSUME TypeOK, NEW r \in Runs, SwitchRoute(r)
  PROVE  /\ RowsTyped /\ run' = run /\ At(r, "switch")
         /\ \/ Failing(r, DeadCause(r)) /\ row' = row
            \/ /\ Goto(r, "audit") /\ run[r].version = row[r].version /\ ~run[r].switched
               /\ row'[r].state = run[r].state /\ row'[r].version = run[r].version + 1
               /\ row'[r].switched
               /\ row' = [row EXCEPT ![r] = row'[r]]
  <1> DEFINE new == [run[r] EXCEPT !.version = @ + 1, !.switched = TRUE]
  <1>1. /\ new \in RowType /\ new.version = run[r].version + 1 /\ new.state = run[r].state
        /\ new.switched
    BY RowHere, RaisedDoes
  <1>2. At(r, "switch") /\ run' = run
    BY DEF SwitchRoute
  <1>3. CASE Failing(r, DeadCause(r)) /\ row' = row
    BY <1>2, <1>3 DEF RowsTyped, TypeOK
  <1>4. CASE Goto(r, "audit") /\ row' = [row EXCEPT ![r] = new] /\ Accepted(r, new)
               /\ ~run[r].switched
    <2> HIDE DEF new
    <2>1. run[r].version = row[r].version
      BY <1>1, <1>4, RowHere DEF Accepted, RowType
    <2>2. row' \in [Runs -> RowType] /\ row'[r] = new
      BY <1>1, <1>4 DEF TypeOK
    <2> QED BY <1>1, <1>2, <1>4, <2>1, <2>2 DEF RowsTyped, TypeOK
  <1> QED BY <1>3, <1>4 DEF SwitchRoute

\* The switch saved, the copy follows the row.
LEMMA AuditSwitchDoes ==
  ASSUME TypeOK, NEW r \in Runs, AuditSwitch(r)
  PROVE  /\ RowsTyped /\ row' = row /\ At(r, "audit")
         /\ \/ context[r] = "cancelled" /\ Failing(r, "cancelled") /\ run' = run /\ shown' = shown
            \/ /\ context[r] # "cancelled"
               /\ run'[r].state = run[r].state /\ run'[r].version = run[r].version + 1
               /\ run'[r].switched /\ shown' = [shown EXCEPT ![r] = Sent(@)]
  <1> DEFINE new == [run[r] EXCEPT !.version = @ + 1, !.switched = TRUE]
  <1>1. /\ new \in RowType /\ new.version = run[r].version + 1 /\ new.state = run[r].state
        /\ new.switched
    BY RowHere, RaisedDoes
  <1>2. At(r, "audit") /\ row' = row
    BY DEF AuditSwitch, store
  <1>3. CASE context[r] = "cancelled"
    BY <1>2, <1>3 DEF AuditSwitch, RowsTyped, TypeOK
  <1>4. CASE context[r] # "cancelled"
    <2>1. run' = [run EXCEPT ![r].version = @ + 1, ![r].switched = TRUE]
      BY <1>4 DEF AuditSwitch
    <2>2. run' = [run EXCEPT ![r] = new]
      BY <2>1 DEF TypeOK
    <2> HIDE DEF new
    <2>3. run' \in [Runs -> RowType] /\ run'[r] = new
      BY <1>1, <2>2 DEF TypeOK
    <2> QED BY <1>1, <1>2, <1>4, <2>3 DEF AuditSwitch, RowsTyped, TypeOK
  <1> QED BY <1>3, <1>4

\* The budget is saved in both copies, or in the copy alone and the run fails.
LEMMA PersistBudgetDoes ==
  ASSUME TypeOK, NEW r \in Runs, PersistBudget(r)
  PROVE  /\ RowsTyped /\ At(r, "budget")
         /\ \/ Prepared(r) /\ RowsKept
            \/ /\ Failing(r, DeadCause(r)) /\ row' = row
               /\ run'[r].state = run[r].state /\ run'[r].version = run[r].version + 1
            \/ /\ Prepared(r) /\ row'[r] = run'[r] /\ run[r].version = row[r].version
               /\ row'[r].state = run[r].state /\ row'[r].version = run[r].version + 1
               /\ row'[r].switched = run[r].switched
               /\ row' = [row EXCEPT ![r] = row'[r]]
  <1> DEFINE new == [run[r] EXCEPT !.version = @ + 1]
  <1>1. /\ new \in RowType /\ new.version = run[r].version + 1 /\ new.state = run[r].state
        /\ new.switched = run[r].switched
    BY RowHere, RaisedDoes
  <1>2. At(r, "budget")
    BY DEF PersistBudget
  <1>3. CASE Prepared(r) /\ UNCHANGED <<row, run>>
    BY <1>2, <1>3 DEF RowsTyped, RowsKept, TypeOK
  <1>4. CASE run' = [run EXCEPT ![r] = new] /\ Failing(r, DeadCause(r)) /\ UNCHANGED row
    <2> HIDE DEF new
    <2>1. run' \in [Runs -> RowType] /\ run'[r] = new
      BY <1>1, <1>4 DEF TypeOK
    <2> QED BY <1>1, <1>2, <1>4, <2>1 DEF RowsTyped, TypeOK
  <1>5. CASE /\ run' = [run EXCEPT ![r] = new] /\ Prepared(r) /\ Accepted(r, new)
             /\ row' = [row EXCEPT ![r] = new]
    <2> HIDE DEF new
    <2>1. run[r].version = row[r].version
      BY <1>1, <1>5, RowHere DEF Accepted, RowType
    <2>2. /\ run' \in [Runs -> RowType] /\ run'[r] = new
          /\ row' \in [Runs -> RowType] /\ row'[r] = new
      BY <1>1, <1>5 DEF TypeOK
    <2> QED BY <1>1, <1>2, <1>5, <2>1, <2>2 DEF RowsTyped, TypeOK
  <1> QED BY <1>3, <1>4, <1>5 DEF PersistBudget

\* The failure is saved by the way that fits its cause, or not at all.
LEMMA FailRunDoes ==
  ASSUME TypeOK, NEW r \in Runs, FailRun(r)
  PROVE  /\ TaskTyped /\ Keeps(r) /\ At(r, "fail")
         /\ \/ task'[r].cause = "cancelled" /\ task'[r].pc = "cancelled"
                 /\ run[r].state \notin Terminal
            \/ task'[r].cause = "cancelled" /\ task'[r].pc = "told" /\ run[r].state \in Terminal
            \/ task'[r].cause = "error" /\ task'[r].pc = "told"
         /\ run[r].state \in {"running", "waiting_approval"} =>
              Saved(r, IF task'[r].cause = "cancelled" THEN "cancelling" ELSE "failed")
         /\ run[r].state \notin {"running", "waiting_approval"} => RowsKept
  <1> DEFINE cancelled == "cancelled" \in {task[r].cause, context[r]}
             over == run[r].state \in Terminal
             p == IF cancelled /\ ~over THEN "cancelled" ELSE "told"
             c == IF cancelled THEN "cancelled" ELSE "error"
  <1>1. task' = [task EXCEPT ![r].pc = p, ![r].cause = c] /\ At(r, "fail")
    BY DEF FailRun
  <1>2. /\ run[r].state \in {"running", "waiting_approval"} =>
             Saved(r, IF cancelled THEN "cancelling" ELSE "failed")
        /\ run[r].state \notin {"running", "waiting_approval"} => RowsKept
    BY DEF FailRun, RowsKept
  <1>3. /\ p \in Places /\ c \in Causes /\ (cancelled <=> c = "cancelled")
        /\ \/ c = "cancelled" /\ p = "cancelled" /\ ~over
           \/ c = "cancelled" /\ p = "told" /\ over
           \/ c = "error" /\ p = "told"
    BY DEF Places, Causes
  <1> HIDE DEF cancelled, p, c
  <1>4. TaskTyped /\ task'[r].pc = p /\ task'[r].cause = c /\ Keeps(r)
    BY <1>1, <1>3, CauseSetDoes
  <1>5. (IF cancelled THEN "cancelling" ELSE "failed")
          = (IF task'[r].cause = "cancelled" THEN "cancelling" ELSE "failed")
    BY <1>3, <1>4
  <1> QED BY <1>1, <1>2, <1>3, <1>4, <1>5

\* A route is left for the other one only unseen, first and for an eligible cause.
LEMMA LeaveRouteDoes ==
  ASSUME TypeOK, NEW r \in Runs, LeaveRoute(r)
  PROVE  /\ TaskTyped /\ KeepsRoute(r) /\ KeepsTools(r) /\ ~task'[r].held /\ At(r, "aborted")
         /\ task'[r].cause = task[r].cause
         /\ \/ /\ task'[r].pc = "switch" /\ task[r].attempt = 1 /\ ~task[r].committed
               /\ task[r].cause = "eligible"
            \/ task'[r].pc = "fail"
  <1> DEFINE p == IF /\ task[r].attempt = 1 /\ Fallback /\ ~task[r].committed
                     /\ task[r].cause = "eligible"
                  THEN "switch" ELSE "fail"
  <1>1. At(r, "aborted") /\ task' = [task EXCEPT ![r].pc = p, ![r].held = FALSE]
    BY DEF LeaveRoute
  <1>2. /\ p \in Places
        /\ \/ p = "switch" /\ task[r].attempt = 1 /\ ~task[r].committed /\ task[r].cause = "eligible"
           \/ p = "fail"
    BY DEF Places
  <1> HIDE DEF p
  <1> QED BY <1>1, <1>2, HeldSetDoes

\* A call is answered at once, launched, or put before the owner.
LEMMA AuthorizeDoes ==
  ASSUME NEW r \in Runs, Authorize(r)
  PROVE  /\ At(r, "tool")
         /\ \/ Dead(r) /\ Abandoned(r, DeadCause(r))
            \/ /\ ~Dead(r) /\ UNCHANGED <<timeUp, shown, turn>>
               /\ \/ Answered(r)
                  \/ Goto(r, "launch") /\ Call(r) \notin task[r].seen /\ Call(r) \notin Writes
                  \/ Goto(r, "ask") /\ Call(r) \notin task[r].seen
  BY DEF Authorize, Alive

\* A cause is one of those the code knows.
LEMMA CauseTyped == ASSUME TypeOK, NEW r \in Runs PROVE task[r].cause \in Causes
  BY TaskHere DEF TaskType

\* Every step writes locals of the right kind.
LEMMA TaskStep ==
  ASSUME TypeOK, NEW r \in Runs, CollectedIsFinite(r), Step(r)
  PROVE  TaskTyped
<1>1. CASE Preparing(r)
  <2>1. CASE Enqueue(r)
    BY <2>1, GotoDoes DEF Enqueue, Admit, Places
  <2>2. CASE Register(r)
    BY <2>2, GotoDoes DEF Register, Admit, Places
  <2>3. CASE SetupDone(r)
    BY <2>3, GotoDoes DEF SetupDone, Places
  <2>4. CASE SetupFails(r)
    BY <2>4, GotoDoes, FailingDoes DEF SetupFails, Places, Causes
  <2>5. CASE SwitchRoute(r)
    BY <2>5, GotoDoes, FailingDoes, DeadCauses, SMTT(40) DEF SwitchRoute, Places, Causes
  <2>6. CASE AuditSwitch(r)
    BY <2>6, FailingDoes, AuditSwitched DEF AuditSwitch, Causes
  <2>7. CASE PersistBudget(r)
    BY <2>7, GotoDoes, FailingDoes, DeadCauses DEF PersistBudget, Prepared, Places, Causes
  <2>8. CASE AssembleContext(r)
    BY <2>8, FailingDoes, DeadCauses, Assembled DEF AssembleContext, Causes
  <2> QED BY <1>1, <2>1, <2>2, <2>3, <2>4, <2>5, <2>6, <2>7, <2>8 DEF Preparing
<1>2. CASE ModelTurn(r)
  <2>1. CASE BeginRun(r)
    BY <2>1, BeginRunDoes, SMTT(40)
  <2>2. CASE BeginStep(r)
    BY <2>2, FailsDoes, DeadCauses, BeginStepDoes DEF BeginStep, Causes
  <2>3. CASE AcquireTurn(r)
    BY <2>3, GotoDoes DEF AcquireTurn, Places
  <2>4. CASE AcquireFails(r)
    BY <2>4, FailsDoes, DeadCauses DEF AcquireFails, Causes
  <2>5. CASE TextDelta(r)
    BY <2>5, TextDeltaDoes
  <2>6. CASE \E c \in CallsOf[r] : ProposeCall(r, c)
    BY <2>6, ProposeCallDoes, CallsAssumption DEF ProposeCall
  <2>7. CASE CallDuringStream(r)
    BY <2>7, CallDuringStreamDoes
  <2>8. CASE EndStream(r)
    BY <2>8, EndStreamDoes
  <2>9. CASE StreamFails(r)
    BY <2>9, FailsDoes, DeadCauses DEF StreamFails, Causes
  <2> QED BY <1>2, <2>1, <2>2, <2>3, <2>4, <2>5, <2>6, <2>7, <2>8, <2>9 DEF ModelTurn
<1>3. CASE ToolCall(r)
  <2>1. CASE Authorize(r)
    BY <2>1, GotoDoes, AbandonedDoes, AnsweredDoes, DeadCauses
       DEF Authorize, Alive, Places, Causes
  <2>2. CASE CreateApproval(r)
    BY <2>2, GotoDoes, AbandonedDoes, AnsweredDoes, DeadCauses
       DEF CreateApproval, Alive, Places, Causes
  <2>3. CASE RegisterApproval(r)
    BY <2>3, GotoDoes, AbandonedDoes, DeadCauses DEF RegisterApproval, Alive, Places, Causes
  <2>4. CASE AnnounceApproval(r)
    BY <2>4, GotoDoes, AbandonedDoes, DeadCauses DEF AnnounceApproval, Places, Causes
  <2>5. CASE BeginWait(r)
    BY <2>5, GotoDoes DEF BeginWait, Places
  <2>6. CASE TakeAnswer(r)
    BY <2>6, TakeAnswerDoes DEF TakeAnswer, Answers
  <2>7. CASE TakeExpiry(r)
    BY <2>7, GotoDoes DEF TakeExpiry, Places
  <2>8. CASE WaitEnds(r)
    BY <2>8, AbandonedDoes, DeadCauses DEF WaitEnds, Causes
  <2>9. CASE RecordAnswer(r)
    BY <2>9, GotoDoes DEF RecordAnswer, Places
  <2>10. CASE RecordExpiry(r)
    BY <2>10, GotoDoes DEF RecordExpiry, Places
  <2>11. CASE ReportDenial(r)
    BY <2>11, AbandonedDoes, AnsweredDoes, DeadCauses DEF ReportDenial, Alive, Causes
  <2>12. CASE LaunchTool(r)
    BY <2>12, GotoDoes, AbandonedDoes, DeadCauses DEF LaunchTool, Alive, Places, Causes
  <2>13. CASE ExecuteTool(r)
    BY <2>13, RanDoes DEF ExecuteTool
  <2>14. CASE ReportTool(r)
    BY <2>14, AbandonedDoes, AnsweredDoes, DeadCauses, CauseTyped DEF ReportTool, Alive, Causes
  <2> QED BY <1>3, <2>1, <2>2, <2>3, <2>4, <2>5, <2>6, <2>7, <2>8, <2>9, <2>10, <2>11, <2>12,
       <2>13, <2>14 DEF ToolCall
<1>4. CASE Delegation(r)
  <2>1. CASE FindDelegation(r)
    BY <2>1, GotoDoes, RanDoes DEF FindDelegation, ChildAbsent, Places
  <2>2. CASE QueueChild(r)
    BY <2>2, GotoDoes, RanDoes DEF QueueChild, MovePair, Places
  <2>3. CASE StartChild(r)
    BY <2>3, GotoDoes, RanDoes DEF StartChild, MovePair, Places
  <2>4. CASE AcquireChildTurn(r)
    BY <2>4, AcquireChildTurnDoes DEF AcquireChildTurn
  <2>5. CASE AcquireChildFails(r)
    BY <2>5, ChildFailsDoes, DeadCauses DEF AcquireChildFails, Causes
  <2>6. CASE ChildTurnEnds(r)
    BY <2>6, GotoDoes, ChildFailsDoes, DeadCauses DEF ChildTurnEnds, Places, Causes
  <2>7. CASE CompleteChild(r)
    BY <2>7, RanDoes DEF CompleteChild
  <2>8. CASE FailChild(r)
    BY <2>8, GotoDoes, RanDoes DEF FailChild, Places
  <2>9. CASE CancelChild(r)
    BY <2>9, RanDoes DEF CancelChild
  <2> QED BY <1>4, <2>1, <2>2, <2>3, <2>4, <2>5, <2>6, <2>7, <2>8, <2>9 DEF Delegation
<1>5. CASE Ending(r)
  <2>1. CASE LeaveRoute(r)
    BY <2>1, LeaveRouteDoes
  <2>2. CASE SaveSegments(r)
    BY <2>2, GotoDoes, FailingDoes DEF SaveSegments, Places, Causes
  <2>3. CASE CompleteRun(r)
    BY <2>3, GotoDoes, FailingDoes, DeadCauses DEF CompleteRun, Places, Causes
  <2>4. CASE FailRun(r)
    BY <2>4, FailRunDoes
  <2>5. CASE RecordCancelled(r)
    BY <2>5, GotoDoes DEF RecordCancelled, Places
  <2>6. CASE Tell(r)
    BY <2>6, GotoDoes DEF Tell, Places
  <2>7. CASE Finish(r)
    BY <2>7, GotoDoes DEF Finish, Places
  <2> QED BY <1>5, <2>1, <2>2, <2>3, <2>4, <2>5, <2>6, <2>7 DEF Ending
<1> QED BY <1>1, <1>2, <1>3, <1>4, <1>5 DEF Step

\* Rows that agree in their fields are equal.
LEMMA RowsEqual ==
  ASSUME NEW a \in RowType, NEW b \in RowType,
         a.state = b.state, a.version = b.version, a.switched = b.switched
  PROVE  a = b
  BY DEF RowType

\* A step keeps CopyFits.
LEMMA CopyStep ==
  ASSUME TypeOK, NEW r \in Runs, CollectedIsFinite(r), CopyFits(r), Step(r)
  PROVE  CopyFits(r)'
<1>1. CASE Preparing(r)
  <2>1. CASE Enqueue(r)
    BY <2>1, GotoDoes, SavedDoes
       DEF Enqueue, Admit, Places, CopyFits, Leaving, At, store, RunStates
  <2>2. CASE Register(r)
    BY <2>2, GotoDoes, SavedDoes
       DEF Register, Admit, Places, CopyFits, Leaving, At, store, RunStates
  <2>3. CASE SetupDone(r)
    BY <2>3, GotoDoes DEF SetupDone, Places, CopyFits, Leaving, At, store
  <2>4. CASE SetupFails(r)
    BY <2>4, GotoDoes, FailingDoes DEF SetupFails, Places, Causes, CopyFits, Leaving, At, store
  <2>5. CASE SwitchRoute(r)
    <3>1. row[r] \in RowType /\ run[r] \in RowType /\ run[r] = row[r]
      BY <2>5, RowHere DEF SwitchRoute, CopyFits, At, Leaving
    <3>2. run[r].version # run[r].version + 1
      BY <3>1 DEF RowType
    <3>3. \/ task'[r].pc = "fail" /\ row' = row /\ run' = run
          \/ /\ task'[r].pc = "audit" /\ run' = run /\ row'[r].state = run[r].state
             /\ row'[r].version = run[r].version + 1 /\ row'[r].switched
      BY <2>5, GotoDoes, FailingDoes, DeadCauses, SwitchRouteDoes DEF Places, Causes
    <3> QED BY <3>1, <3>2, <3>3 DEF CopyFits, At, Leaving
  <2>6. CASE AuditSwitch(r)
    <3>1. row[r] \in RowType /\ run[r] \in RowType
      BY RowHere
    <3>2. CASE context[r] = "cancelled"
      <4>1. task'[r].pc = "fail" /\ run' = run /\ row' = row
        BY <2>6, <3>2, FailingDoes, AuditSwitchDoes DEF Causes
      <4> QED BY <2>6, <4>1 DEF CopyFits, AuditSwitch, At, Leaving
    <3>3. CASE context[r] # "cancelled"
      <4>1. /\ row[r].version = run[r].version + 1 /\ row[r].switched
            /\ row[r].state = run[r].state
        BY <2>6 DEF CopyFits, AuditSwitch, At
      <4>2. /\ row'[r] = row[r] /\ run'[r] \in RowType /\ run'[r].state = run[r].state
            /\ run'[r].version = run[r].version + 1 /\ run'[r].switched
        BY <2>6, <3>3, AuditSwitchDoes DEF RowsTyped
      <4>3. run'[r] = row'[r]
        BY <3>1, <4>1, <4>2, RowsEqual
      <4>4. task'[r].pc = "setup"
        BY <2>6, <3>3, AuditSwitched
      <4> QED BY <4>3, <4>4 DEF CopyFits, At
    <3> QED BY <3>2, <3>3
  <2>7. CASE PersistBudget(r)
    <3>1. row[r] \in RowType /\ run[r] \in RowType /\ run[r] = row[r]
      BY <2>7, RowHere DEF PersistBudget, CopyFits, At, Leaving
    <3>2. row[r].version # row[r].version + 1
      BY <3>1 DEF RowType
    <3>3. task'[r].pc \in {"begin", "context", "fail"}
      BY <2>7, GotoDoes, FailingDoes, DeadCauses DEF PersistBudget, Prepared, Places, Causes
    <3>4. CASE Prepared(r) /\ RowsKept
      BY <3>1, <3>3, <3>4 DEF CopyFits, RowsKept, At, Leaving
    <3>5. CASE /\ Failing(r, DeadCause(r)) /\ row' = row
               /\ run'[r].state = run[r].state /\ run'[r].version = run[r].version + 1
      <4>1. task'[r].pc = "fail"
        BY <3>5, FailingDoes, DeadCauses DEF Causes
      <4> QED BY <3>1, <3>2, <3>5, <4>1 DEF CopyFits, At, Leaving
    <3>6. CASE row'[r] = run'[r]
      BY <3>3, <3>6 DEF CopyFits, At
    <3> QED BY <2>7, <3>4, <3>5, <3>6, PersistBudgetDoes
  <2>8. CASE AssembleContext(r)
    BY <2>8, FailingDoes, DeadCauses, Assembled
       DEF AssembleContext, Causes, CopyFits, Leaving, At, store
  <2> QED BY <1>1, <2>1, <2>2, <2>3, <2>4, <2>5, <2>6, <2>7, <2>8 DEF Preparing
<1>2. CASE ModelTurn(r)
  <2>1. CASE BeginRun(r)
    BY <2>1, BeginRunDoes, ZenonT(60) DEF BeginRun, CopyFits, Leaving, At, store
  <2>2. CASE BeginStep(r)
    BY <2>2, FailsDoes, DeadCauses, BeginStepDoes
       DEF BeginStep, Causes, CopyFits, Leaving, At, store
  <2>3. CASE AcquireTurn(r)
    BY <2>3, GotoDoes DEF AcquireTurn, Places, CopyFits, Leaving, At, store
  <2>4. CASE AcquireFails(r)
    BY <2>4, FailsDoes, DeadCauses DEF AcquireFails, Causes, CopyFits, Leaving, At, store
  <2>5. CASE TextDelta(r)
    BY <2>5, TextDeltaDoes DEF TextDelta, Buffered, CopyFits, Leaving, At, store
  <2>6. CASE \E c \in CallsOf[r] : ProposeCall(r, c)
    BY <2>6, ProposeCallDoes, CallsAssumption, ZenonT(60) DEF ProposeCall, CopyFits, Leaving, At,
       store
  <2>7. CASE CallDuringStream(r)
    BY <2>7, CallDuringStreamDoes, FailsDoes, ZenonT(60) DEF CallDuringStream, Causes, CopyFits,
       Leaving, At, store
  <2>8. CASE EndStream(r)
    BY <2>8, EndStreamDoes, FailsDoes DEF EndStream, Causes, CopyFits, Leaving, At, store
  <2>9. CASE StreamFails(r)
    BY <2>9, FailsDoes, DeadCauses DEF StreamFails, Causes, CopyFits, Leaving, At, store
  <2> QED BY <1>2, <2>1, <2>2, <2>3, <2>4, <2>5, <2>6, <2>7, <2>8, <2>9 DEF ModelTurn
<1>3. CASE ToolCall(r)
  <2>1. CASE Authorize(r)
    BY <2>1, GotoDoes, AbandonedDoes, AnsweredDoes, DeadCauses
       DEF Authorize, Alive, Places, Causes, CopyFits, Leaving, At, store
  <2>2. CASE CreateApproval(r)
    BY <2>2, GotoDoes, AbandonedDoes, AnsweredDoes, DeadCauses
       DEF CreateApproval, Alive, Places, Causes, CopyFits, Leaving, At, store
  <2>3. CASE RegisterApproval(r)
    BY <2>3, GotoDoes, AbandonedDoes, DeadCauses
       DEF RegisterApproval, Alive, Places, Causes, CopyFits, Leaving, At, store
  <2>4. CASE AnnounceApproval(r)
    BY <2>4, GotoDoes, AbandonedDoes, DeadCauses
       DEF AnnounceApproval, Places, Causes, CopyFits, Leaving, At, store
  <2>5. CASE BeginWait(r)
    BY <2>5, GotoDoes, SavedDoes DEF BeginWait, Places, CopyFits, Leaving, At, store, RunStates
  <2>6. CASE TakeAnswer(r)
    BY <2>6, TakeAnswerDoes, SavedDoes
       DEF TakeAnswer, Answers, CopyFits, Leaving, At, store, RunStates
  <2>7. CASE TakeExpiry(r)
    BY <2>7, GotoDoes, SavedDoes DEF TakeExpiry, Places, CopyFits, Leaving, At, store, RunStates
  <2>8. CASE WaitEnds(r)
    BY <2>8, AbandonedDoes, DeadCauses DEF WaitEnds, Causes, CopyFits, Leaving, At, store
  <2>9. CASE RecordAnswer(r)
    BY <2>9, GotoDoes DEF RecordAnswer, Places, CopyFits, Leaving, At, store
  <2>10. CASE RecordExpiry(r)
    BY <2>10, GotoDoes DEF RecordExpiry, Places, CopyFits, Leaving, At, store
  <2>11. CASE ReportDenial(r)
    BY <2>11, AbandonedDoes, AnsweredDoes, DeadCauses
       DEF ReportDenial, Alive, Causes, CopyFits, Leaving, At, store
  <2>12. CASE LaunchTool(r)
    BY <2>12, GotoDoes, AbandonedDoes, DeadCauses
       DEF LaunchTool, Alive, Places, Causes, CopyFits, Leaving, At, store
  <2>13. CASE ExecuteTool(r)
    BY <2>13, RanDoes DEF ExecuteTool, CopyFits, Leaving, At, store
  <2>14. CASE ReportTool(r)
    BY <2>14, AbandonedDoes, AnsweredDoes, DeadCauses, CauseTyped
       DEF ReportTool, Alive, Causes, CopyFits, Leaving, At, store
  <2> QED BY <1>3, <2>1, <2>2, <2>3, <2>4, <2>5, <2>6, <2>7, <2>8, <2>9, <2>10, <2>11, <2>12,
       <2>13, <2>14 DEF ToolCall
<1>4. CASE Delegation(r)
  <2>1. CASE FindDelegation(r)
    BY <2>1, GotoDoes, RanDoes
       DEF FindDelegation, ChildAbsent, Places, CopyFits, Leaving, At, store
  <2>2. CASE QueueChild(r)
    BY <2>2, GotoDoes, RanDoes DEF QueueChild, MovePair, Places, CopyFits, Leaving, At, store
  <2>3. CASE StartChild(r)
    BY <2>3, GotoDoes, RanDoes DEF StartChild, MovePair, Places, CopyFits, Leaving, At, store
  <2>4. CASE AcquireChildTurn(r)
    BY <2>4, AcquireChildTurnDoes DEF AcquireChildTurn, CopyFits, Leaving, At, store
  <2>5. CASE AcquireChildFails(r)
    BY <2>5, ChildFailsDoes, DeadCauses
       DEF AcquireChildFails, Causes, CopyFits, Leaving, At, store
  <2>6. CASE ChildTurnEnds(r)
    BY <2>6, GotoDoes, ChildFailsDoes, DeadCauses
       DEF ChildTurnEnds, Places, Causes, CopyFits, Leaving, At, store
  <2>7. CASE CompleteChild(r)
    BY <2>7, RanDoes DEF CompleteChild, CopyFits, Leaving, At, store
  <2>8. CASE FailChild(r)
    BY <2>8, GotoDoes, RanDoes DEF FailChild, Places, CopyFits, Leaving, At, store
  <2>9. CASE CancelChild(r)
    BY <2>9, RanDoes DEF CancelChild, CopyFits, Leaving, At, store
  <2> QED BY <1>4, <2>1, <2>2, <2>3, <2>4, <2>5, <2>6, <2>7, <2>8, <2>9 DEF Delegation
<1>5. CASE Ending(r)
  <2>1. CASE LeaveRoute(r)
    BY <2>1, LeaveRouteDoes DEF LeaveRoute, CopyFits, Leaving, At, store
  <2>2. CASE SaveSegments(r)
    BY <2>2, GotoDoes, FailingDoes DEF SaveSegments, Places, Causes, CopyFits, Leaving, At, store
  <2>3. CASE CompleteRun(r)
    BY <2>3, GotoDoes, FailingDoes, DeadCauses, SavedDoes
       DEF CompleteRun, Places, Causes, CopyFits, Leaving, At, store, RunStates
  <2>4. CASE FailRun(r)
    <3>1. task'[r].pc \in {"cancelled", "told"}
      BY <2>4, FailRunDoes
    <3>2. (row' = row /\ run' = run) \/ row'[r] = run'[r]
      BY <2>4, FailRunDoes, SavedDoes DEF RowsKept, RunStates
    <3> QED BY <3>1, <3>2 DEF CopyFits, At, Leaving
  <2>5. CASE RecordCancelled(r)
    BY <2>5, GotoDoes, SavedDoes
       DEF RecordCancelled, Places, CopyFits, Leaving, At, store, RunStates
  <2>6. CASE Tell(r)
    BY <2>6, GotoDoes DEF Tell, Places, CopyFits, Leaving, At, store
  <2>7. CASE Finish(r)
    BY <2>7, GotoDoes DEF Finish, Places, CopyFits, Leaving, At, store
  <2> QED BY <1>5, <2>1, <2>2, <2>3, <2>4, <2>5, <2>6, <2>7 DEF Ending
<1> QED BY <1>1, <1>2, <1>3, <1>4, <1>5 DEF Step

\* A step keeps StateFits: every save moves the row to where the goroutine goes.
LEMMA StateStep ==
  ASSUME TypeOK, NEW r \in Runs, CollectedIsFinite(r), CopyFits(r), StateFits(r), CauseFits(r), Step(r)
  PROVE  StateFits(r)'
<1>1. CASE Preparing(r)
  <2>1. CASE Enqueue(r)
    BY <2>1, GotoDoes, SavedDoes
       DEF Enqueue, Admit, Places, StateFits, CopyFits, CauseFits, Working, Preparations,
           Answering, Tooling, Asking, Minding, Leaving, At, store, RunStates, CanTransition
  <2>2. CASE Register(r)
    BY <2>2, GotoDoes, SavedDoes
       DEF Register, Admit, Places, StateFits, CopyFits, CauseFits, Working, Preparations,
           Answering, Tooling, Asking, Minding, Leaving, At, store, RunStates, CanTransition
  <2>3. CASE SetupDone(r)
    BY <2>3, GotoDoes
       DEF SetupDone, Places, StateFits, CopyFits, CauseFits, Working, Preparations, Answering,
           Tooling, Asking, Minding, Leaving, At, store
  <2>4. CASE SetupFails(r)
    BY <2>4, GotoDoes, FailingDoes
       DEF SetupFails, Places, Causes, StateFits, CopyFits, CauseFits, Working, Preparations,
           Answering, Tooling, Asking, Minding, Leaving, At, store
  <2>5. CASE SwitchRoute(r)
    <3>1. row[r].state = "running" /\ run[r] = row[r]
      BY <2>5 DEF SwitchRoute, CopyFits, StateFits, Working, Preparations, Answering, Tooling,
           Asking, Minding, Leaving, At
    <3>2. row'[r].state = row[r].state /\ run' = run
      BY <2>5, <3>1, SwitchRouteDoes
    <3>3. task'[r].pc \in {"fail", "audit"}
      BY <2>5, GotoDoes, FailingDoes, DeadCauses, SwitchRouteDoes, SMTT(40) DEF Places, Causes
    <3> QED BY <3>1, <3>2, <3>3 DEF StateFits, Working, Preparations, Answering, Tooling,
         Asking, Minding, Leaving, At
  <2>6. CASE AuditSwitch(r)
    BY <2>6, FailingDoes, AuditSwitched, AuditSwitchDoes
       DEF AuditSwitch, Causes, StateFits, CopyFits, CauseFits, Working, Preparations, Answering,
           Tooling, Asking, Minding, Leaving, At, store
  <2>7. CASE PersistBudget(r)
    <3>1. row[r].state = "running" /\ run[r] = row[r]
      BY <2>7 DEF PersistBudget, CopyFits, StateFits, Working, Preparations, Answering, Tooling,
           Asking, Minding, Leaving, At
    <3>2. row'[r].state = row[r].state
      BY <2>7, <3>1, PersistBudgetDoes DEF RowsKept
    <3>3. task'[r].pc \in {"begin", "context", "fail"}
      BY <2>7, GotoDoes, FailingDoes, DeadCauses DEF PersistBudget, Prepared, Places, Causes
    <3> QED BY <3>1, <3>2, <3>3 DEF StateFits, Working, Preparations, Answering, Tooling,
         Asking, Minding, Leaving, At
  <2>8. CASE AssembleContext(r)
    BY <2>8, FailingDoes, DeadCauses, Assembled
       DEF AssembleContext, Causes, StateFits, CopyFits, CauseFits, Working, Preparations,
           Answering, Tooling, Asking, Minding, Leaving, At, store
  <2> QED BY <1>1, <2>1, <2>2, <2>3, <2>4, <2>5, <2>6, <2>7, <2>8 DEF Preparing
<1>2. CASE ModelTurn(r)
  <2>1. CASE BeginRun(r)
    BY <2>1, BeginRunDoes, ZenonT(60) DEF BeginRun, StateFits, CopyFits, CauseFits, Working,
       Preparations, Answering, Tooling, Asking, Minding, Leaving, At, store
  <2>2. CASE BeginStep(r)
    BY <2>2, FailsDoes, DeadCauses, BeginStepDoes
       DEF BeginStep, Causes, StateFits, CopyFits, CauseFits, Working, Preparations, Answering,
           Tooling, Asking, Minding, Leaving, At, store
  <2>3. CASE AcquireTurn(r)
    BY <2>3, GotoDoes
       DEF AcquireTurn, Places, StateFits, CopyFits, CauseFits, Working, Preparations, Answering,
           Tooling, Asking, Minding, Leaving, At, store
  <2>4. CASE AcquireFails(r)
    BY <2>4, FailsDoes, DeadCauses
       DEF AcquireFails, Causes, StateFits, CopyFits, CauseFits, Working, Preparations, Answering,
           Tooling, Asking, Minding, Leaving, At, store
  <2>5. CASE TextDelta(r)
    BY <2>5, TextDeltaDoes
       DEF TextDelta, Buffered, StateFits, CopyFits, CauseFits, Working, Preparations, Answering,
           Tooling, Asking, Minding, Leaving, At, store
  <2>6. CASE \E c \in CallsOf[r] : ProposeCall(r, c)
    BY <2>6, ProposeCallDoes, CallsAssumption, ZenonT(60) DEF ProposeCall, StateFits, CopyFits,
       CauseFits, Working, Preparations, Answering, Tooling, Asking, Minding, Leaving, At, store
  <2>7. CASE CallDuringStream(r)
    BY <2>7, CallDuringStreamDoes, FailsDoes, ZenonT(60) DEF CallDuringStream, Causes, StateFits,
       CopyFits, CauseFits, Working, Preparations, Answering, Tooling, Asking, Minding, Leaving,
       At, store
  <2>8. CASE EndStream(r)
    BY <2>8, EndStreamDoes, FailsDoes
       DEF EndStream, Causes, StateFits, CopyFits, CauseFits, Working, Preparations, Answering,
           Tooling, Asking, Minding, Leaving, At, store
  <2>9. CASE StreamFails(r)
    BY <2>9, FailsDoes, DeadCauses
       DEF StreamFails, Causes, StateFits, CopyFits, CauseFits, Working, Preparations, Answering,
           Tooling, Asking, Minding, Leaving, At, store
  <2> QED BY <1>2, <2>1, <2>2, <2>3, <2>4, <2>5, <2>6, <2>7, <2>8, <2>9 DEF ModelTurn
<1>3. CASE ToolCall(r)
  <2>1. CASE Authorize(r)
    BY <2>1, GotoDoes, AbandonedDoes, AnsweredDoes, DeadCauses
       DEF Authorize, Alive, Places, Causes, StateFits, CopyFits, CauseFits, Working,
           Preparations, Answering, Tooling, Asking, Minding, Leaving, At, store
  <2>2. CASE CreateApproval(r)
    BY <2>2, GotoDoes, AbandonedDoes, AnsweredDoes, DeadCauses
       DEF CreateApproval, Alive, Places, Causes, StateFits, CopyFits, CauseFits, Working,
           Preparations, Answering, Tooling, Asking, Minding, Leaving, At, store
  <2>3. CASE RegisterApproval(r)
    BY <2>3, GotoDoes, AbandonedDoes, DeadCauses
       DEF RegisterApproval, Alive, Places, Causes, StateFits, CopyFits, CauseFits, Working,
           Preparations, Answering, Tooling, Asking, Minding, Leaving, At, store
  <2>4. CASE AnnounceApproval(r)
    BY <2>4, GotoDoes, AbandonedDoes, DeadCauses
       DEF AnnounceApproval, Places, Causes, StateFits, CopyFits, CauseFits, Working,
           Preparations, Answering, Tooling, Asking, Minding, Leaving, At, store
  <2>5. CASE BeginWait(r)
    BY <2>5, GotoDoes, SavedDoes
       DEF BeginWait, Places, StateFits, CopyFits, CauseFits, Working, Preparations, Answering,
           Tooling, Asking, Minding, Leaving, At, store, RunStates, CanTransition
  <2>6. CASE TakeAnswer(r)
    <3>1. row[r].state = "waiting_approval" /\ run[r] = row[r]
      BY <2>6 DEF TakeAnswer, CopyFits, StateFits, Leaving, At
    <3>2. row'[r].state = "running"
      BY <2>6, <3>1, SavedDoes DEF TakeAnswer, CanTransition, RunStates
    <3>3. task'[r].pc = "decide"
      BY <2>6, TakeAnswerDoes
    <3> QED BY <3>2, <3>3 DEF StateFits, Working, Preparations, Answering, Tooling, Asking,
         Minding, Leaving, At
  <2>7. CASE TakeExpiry(r)
    BY <2>7, GotoDoes, SavedDoes
       DEF TakeExpiry, Places, StateFits, CopyFits, CauseFits, Working, Preparations, Answering,
           Tooling, Asking, Minding, Leaving, At, store, RunStates, CanTransition
  <2>8. CASE WaitEnds(r)
    BY <2>8, AbandonedDoes, DeadCauses
       DEF WaitEnds, Causes, StateFits, CopyFits, CauseFits, Working, Preparations, Answering,
           Tooling, Asking, Minding, Leaving, At, store
  <2>9. CASE RecordAnswer(r)
    BY <2>9, GotoDoes
       DEF RecordAnswer, Places, StateFits, CopyFits, CauseFits, Working, Preparations, Answering,
           Tooling, Asking, Minding, Leaving, At, store
  <2>10. CASE RecordExpiry(r)
    BY <2>10, GotoDoes
       DEF RecordExpiry, Places, StateFits, CopyFits, CauseFits, Working, Preparations, Answering,
           Tooling, Asking, Minding, Leaving, At, store
  <2>11. CASE ReportDenial(r)
    BY <2>11, AbandonedDoes, AnsweredDoes, DeadCauses
       DEF ReportDenial, Alive, Causes, StateFits, CopyFits, CauseFits, Working, Preparations,
           Answering, Tooling, Asking, Minding, Leaving, At, store
  <2>12. CASE LaunchTool(r)
    BY <2>12, GotoDoes, AbandonedDoes, DeadCauses
       DEF LaunchTool, Alive, Places, Causes, StateFits, CopyFits, CauseFits, Working,
           Preparations, Answering, Tooling, Asking, Minding, Leaving, At, store
  <2>13. CASE ExecuteTool(r)
    BY <2>13, RanDoes
       DEF ExecuteTool, StateFits, CopyFits, CauseFits, Working, Preparations, Answering, Tooling,
           Asking, Minding, Leaving, At, store
  <2>14. CASE ReportTool(r)
    BY <2>14, AbandonedDoes, AnsweredDoes, DeadCauses, CauseTyped
       DEF ReportTool, Alive, Causes, StateFits, CopyFits, CauseFits, Working, Preparations,
           Answering, Tooling, Asking, Minding, Leaving, At, store
  <2> QED BY <1>3, <2>1, <2>2, <2>3, <2>4, <2>5, <2>6, <2>7, <2>8, <2>9, <2>10, <2>11, <2>12,
       <2>13, <2>14 DEF ToolCall
<1>4. CASE Delegation(r)
  <2>1. CASE FindDelegation(r)
    BY <2>1, GotoDoes, RanDoes
       DEF FindDelegation, ChildAbsent, Places, StateFits, CopyFits, CauseFits, Working,
           Preparations, Answering, Tooling, Asking, Minding, Leaving, At, store
  <2>2. CASE QueueChild(r)
    BY <2>2, GotoDoes, RanDoes
       DEF QueueChild, MovePair, Places, StateFits, CopyFits, CauseFits, Working, Preparations,
           Answering, Tooling, Asking, Minding, Leaving, At, store
  <2>3. CASE StartChild(r)
    BY <2>3, GotoDoes, RanDoes
       DEF StartChild, MovePair, Places, StateFits, CopyFits, CauseFits, Working, Preparations,
           Answering, Tooling, Asking, Minding, Leaving, At, store
  <2>4. CASE AcquireChildTurn(r)
    BY <2>4, AcquireChildTurnDoes
       DEF AcquireChildTurn, StateFits, CopyFits, CauseFits, Working, Preparations, Answering,
           Tooling, Asking, Minding, Leaving, At, store
  <2>5. CASE AcquireChildFails(r)
    BY <2>5, ChildFailsDoes, DeadCauses
       DEF AcquireChildFails, Causes, StateFits, CopyFits, CauseFits, Working, Preparations,
           Answering, Tooling, Asking, Minding, Leaving, At, store
  <2>6. CASE ChildTurnEnds(r)
    BY <2>6, GotoDoes, ChildFailsDoes, DeadCauses
       DEF ChildTurnEnds, Places, Causes, StateFits, CopyFits, CauseFits, Working, Preparations,
           Answering, Tooling, Asking, Minding, Leaving, At, store
  <2>7. CASE CompleteChild(r)
    BY <2>7, RanDoes
       DEF CompleteChild, StateFits, CopyFits, CauseFits, Working, Preparations, Answering,
           Tooling, Asking, Minding, Leaving, At, store
  <2>8. CASE FailChild(r)
    BY <2>8, GotoDoes, RanDoes
       DEF FailChild, Places, StateFits, CopyFits, CauseFits, Working, Preparations, Answering,
           Tooling, Asking, Minding, Leaving, At, store
  <2>9. CASE CancelChild(r)
    BY <2>9, RanDoes
       DEF CancelChild, StateFits, CopyFits, CauseFits, Working, Preparations, Answering, Tooling,
           Asking, Minding, Leaving, At, store
  <2> QED BY <1>4, <2>1, <2>2, <2>3, <2>4, <2>5, <2>6, <2>7, <2>8, <2>9 DEF Delegation
<1>5. CASE Ending(r)
  <2>1. CASE LeaveRoute(r)
    <3>1. row' = row /\ run' = run
      BY <2>1 DEF LeaveRoute, store
    <3> QED BY <2>1, <3>1, LeaveRouteDoes DEF StateFits, Working, Preparations, Answering,
         Tooling, Asking, Minding, Leaving, At
  <2>2. CASE SaveSegments(r)
    BY <2>2, GotoDoes, FailingDoes
       DEF SaveSegments, Places, Causes, StateFits, CopyFits, CauseFits, Working, Preparations,
           Answering, Tooling, Asking, Minding, Leaving, At, store
  <2>3. CASE CompleteRun(r)
    BY <2>3, GotoDoes, FailingDoes, DeadCauses, SavedDoes
       DEF CompleteRun, Places, Causes, StateFits, CopyFits, CauseFits, Working, Preparations,
           Answering, Tooling, Asking, Minding, Leaving, At, store, RunStates, CanTransition
  <2>4. CASE FailRun(r)
    BY <2>4, FailRunDoes, SavedDoes, ZenonT(60) DEF FailRun, RowsKept, StateFits, CopyFits,
       CauseFits, Working, Preparations, Answering, Tooling, Asking, Minding, Leaving, At, store,
       RunStates, CanTransition
  <2>5. CASE RecordCancelled(r)
    BY <2>5, GotoDoes, SavedDoes
       DEF RecordCancelled, Places, StateFits, CopyFits, CauseFits, Working, Preparations,
           Answering, Tooling, Asking, Minding, Leaving, At, store, RunStates, CanTransition
  <2>6. CASE Tell(r)
    BY <2>6, GotoDoes
       DEF Tell, Places, StateFits, CopyFits, CauseFits, Working, Preparations, Answering,
           Tooling, Asking, Minding, Leaving, At, store
  <2>7. CASE Finish(r)
    BY <2>7, GotoDoes
       DEF Finish, Places, StateFits, CopyFits, CauseFits, Working, Preparations, Answering,
           Tooling, Asking, Minding, Leaving, At, store
  <2> QED BY <1>5, <2>1, <2>2, <2>3, <2>4, <2>5, <2>6, <2>7 DEF Ending
<1> QED BY <1>1, <1>2, <1>3, <1>4, <1>5 DEF Step

\* A step keeps CauseFits: a run that is completed had no cause to end badly.
LEMMA CauseStep ==
  ASSUME TypeOK, NEW r \in Runs, CollectedIsFinite(r), CopyFits(r), StateFits(r), CauseFits(r), Step(r)
  PROVE  CauseFits(r)'
<1>1. CASE Preparing(r)
  <2>1. CASE Enqueue(r)
    BY <2>1, CauseTyped, GotoDoes, SavedDoes
       DEF Enqueue, Admit, Places, StateFits, CopyFits, CauseFits, Working, Preparations,
           Answering, Tooling, Asking, Minding, Leaving, At, store, RunStates, CanTransition
  <2>2. CASE Register(r)
    <3>1. row[r].state = "queued" /\ task[r].pc = "queued"
      BY <2>2 DEF Register, Admit, StateFits, At
    <3>2. row'[r].state \in {"queued", "running"}
      BY <2>2, <3>1, SavedDoes DEF Register, Admit, RunStates
    <3>3. task'[r].pc \in {"done", "setup"} /\ task'[r].cause = task[r].cause
      BY <2>2, GotoDoes DEF Register, Admit, Places
    <3>4. task'[r].pc = "done" => row' = row
      BY <2>2, GotoDoes DEF Register, Admit, Places
    <3> QED BY <3>1, <3>2, <3>3, <3>4 DEF CauseFits, Working, Preparations, Answering, Tooling,
         Asking, Minding, Leaving, At
  <2>3. CASE SetupDone(r)
    <3>1. row[r].state = "running" /\ task[r].cause = "none"
      BY <2>3 DEF SetupDone, StateFits, CauseFits, Working, Preparations, At
    <3>2. row' = row
      BY <2>3 DEF SetupDone, store
    <3>3. task'[r].pc = "budget" /\ task'[r].cause = task[r].cause
      BY <2>3, GotoDoes DEF SetupDone, Places
    <3> QED BY <3>1, <3>2, <3>3 DEF CauseFits, At
  <2>4. CASE SetupFails(r)
    BY <2>4, CauseTyped, GotoDoes, FailingDoes, SMTT(40) DEF SetupFails, Places, Causes, StateFits,
       CopyFits, CauseFits, Working, Preparations, Answering, Tooling, Asking, Minding, Leaving,
       At, store
  <2>5. CASE SwitchRoute(r)
    BY <2>5, CauseTyped, GotoDoes, FailingDoes, DeadCauses, SwitchRouteDoes, ZenonT(60) DEF
       SwitchRoute, Places, Causes, StateFits, CopyFits, CauseFits, Working, Preparations,
       Answering, Tooling, Asking, Minding, Leaving, At, store
  <2>6. CASE AuditSwitch(r)
    BY <2>6, CauseTyped, FailingDoes, AuditSwitched, AuditSwitchDoes, ZenonT(60) DEF AuditSwitch,
       Causes, StateFits, CopyFits, CauseFits, Working, Preparations, Answering, Tooling, Asking,
       Minding, Leaving, At, store
  <2>7. CASE PersistBudget(r)
    <3>1. row[r].state = "running" /\ run[r] = row[r] /\ task[r].cause = "none"
      BY <2>7 DEF PersistBudget, CopyFits, StateFits, CauseFits, Working, Preparations,
           Answering, Tooling, Asking, Minding, Leaving, At
    <3>2. row'[r].state = row[r].state
      BY <2>7, <3>1, PersistBudgetDoes DEF RowsKept
    <3>3. \/ task'[r].pc \in {"begin", "context"} /\ task'[r].cause = "none"
          \/ task'[r].pc = "fail" /\ task'[r].cause # "none"
      BY <2>7, <3>1, GotoDoes, FailingDoes, DeadCauses DEF PersistBudget, Prepared, Places, Causes
    <3> QED BY <3>1, <3>2, <3>3 DEF CauseFits, Working, Preparations, Answering, Tooling,
         Asking, Minding, Leaving, At
  <2>8. CASE AssembleContext(r)
    BY <2>8, CauseTyped, FailingDoes, DeadCauses, Assembled
       DEF AssembleContext, Causes, StateFits, CopyFits, CauseFits, Working, Preparations,
           Answering, Tooling, Asking, Minding, Leaving, At, store
  <2> QED BY <1>1, <2>1, <2>2, <2>3, <2>4, <2>5, <2>6, <2>7, <2>8 DEF Preparing
<1>2. CASE ModelTurn(r)
  <2>1. CASE BeginRun(r)
    BY <2>1, CauseTyped, BeginRunDoes, ZenonT(60) DEF BeginRun, StateFits, CopyFits, CauseFits,
       Working, Preparations, Answering, Tooling, Asking, Minding, Leaving, At, store
  <2>2. CASE BeginStep(r)
    BY <2>2, CauseTyped, FailsDoes, DeadCauses, BeginStepDoes
       DEF BeginStep, Causes, StateFits, CopyFits, CauseFits, Working, Preparations, Answering,
           Tooling, Asking, Minding, Leaving, At, store
  <2>3. CASE AcquireTurn(r)
    BY <2>3, CauseTyped, GotoDoes
       DEF AcquireTurn, Places, StateFits, CopyFits, CauseFits, Working, Preparations, Answering,
           Tooling, Asking, Minding, Leaving, At, store
  <2>4. CASE AcquireFails(r)
    BY <2>4, CauseTyped, FailsDoes, DeadCauses
       DEF AcquireFails, Causes, StateFits, CopyFits, CauseFits, Working, Preparations, Answering,
           Tooling, Asking, Minding, Leaving, At, store
  <2>5. CASE TextDelta(r)
    BY <2>5, CauseTyped, TextDeltaDoes
       DEF TextDelta, Buffered, StateFits, CopyFits, CauseFits, Working, Preparations, Answering,
           Tooling, Asking, Minding, Leaving, At, store
  <2>6. CASE \E c \in CallsOf[r] : ProposeCall(r, c)
    BY <2>6, CauseTyped, ProposeCallDoes, CallsAssumption
       DEF ProposeCall, StateFits, CopyFits, CauseFits, Working, Preparations, Answering, Tooling,
           Asking, Minding, Leaving, At, store
  <2>7. CASE CallDuringStream(r)
    BY <2>7, CauseTyped, CallDuringStreamDoes, FailsDoes, ZenonT(60) DEF CallDuringStream, Causes,
       StateFits, CopyFits, CauseFits, Working, Preparations, Answering, Tooling, Asking, Minding,
       Leaving, At, store
  <2>8. CASE EndStream(r)
    BY <2>8, CauseTyped, EndStreamDoes, FailsDoes
       DEF EndStream, Causes, StateFits, CopyFits, CauseFits, Working, Preparations, Answering,
           Tooling, Asking, Minding, Leaving, At, store
  <2>9. CASE StreamFails(r)
    BY <2>9, CauseTyped, FailsDoes, DeadCauses
       DEF StreamFails, Causes, StateFits, CopyFits, CauseFits, Working, Preparations, Answering,
           Tooling, Asking, Minding, Leaving, At, store
  <2> QED BY <1>2, <2>1, <2>2, <2>3, <2>4, <2>5, <2>6, <2>7, <2>8, <2>9 DEF ModelTurn
<1>3. CASE ToolCall(r)
  <2>1. CASE Authorize(r)
    BY <2>1, CauseTyped, GotoDoes, AbandonedDoes, AnsweredDoes, DeadCauses, ZenonT(60) DEF
       Authorize, Alive, Places, Causes, StateFits, CopyFits, CauseFits, Working, Preparations,
       Answering, Tooling, Asking, Minding, Leaving, At, store
  <2>2. CASE CreateApproval(r)
    BY <2>2, CauseTyped, GotoDoes, AbandonedDoes, AnsweredDoes, DeadCauses
       DEF CreateApproval, Alive, Places, Causes, StateFits, CopyFits, CauseFits, Working,
           Preparations, Answering, Tooling, Asking, Minding, Leaving, At, store
  <2>3. CASE RegisterApproval(r)
    BY <2>3, CauseTyped, GotoDoes, AbandonedDoes, DeadCauses
       DEF RegisterApproval, Alive, Places, Causes, StateFits, CopyFits, CauseFits, Working,
           Preparations, Answering, Tooling, Asking, Minding, Leaving, At, store
  <2>4. CASE AnnounceApproval(r)
    BY <2>4, CauseTyped, GotoDoes, AbandonedDoes, DeadCauses
       DEF AnnounceApproval, Places, Causes, StateFits, CopyFits, CauseFits, Working,
           Preparations, Answering, Tooling, Asking, Minding, Leaving, At, store
  <2>5. CASE BeginWait(r)
    BY <2>5, CauseTyped, GotoDoes, SavedDoes
       DEF BeginWait, Places, StateFits, CopyFits, CauseFits, Working, Preparations, Answering,
           Tooling, Asking, Minding, Leaving, At, store, RunStates, CanTransition
  <2>6. CASE TakeAnswer(r)
    BY <2>6, CauseTyped, TakeAnswerDoes, SavedDoes, ZenonT(60) DEF TakeAnswer, Answers, StateFits,
       CopyFits, CauseFits, Working, Preparations, Answering, Tooling, Asking, Minding, Leaving,
       At, store, RunStates, CanTransition
  <2>7. CASE TakeExpiry(r)
    BY <2>7, CauseTyped, GotoDoes, SavedDoes
       DEF TakeExpiry, Places, StateFits, CopyFits, CauseFits, Working, Preparations, Answering,
           Tooling, Asking, Minding, Leaving, At, store, RunStates, CanTransition
  <2>8. CASE WaitEnds(r)
    BY <2>8, CauseTyped, AbandonedDoes, DeadCauses
       DEF WaitEnds, Causes, StateFits, CopyFits, CauseFits, Working, Preparations, Answering,
           Tooling, Asking, Minding, Leaving, At, store
  <2>9. CASE RecordAnswer(r)
    BY <2>9, CauseTyped, GotoDoes
       DEF RecordAnswer, Places, StateFits, CopyFits, CauseFits, Working, Preparations, Answering,
           Tooling, Asking, Minding, Leaving, At, store
  <2>10. CASE RecordExpiry(r)
    BY <2>10, CauseTyped, GotoDoes
       DEF RecordExpiry, Places, StateFits, CopyFits, CauseFits, Working, Preparations, Answering,
           Tooling, Asking, Minding, Leaving, At, store
  <2>11. CASE ReportDenial(r)
    BY <2>11, CauseTyped, AbandonedDoes, AnsweredDoes, DeadCauses
       DEF ReportDenial, Alive, Causes, StateFits, CopyFits, CauseFits, Working, Preparations,
           Answering, Tooling, Asking, Minding, Leaving, At, store
  <2>12. CASE LaunchTool(r)
    BY <2>12, CauseTyped, GotoDoes, AbandonedDoes, DeadCauses
       DEF LaunchTool, Alive, Places, Causes, StateFits, CopyFits, CauseFits, Working,
           Preparations, Answering, Tooling, Asking, Minding, Leaving, At, store
  <2>13. CASE ExecuteTool(r)
    BY <2>13, CauseTyped, RanDoes
       DEF ExecuteTool, StateFits, CopyFits, CauseFits, Working, Preparations, Answering, Tooling,
           Asking, Minding, Leaving, At, store
  <2>14. CASE ReportTool(r)
    BY <2>14, CauseTyped, AbandonedDoes, AnsweredDoes, DeadCauses, CauseTyped
       DEF ReportTool, Alive, Causes, StateFits, CopyFits, CauseFits, Working, Preparations,
           Answering, Tooling, Asking, Minding, Leaving, At, store
  <2> QED BY <1>3, <2>1, <2>2, <2>3, <2>4, <2>5, <2>6, <2>7, <2>8, <2>9, <2>10, <2>11, <2>12,
       <2>13, <2>14 DEF ToolCall
<1>4. CASE Delegation(r)
  <2>1. CASE FindDelegation(r)
    BY <2>1, CauseTyped, GotoDoes, RanDoes, ZenonT(60) DEF FindDelegation, ChildAbsent, Places,
       StateFits, CopyFits, CauseFits, Working, Preparations, Answering, Tooling, Asking, Minding,
       Leaving, At, store
  <2>2. CASE QueueChild(r)
    BY <2>2, CauseTyped, GotoDoes, RanDoes, ZenonT(60) DEF QueueChild, MovePair, Places, StateFits,
       CopyFits, CauseFits, Working, Preparations, Answering, Tooling, Asking, Minding, Leaving,
       At, store
  <2>3. CASE StartChild(r)
    BY <2>3, CauseTyped, GotoDoes, RanDoes, ZenonT(60) DEF StartChild, MovePair, Places, StateFits,
       CopyFits, CauseFits, Working, Preparations, Answering, Tooling, Asking, Minding, Leaving,
       At, store
  <2>4. CASE AcquireChildTurn(r)
    BY <2>4, CauseTyped, AcquireChildTurnDoes
       DEF AcquireChildTurn, StateFits, CopyFits, CauseFits, Working, Preparations, Answering,
           Tooling, Asking, Minding, Leaving, At, store
  <2>5. CASE AcquireChildFails(r)
    BY <2>5, CauseTyped, ChildFailsDoes, DeadCauses
       DEF AcquireChildFails, Causes, StateFits, CopyFits, CauseFits, Working, Preparations,
           Answering, Tooling, Asking, Minding, Leaving, At, store
  <2>6. CASE ChildTurnEnds(r)
    BY <2>6, CauseTyped, GotoDoes, ChildFailsDoes, DeadCauses
       DEF ChildTurnEnds, Places, Causes, StateFits, CopyFits, CauseFits, Working, Preparations,
           Answering, Tooling, Asking, Minding, Leaving, At, store
  <2>7. CASE CompleteChild(r)
    BY <2>7, CauseTyped, RanDoes
       DEF CompleteChild, StateFits, CopyFits, CauseFits, Working, Preparations, Answering,
           Tooling, Asking, Minding, Leaving, At, store
  <2>8. CASE FailChild(r)
    BY <2>8, CauseTyped, GotoDoes, RanDoes, ZenonT(60) DEF FailChild, Places, StateFits, CopyFits,
       CauseFits, Working, Preparations, Answering, Tooling, Asking, Minding, Leaving, At, store
  <2>9. CASE CancelChild(r)
    BY <2>9, CauseTyped, RanDoes
       DEF CancelChild, StateFits, CopyFits, CauseFits, Working, Preparations, Answering, Tooling,
           Asking, Minding, Leaving, At, store
  <2> QED BY <1>4, <2>1, <2>2, <2>3, <2>4, <2>5, <2>6, <2>7, <2>8, <2>9 DEF Delegation
<1>5. CASE Ending(r)
  <2>1. CASE LeaveRoute(r)
    BY <2>1, CauseTyped, LeaveRouteDoes
       DEF LeaveRoute, StateFits, CopyFits, CauseFits, Working, Preparations, Answering, Tooling,
           Asking, Minding, Leaving, At, store
  <2>2. CASE SaveSegments(r)
    BY <2>2, CauseTyped, GotoDoes, FailingDoes
       DEF SaveSegments, Places, Causes, StateFits, CopyFits, CauseFits, Working, Preparations,
           Answering, Tooling, Asking, Minding, Leaving, At, store
  <2>3. CASE CompleteRun(r)
    BY <2>3, CauseTyped, GotoDoes, FailingDoes, DeadCauses, SavedDoes
       DEF CompleteRun, Places, Causes, StateFits, CopyFits, CauseFits, Working, Preparations,
           Answering, Tooling, Asking, Minding, Leaving, At, store, RunStates, CanTransition
  <2>4. CASE FailRun(r)
    BY <2>4, CauseTyped, FailRunDoes, SavedDoes, ZenonT(60) DEF FailRun, RowsKept, StateFits,
       CopyFits, CauseFits, Working, Preparations, Answering, Tooling, Asking, Minding, Leaving,
       At, store, RunStates, CanTransition
  <2>5. CASE RecordCancelled(r)
    BY <2>5, CauseTyped, GotoDoes, SavedDoes
       DEF RecordCancelled, Places, StateFits, CopyFits, CauseFits, Working, Preparations,
           Answering, Tooling, Asking, Minding, Leaving, At, store, RunStates, CanTransition
  <2>6. CASE Tell(r)
    BY <2>6, CauseTyped, GotoDoes
       DEF Tell, Places, StateFits, CopyFits, CauseFits, Working, Preparations, Answering,
           Tooling, Asking, Minding, Leaving, At, store
  <2>7. CASE Finish(r)
    BY <2>7, CauseTyped, GotoDoes
       DEF Finish, Places, StateFits, CopyFits, CauseFits, Working, Preparations, Answering,
           Tooling, Asking, Minding, Leaving, At, store
  <2> QED BY <1>5, <2>1, <2>2, <2>3, <2>4, <2>5, <2>6, <2>7 DEF Ending
<1> QED BY <1>1, <1>2, <1>3, <1>4, <1>5 DEF Step

-----------------------------------------------------------------------------
(* Where each group of steps leads.                                        *)

\* From the message to the runtime.
LEMMA PreparingGoes ==
  ASSUME TypeOK, NEW r \in Runs, Preparing(r)
  PROVE  /\ task[r].pc \in {"created", "queued", "setup", "switch", "audit", "budget", "context"}
         /\ KeepsTools(r) /\ task'[r].committed = task[r].committed
         /\ task'[r].held = task[r].held /\ task'[r].stream = task[r].stream
         /\ \/ /\ task[r].pc \in {"created", "queued"} /\ task'[r].pc \in {"done", "queued", "setup"}
               /\ task'[r].attempt = task[r].attempt
            \/ task[r].pc = "setup" /\ task[r].attempt = 1 /\ task'[r].pc = "switch"
                  /\ task'[r].attempt = 1
            \/ task[r].pc = "switch" /\ task'[r].pc = "audit" /\ task'[r].attempt = task[r].attempt
            \/ task[r].pc = "audit" /\ task'[r].pc = "setup" /\ task'[r].attempt = 2
            \/ task[r].pc \in {"setup", "budget", "context"}
                  /\ task'[r].pc \in {"budget", "context", "begin"}
                  /\ task'[r].attempt = task[r].attempt
            \/ task[r].pc \notin {"created", "queued"} /\ task'[r].pc = "fail"
                  /\ task'[r].attempt = task[r].attempt
  <1>1. CASE Enqueue(r)
    BY <1>1, GotoDoes DEF Enqueue, Admit, Places, Keeps, KeepsRoute, KeepsTools, At
  <1>2. CASE Register(r)
    BY <1>2, GotoDoes DEF Register, Admit, Places, Keeps, KeepsRoute, KeepsTools, At
  <1>3. CASE SetupDone(r)
    BY <1>3, GotoDoes DEF SetupDone, Places, Keeps, KeepsRoute, KeepsTools, At
  <1>4. CASE SetupFails(r)
    BY <1>4, GotoDoes, FailingDoes, SMTT(40) DEF SetupFails, Places, Causes, Keeps, KeepsRoute,
       KeepsTools, At
  <1>5. CASE SwitchRoute(r)
    BY <1>5, GotoDoes, FailingDoes, DeadCauses, SMTT(40) DEF SwitchRoute, Places, Causes, Keeps,
       KeepsRoute, KeepsTools, At
  <1>6. CASE AuditSwitch(r)
    BY <1>6, FailingDoes, AuditSwitched, ZenonT(60) DEF AuditSwitch, Causes, Keeps, KeepsRoute,
       KeepsTools, At
  <1>7. CASE PersistBudget(r)
    BY <1>7, GotoDoes, FailingDoes, DeadCauses
       DEF PersistBudget, Prepared, Places, Causes, Keeps, KeepsRoute, KeepsTools, At
  <1>8. CASE AssembleContext(r)
    BY <1>8, FailingDoes, DeadCauses, Assembled
       DEF AssembleContext, Causes, Keeps, KeepsRoute, KeepsTools, At
  <1> QED BY <1>1, <1>2, <1>3, <1>4, <1>5, <1>6, <1>7, <1>8 DEF Preparing

\* A subagent's life begins and ends in its parent's call.
LEMMA DelegationGoes ==
  ASSUME TypeOK, NEW r \in Runs, Delegation(r)
  PROVE  /\ task[r].pc \in Minding \cup {"find"} /\ task'[r].pc \in Minding \cup {"report"}
         /\ KeepsRoute(r) /\ task'[r].held = task[r].held
         /\ task'[r].todo = task[r].todo /\ task'[r].call = task[r].call
  <1>1. CASE FindDelegation(r)
    BY <1>1, GotoDoes, RanDoes, ZenonT(60) DEF FindDelegation, ChildAbsent, Places, Keeps,
       KeepsRoute, KeepsTools, At, Minding
  <1>2. CASE QueueChild(r)
    BY <1>2, GotoDoes, RanDoes, ZenonT(60) DEF QueueChild, MovePair, Places, Keeps, KeepsRoute,
       KeepsTools, At, Minding
  <1>3. CASE StartChild(r)
    BY <1>3, GotoDoes, RanDoes, ZenonT(60) DEF StartChild, MovePair, Places, Keeps, KeepsRoute,
       KeepsTools, At, Minding
  <1>4. CASE AcquireChildTurn(r)
    BY <1>4, AcquireChildTurnDoes DEF AcquireChildTurn, Keeps, KeepsRoute, KeepsTools, At, Minding
  <1>5. CASE AcquireChildFails(r)
    BY <1>5, ChildFailsDoes, DeadCauses
       DEF AcquireChildFails, Causes, Keeps, KeepsRoute, KeepsTools, At, Minding
  <1>6. CASE ChildTurnEnds(r)
    BY <1>6, GotoDoes, ChildFailsDoes, DeadCauses
       DEF ChildTurnEnds, Places, Causes, Keeps, KeepsRoute, KeepsTools, At, Minding
  <1>7. CASE CompleteChild(r)
    BY <1>7, RanDoes DEF CompleteChild, Keeps, KeepsRoute, KeepsTools, At, Minding
  <1>8. CASE FailChild(r)
    BY <1>8, GotoDoes, RanDoes, ZenonT(60) DEF FailChild, Places, Keeps, KeepsRoute, KeepsTools,
       At, Minding
  <1>9. CASE CancelChild(r)
    BY <1>9, RanDoes DEF CancelChild, Keeps, KeepsRoute, KeepsTools, At, Minding
  <1> QED BY <1>1, <1>2, <1>3, <1>4, <1>5, <1>6, <1>7, <1>8, <1>9 DEF Delegation

\* From the runtime's return to the end, or back to the other route.
LEMMA EndingGoes ==
  ASSUME TypeOK, NEW r \in Runs, Ending(r)
  PROVE  /\ task[r].pc \in {"aborted", "segments", "complete", "fail", "cancelled", "told", "close"}
         /\ KeepsRoute(r) /\ KeepsTools(r)
         /\ \/ task'[r].pc \in {"complete", "fail", "cancelled", "told", "close", "done"}
            \/ /\ task[r].pc = "aborted" /\ task'[r].pc = "switch" /\ task[r].attempt = 1
               /\ ~task[r].committed
  <1>1. CASE LeaveRoute(r)
    BY <1>1, LeaveRouteDoes DEF LeaveRoute, Keeps, KeepsRoute, KeepsTools, At
  <1>2. CASE SaveSegments(r)
    BY <1>2, GotoDoes, FailingDoes
       DEF SaveSegments, Places, Causes, Keeps, KeepsRoute, KeepsTools, At
  <1>3. CASE CompleteRun(r)
    BY <1>3, GotoDoes, FailingDoes, DeadCauses
       DEF CompleteRun, Places, Causes, Keeps, KeepsRoute, KeepsTools, At
  <1>4. CASE FailRun(r)
    BY <1>4, FailRunDoes DEF FailRun, RowsKept, Keeps, KeepsRoute, KeepsTools, At
  <1>5. CASE RecordCancelled(r)
    BY <1>5, GotoDoes DEF RecordCancelled, Places, Keeps, KeepsRoute, KeepsTools, At
  <1>6. CASE Tell(r)
    BY <1>6, GotoDoes DEF Tell, Places, Keeps, KeepsRoute, KeepsTools, At
  <1>7. CASE Finish(r)
    BY <1>7, GotoDoes DEF Finish, Places, Keeps, KeepsRoute, KeepsTools, At
  <1> QED BY <1>1, <1>2, <1>3, <1>4, <1>5, <1>6, <1>7 DEF Ending

\* What the last event leaves.
LEMMA EndTells ==
  ASSUME TypeOK, NEW r \in Runs, NEW x \in Ends, shown'[r] = Ended(Closed(shown[r]), x)
  PROVE  /\ shown[r].terminal = "none" =>
              /\ shown'[r].terminal = x /\ ~shown'[r].pending /\ ~shown'[r].segment
              /\ shown'[r].after = shown[r].after
         /\ shown[r].terminal # "none" /\ ~shown[r].segment => shown'[r] = shown[r]
  <1> DEFINE u == Closed(shown[r])
  <1>1. /\ u \in ShownType /\ u.terminal = shown[r].terminal /\ ~u.segment
        /\ shown[r].terminal = "none" => u.after = shown[r].after
        /\ ~shown[r].segment => u = shown[r]
    BY ShownHere, ClosedDoes
  <1>2. shown'[r] = Ended(u, x)
    OBVIOUS
  <1> HIDE DEF u
  <1> QED BY <1>1, <1>2, EndedDoes

\* Giving up tells the owner only where there is no other route to try.
LEMMA FailsTells ==
  ASSUME TypeOK, NEW r \in Runs, NEW c \in Causes, Fails(r, c), shown[r].terminal = "none"
  PROVE  \/ task[r].attempt = 1 /\ shown' = shown
         \/ /\ task[r].attempt = 2 /\ shown'[r].terminal \in {"cancelled", "error"}
            /\ ~shown'[r].pending /\ ~shown'[r].segment /\ shown'[r].after = shown[r].after
  <1>1. task[r].attempt \in {1, 2}
    BY TaskHere DEF TaskType
  <1>2. CASE task[r].attempt = 1
    BY <1>2, FailsDoes
  <1>3. CASE task[r].attempt = 2
    <2>1. PICK x \in {"cancelled", "error"} : shown'[r] = Ended(Closed(shown[r]), x)
      BY <1>3, FailsDoes
    <2>2. x \in Ends
      BY DEF Ends
    <2> QED BY <1>3, <2>1, <2>2, EndTells
  <1> QED BY <1>1, <1>2, <1>3

\* While a run goes on its last event has not been sent.
LEMMA SilentUntilEnd ==
  ASSUME NEW r \in Runs, TellingFits(r), task[r].pc \notin {"aborted"} \cup Leaving
  PROVE  shown[r].terminal = "none"
  BY DEF TellingFits

\* Before its last event a run may say what it likes.
LEMMA QuietTelling ==
  ASSUME NEW r \in Runs, TellingFits(r), shown'[r].terminal = "none",
         shown'[r].after = shown[r].after, task'[r].pc \notin {"close", "done"},
         task'[r].attempt = 2 \/ task'[r].pc \in {"created", "queued"} \cup Preparations =>
           ~task'[r].held
  PROVE  TellingFits(r)'
  BY DEF TellingFits, At

\* Giving up keeps TellingFits.
LEMMA FailsKeepsTelling ==
  ASSUME TypeOK, NEW r \in Runs, NEW c \in Causes, Fails(r, c), TellingFits(r),
         shown[r].terminal = "none"
  PROVE  TellingFits(r)'
  <1>1. task'[r].pc = "aborted" /\ task'[r].held = task[r].held
          /\ task'[r].attempt = task[r].attempt
    BY FailsDoes DEF Keeps, KeepsRoute
  <1>2. CASE task[r].attempt = 1 /\ shown' = shown
    BY <1>1, <1>2, QuietTelling DEF TellingFits, Preparations
  <1>3. CASE /\ task[r].attempt = 2 /\ shown'[r].terminal \in {"cancelled", "error"}
             /\ ~shown'[r].pending /\ ~shown'[r].segment /\ shown'[r].after = shown[r].after
    BY <1>1, <1>3 DEF TellingFits, Preparations, At
  <1> QED BY <1>2, <1>3, FailsTells

\* On the way out of a run that was not completed.
LEMMA LeavingTelling ==
  ASSUME NEW r \in Runs, TellingFits(r), shown'[r] = shown[r], row[r].state # "completed",
         task'[r].pc \in Leaving \ {"close", "done"}, task'[r].cause # "none",
         task'[r].attempt = 2 => ~task'[r].held
  PROVE  TellingFits(r)'
  BY DEF TellingFits, At, Leaving, Preparations

\* Preparing sends no last event.
LEMMA PreparingTells ==
  ASSUME TypeOK, NEW r \in Runs, Preparing(r), shown[r].terminal = "none"
  PROVE  shown'[r].terminal = "none" /\ shown'[r].after = shown[r].after
  <1>1. CASE SetupFails(r)
    BY <1>1, SetupFailsTells DEF GoesOn
  <1>2. CASE AuditSwitch(r)
    <2>1. shown' = shown \/ shown' = [shown EXCEPT ![r] = Sent(@)]
      BY <1>2 DEF AuditSwitch
    <2>2. CASE shown' = shown
      BY <2>2
    <2>3. CASE shown' = [shown EXCEPT ![r] = Sent(@)]
      BY <2>3, SentTells DEF GoesOn
    <2> QED BY <2>1, <2>2, <2>3
  <1>3. CASE ~SetupFails(r) /\ ~AuditSwitch(r)
    <2>1. shown' = shown
      BY <1>3 DEF Preparing, Enqueue, Register, Admit, SetupDone, SwitchRoute, PersistBudget,
                  AssembleContext
    <2> QED BY <2>1
  <1> QED BY <1>1, <1>2, <1>3

\* A step keeps TellingFits: one last event, and nothing after it.
LEMMA TellingStep ==
  ASSUME TypeOK, NEW r \in Runs, CollectedIsFinite(r), CopyFits(r), StateFits(r), CauseFits(r),
         TellingFits(r), Step(r)
  PROVE  TellingFits(r)'
<1>0. /\ task[r].pc \notin {"aborted"} \cup Leaving => shown[r].terminal = "none"
      /\ task[r].attempt = 2 \/ task[r].pc \in {"created", "queued"} \cup Preparations =>
           ~task[r].held
  BY DEF TellingFits
<1>1. CASE Preparing(r)
  <2>1. shown[r].terminal = "none"
    BY <1>1, <1>0, PreparingGoes DEF Leaving
  <2>2. shown'[r].terminal = "none" /\ shown'[r].after = shown[r].after
    BY <1>1, <2>1, PreparingTells
  <2>3. task'[r].attempt = 2 \/ task'[r].pc \in {"created", "queued"} \cup Preparations =>
          ~task'[r].held
    BY <1>1, <1>0, PreparingGoes DEF Preparations
  <2>4. CASE task'[r].pc # "done"
    <3>1. task'[r].pc # "close"
      BY <1>1, PreparingGoes
    <3> QED BY <2>2, <2>3, <2>4, <3>1, QuietTelling
  <2>5. CASE task'[r].pc = "done"
    <3>1. task[r].pc \in {"created", "queued"}
      BY <1>1, <2>5, PreparingGoes, SMTT(40)
    <3>2. row' = row
      BY <1>1, <2>5, <3>1, GotoDoes DEF Preparing, Enqueue, Register, Admit, SetupDone,
           SetupFails,
         SwitchRoute, AuditSwitch, PersistBudget, AssembleContext, At, Places
    <3>3. row[r].state \in {"created", "queued"}
      BY <3>1 DEF StateFits, At
    <3> QED BY <2>2, <2>3, <2>5, <3>2, <3>3 DEF TellingFits, Leaving, Preparations, At
  <2> QED BY <2>4, <2>5
<1>2. CASE ModelTurn(r)
  <2>1. CASE BeginRun(r)
    <3>1. At(r, "begin") /\ shown' = shown
      BY <2>1 DEF BeginRun
    <3>2. /\ task'[r].pc \in {"aborted", "step"} /\ task'[r].attempt = task[r].attempt
          /\ task'[r].held => task[r].attempt = 1
      BY <2>1, BeginRunDoes DEF KeepsRoute
    <3>3. shown'[r].terminal = "none"
      BY <1>0, <3>1, SMTT(40) DEF At, Leaving
    <3> QED BY <3>1, <3>2, <3>3, QuietTelling DEF Preparations
  <2>2. CASE BeginStep(r)
    BY <2>2, <1>0, QuietTelling, FailsDoes, DeadCauses, BeginStepDoes, FailsKeepsTelling,
       ZenonT(60) DEF BeginStep, Causes, Keeps, KeepsRoute, Leaving, Preparations, At, store
  <2>3. CASE AcquireTurn(r)
    BY <2>3, <1>0, QuietTelling, GotoDoes
       DEF AcquireTurn, Places, Keeps, KeepsRoute, Leaving, Preparations, At, store
  <2>4. CASE AcquireFails(r)
    BY <2>4, <1>0, QuietTelling, FailsDoes, DeadCauses, FailsKeepsTelling
       DEF AcquireFails, Causes, Keeps, KeepsRoute, Leaving, Preparations, At, store
  <2>5. CASE TextDelta(r)
    BY <2>5, <1>0, QuietTelling, TextDeltaDoes, TextDeltaTells
       DEF TextDelta, Buffered, Keeps, KeepsRoute, Leaving, Preparations, At, store
  <2>6. CASE \E c \in CallsOf[r] : ProposeCall(r, c)
    BY <2>6, <1>0, QuietTelling, ProposeCallDoes, CallsAssumption, ProposeCallTells
       DEF ProposeCall, Keeps, KeepsRoute, Leaving, Preparations, At, store, GoesOn
  <2>7. CASE CallDuringStream(r)
    <3>1. /\ At(r, "stream") /\ task'[r].attempt = task[r].attempt
          /\ shown[r].terminal = "none" /\ task'[r].held = task[r].held
      BY <2>7, <1>0, CallDuringStreamDoes DEF At, Leaving, KeepsRoute
    <3>2. CASE task'[r].pc = "tool" /\ shown' = shown
      BY <1>0, <3>1, <3>2, QuietTelling DEF Preparations
    <3>3. CASE Fails(r, "error")
      BY <3>1, <3>3, FailsKeepsTelling DEF Causes
    <3> QED BY <2>7, <3>2, <3>3, CallDuringStreamDoes
  <2>8. CASE EndStream(r)
    <3>1. /\ At(r, "stream") /\ task'[r].attempt = task[r].attempt
          /\ shown[r].terminal = "none" /\ (task[r].attempt = 2 => ~task[r].held)
      BY <2>8, <1>0, EndStreamDoes DEF At, Leaving, KeepsRoute
    <3>2. CASE /\ task'[r].pc \in {"step", "tool"} /\ task'[r].held = task[r].held
               /\ shown' = shown
      BY <3>1, <3>2, QuietTelling DEF Preparations
    <3>3. CASE /\ task'[r].pc = "segments" /\ ~task'[r].held
               /\ shown' = [shown EXCEPT ![r] = Closed(Passed(r, @))]
      BY <3>1, <3>3, AnswerTells, QuietTelling DEF Preparations, GoesOn
    <3>4. CASE Fails(r, "error")
      BY <3>1, <3>4, FailsKeepsTelling DEF Causes
    <3> QED BY <2>8, <3>2, <3>3, <3>4, EndStreamDoes
  <2>9. CASE StreamFails(r)
    BY <2>9, <1>0, QuietTelling, FailsDoes, DeadCauses, FailsKeepsTelling
       DEF StreamFails, Causes, Keeps, KeepsRoute, Leaving, Preparations, At, store
  <2> QED BY <1>2, <2>1, <2>2, <2>3, <2>4, <2>5, <2>6, <2>7, <2>8, <2>9 DEF ModelTurn
<1>3. CASE ToolCall(r)
  <2>1. CASE Authorize(r)
    <3>1. At(r, "tool") /\ shown[r].terminal = "none"
      BY <2>1, <1>0, AuthorizeDoes DEF At, Leaving
    <3>2. CASE Abandoned(r, DeadCause(r))
      BY <3>1, <3>2, DeadCauses, FailsKeepsTelling DEF Abandoned, Causes
    <3>3. CASE shown' = shown /\ (Answered(r) \/ Goto(r, "launch") \/ Goto(r, "ask"))
      <4>1. /\ task'[r].pc \in {"stream", "step", "tool", "launch", "ask"}
            /\ task'[r].held = task[r].held /\ task'[r].attempt = task[r].attempt
        BY <3>3, AnsweredDoes, GotoDoes DEF Keeps, KeepsRoute, Places
      <4> QED BY <1>0, <3>1, <3>3, <4>1, QuietTelling DEF Preparations
    <3> QED BY <2>1, <3>2, <3>3, AuthorizeDoes
  <2>2. CASE CreateApproval(r)
    BY <2>2, <1>0, QuietTelling, GotoDoes, AbandonedDoes, AnsweredDoes, DeadCauses,
       FailsKeepsTelling
       DEF CreateApproval, Alive, Places, Causes, Keeps, KeepsRoute, Leaving, Preparations, At,
           store, Abandoned
  <2>3. CASE RegisterApproval(r)
    BY <2>3, <1>0, QuietTelling, GotoDoes, AbandonedDoes, DeadCauses, FailsKeepsTelling
       DEF RegisterApproval, Alive, Places, Causes, Keeps, KeepsRoute, Leaving, Preparations, At,
           store, Abandoned
  <2>4. CASE AnnounceApproval(r)
    BY <2>4, <1>0, QuietTelling, GotoDoes, AbandonedDoes, DeadCauses, FailsKeepsTelling, SentTells
       DEF AnnounceApproval, Places, Causes, Keeps, KeepsRoute, Leaving, Preparations, At, store,
           Abandoned, GoesOn
  <2>5. CASE BeginWait(r)
    BY <2>5, <1>0, QuietTelling, GotoDoes
       DEF BeginWait, Places, Keeps, KeepsRoute, Leaving, Preparations, At, store
  <2>6. CASE TakeAnswer(r)
    <3>1. shown' = shown /\ shown[r].terminal = "none"
      BY <2>6, <1>0 DEF TakeAnswer, At, Leaving
    <3>2. /\ task'[r].pc = "decide" /\ task'[r].attempt = task[r].attempt
          /\ task'[r].held = task[r].held
      BY <2>6, TakeAnswerDoes DEF KeepsRoute
    <3> QED BY <1>0, <3>1, <3>2, QuietTelling DEF Preparations
  <2>7. CASE TakeExpiry(r)
    BY <2>7, <1>0, QuietTelling, GotoDoes
       DEF TakeExpiry, Places, Keeps, KeepsRoute, Leaving, Preparations, At, store
  <2>8. CASE WaitEnds(r)
    BY <2>8, <1>0, QuietTelling, AbandonedDoes, DeadCauses, FailsKeepsTelling
       DEF WaitEnds, Causes, Keeps, KeepsRoute, Leaving, Preparations, At, store, Abandoned
  <2>9. CASE RecordAnswer(r)
    BY <2>9, <1>0, QuietTelling, GotoDoes
       DEF RecordAnswer, Places, Keeps, KeepsRoute, Leaving, Preparations, At, store
  <2>10. CASE RecordExpiry(r)
    BY <2>10, <1>0, QuietTelling, GotoDoes
       DEF RecordExpiry, Places, Keeps, KeepsRoute, Leaving, Preparations, At, store
  <2>11. CASE ReportDenial(r)
    BY <2>11, <1>0, QuietTelling, AbandonedDoes, AnsweredDoes, DeadCauses, FailsKeepsTelling
       DEF ReportDenial, Alive, Causes, Keeps, KeepsRoute, Leaving, Preparations, At, store,
           Abandoned
  <2>12. CASE LaunchTool(r)
    BY <2>12, <1>0, QuietTelling, GotoDoes, AbandonedDoes, DeadCauses, FailsKeepsTelling
       DEF LaunchTool, Alive, Places, Causes, Keeps, KeepsRoute, Leaving, Preparations, At, store,
           Abandoned
  <2>13. CASE ExecuteTool(r)
    BY <2>13, <1>0, QuietTelling, RanDoes
       DEF ExecuteTool, Keeps, KeepsRoute, Leaving, Preparations, At, store
  <2>14. CASE ReportTool(r)
    BY <2>14, <1>0, QuietTelling, AbandonedDoes, AnsweredDoes, DeadCauses, CauseTyped,
       FailsKeepsTelling
       DEF ReportTool, Alive, Causes, Keeps, KeepsRoute, Leaving, Preparations, At, store,
           Abandoned
  <2> QED BY <1>3, <2>1, <2>2, <2>3, <2>4, <2>5, <2>6, <2>7, <2>8, <2>9, <2>10, <2>11, <2>12,
       <2>13, <2>14 DEF ToolCall
<1>4. CASE Delegation(r)
  <2>1. task[r].pc \notin {"aborted"} \cup Leaving /\ shown' = shown
    BY <1>4, DelegationGoes, DelegationLeaves DEF Minding, Leaving
  <2>2. /\ task'[r].pc \notin {"close", "done", "switch", "audit"}
        /\ task'[r].held = task[r].held /\ task'[r].attempt = task[r].attempt
          /\ task'[r].pc \notin {"created", "queued"} \cup Preparations
    BY <1>4, DelegationGoes DEF Minding, KeepsRoute, Preparations
  <2> QED BY <1>0, <2>1, <2>2, QuietTelling
<1>5. CASE Ending(r)
  <2>1. CASE LeaveRoute(r)
    <3>1. /\ task'[r].pc \in {"switch", "fail"} /\ task'[r].cause = task[r].cause
          /\ ~task'[r].held /\ At(r, "aborted")
      BY <2>1, LeaveRouteDoes
    <3>2. task[r].cause # "none" /\ row[r].state # "completed"
      BY <3>1 DEF CauseFits, StateFits, At
    <3>3. shown'[r].after = shown[r].after /\ shown'[r].terminal = shown[r].terminal
      <4>1. CASE shown[r].terminal = "none"
        BY <2>1, <4>1, LeaveRouteTells DEF GoesOn
      <4>2. CASE shown[r].terminal # "none"
        BY <2>1, <3>1, <4>2, LeaveRouteTells DEF TellingFits
      <4> QED BY <4>1, <4>2
    <3>4. CASE shown[r].terminal = "none"
      BY <3>1, <3>3, <3>4, QuietTelling
    <3>5. CASE shown[r].terminal # "none"
      <4>1. task[r].attempt = 2 /\ shown'[r] = shown[r]
        BY <2>1, <3>1, <3>5, LeaveRouteTells DEF TellingFits
      <4>2. task'[r].pc = "fail"
        BY <2>1, <4>1, LeaveRouteDoes
      <4> QED BY <3>1, <3>2, <4>1, <4>2, LeavingTelling DEF Leaving
    <3> QED BY <3>4, <3>5
  <2>2. CASE SaveSegments(r)
    BY <2>2, <1>0, QuietTelling, GotoDoes, FailingDoes
       DEF SaveSegments, Places, Causes, Keeps, KeepsRoute, Leaving, Preparations, At, store
  <2>3. CASE CompleteRun(r)
    BY <2>3, <1>0, QuietTelling, GotoDoes, FailingDoes, DeadCauses
       DEF CompleteRun, Places, Causes, Keeps, KeepsRoute, Leaving, Preparations, At, store
  <2>4. CASE FailRun(r)
    <3>1. /\ At(r, "fail") /\ task'[r].pc \in {"cancelled", "told"}
          /\ task'[r].cause \in {"cancelled", "error"}
          /\ task'[r].held = task[r].held /\ task'[r].attempt = task[r].attempt
      BY <2>4, FailRunDoes DEF Keeps, KeepsRoute
    <3>2. row[r].state # "completed" /\ shown' = shown
      BY <2>4, <3>1 DEF FailRun, StateFits, At
    <3> QED BY <1>0, <3>1, <3>2, LeavingTelling DEF Leaving
  <2>5. CASE RecordCancelled(r)
    <3>1. /\ At(r, "cancelled") /\ task'[r].pc = "told" /\ task'[r].cause = task[r].cause
          /\ task'[r].held = task[r].held /\ task'[r].attempt = task[r].attempt
      BY <2>5, GotoDoes DEF RecordCancelled, Places, Keeps, KeepsRoute
    <3>2. row[r].state # "completed" /\ shown' = shown /\ task[r].cause # "none"
      BY <2>5, <3>1 DEF RecordCancelled, CauseFits, At
    <3> QED BY <1>0, <3>1, <3>2, LeavingTelling DEF Leaving
  <2>6. CASE Tell(r)
    <3>1. At(r, "told") /\ row' = row /\ task'[r].pc = "close" /\ task'[r].cause = task[r].cause
            /\ task'[r].held = task[r].held /\ task'[r].attempt = task[r].attempt
      BY <2>6, GotoDoes DEF Tell, store, Places, Keeps, KeepsRoute
    <3>2. CASE task[r].cause = "none"
      <4>1. shown[r].terminal = "none" /\ row[r].state = "completed"
        BY <3>1, <3>2 DEF TellingFits, CauseFits, At
      <4>2. shown'[r].terminal = "complete" /\ ~shown'[r].pending /\ ~shown'[r].segment
              /\ shown'[r].after = shown[r].after
        BY <2>6, <3>2, <4>1, TellTells, EndTells DEF Ends
      <4> QED BY <3>1, <4>1, <4>2 DEF TellingFits, Leaving, Preparations, At
    <3>3. CASE task[r].cause # "none"
      <4>1. row[r].state # "completed"
        BY <3>1, <3>3 DEF CauseFits
      <4>2. PICK x \in {"cancelled", "error"} : shown'[r] = Ended(Closed(shown[r]), x)
        BY <2>6, <3>3, TellTells
      <4>3. x \in Ends /\ x # "none" /\ x # "complete"
        BY DEF Ends
      <4>4. \/ shown'[r] = shown[r] /\ shown[r].terminal # "none"
            \/ /\ shown'[r].terminal = x /\ ~shown'[r].pending /\ ~shown'[r].segment
               /\ shown'[r].after = shown[r].after
        BY <4>2, <4>3, EndTells DEF TellingFits
      <4> QED BY <3>1, <4>1, <4>3, <4>4 DEF TellingFits, Leaving, Preparations, At
    <3> QED BY <3>2, <3>3
  <2>7. CASE Finish(r)
    <3>1. At(r, "close") /\ row' = row /\ task'[r].pc = "done"
            /\ task'[r].held = task[r].held /\ task'[r].attempt = task[r].attempt
      BY <2>7, GotoDoes DEF Finish, store, Places, Keeps, KeepsRoute
    <3>2. shown'[r] = shown[r]
      BY <2>7, <3>1, FinishTells DEF TellingFits, At
    <3> QED BY <3>1, <3>2 DEF TellingFits, Leaving, Preparations, At
  <2> QED BY <1>5, <2>1, <2>2, <2>3, <2>4, <2>5, <2>6, <2>7 DEF Ending
<1> QED BY <1>1, <1>2, <1>3, <1>4, <1>5 DEF Step

\* A model's turn: from the runtime's beginning to a call or an answer.
LEMMA ModelTurnGoes ==
  ASSUME TypeOK, NEW r \in Runs, CollectedIsFinite(r), ModelTurn(r)
  PROVE  /\ task[r].pc \in {"begin", "step", "start", "stream"}
         /\ task'[r].pc \in {"aborted", "step", "start", "stream", "tool", "segments"}
         /\ task'[r].seen = task[r].seen /\ task'[r].stream = task[r].stream
         /\ task'[r].attempt = task[r].attempt
  <1>1. CASE BeginRun(r)
    BY <1>1, BeginRunDoes, ZenonT(60) DEF BeginRun, Keeps, KeepsRoute, KeepsTools, At
  <1>2. CASE BeginStep(r)
    BY <1>2, FailsDoes, DeadCauses, BeginStepDoes
       DEF BeginStep, Causes, Keeps, KeepsRoute, KeepsTools, At
  <1>3. CASE AcquireTurn(r)
    BY <1>3, GotoDoes DEF AcquireTurn, Places, Keeps, KeepsRoute, KeepsTools, At
  <1>4. CASE AcquireFails(r)
    BY <1>4, FailsDoes, DeadCauses DEF AcquireFails, Causes, Keeps, KeepsRoute, KeepsTools, At
  <1>5. CASE TextDelta(r)
    BY <1>5, TextDeltaDoes DEF TextDelta, Buffered, Keeps, KeepsRoute, KeepsTools, At
  <1>6. CASE \E c \in CallsOf[r] : ProposeCall(r, c)
    BY <1>6, ProposeCallDoes, CallsAssumption DEF ProposeCall, Keeps, KeepsRoute, KeepsTools, At
  <1>7. CASE CallDuringStream(r)
    BY <1>7, CallDuringStreamDoes, FailsDoes DEF KeepsRoute, Causes, At
  <1>8. CASE EndStream(r)
    BY <1>8, EndStreamDoes, FailsDoes DEF KeepsRoute, Causes, At
  <1>9. CASE StreamFails(r)
    BY <1>9, FailsDoes, DeadCauses DEF StreamFails, Causes, Keeps, KeepsRoute, KeepsTools, At
  <1> QED BY <1>1, <1>2, <1>3, <1>4, <1>5, <1>6, <1>7, <1>8, <1>9 DEF ModelTurn

\* A step that decides nothing and leaves the calls keeps ApprovalFits.
LEMMA QuietApproval ==
  ASSUME NEW r \in Runs, ApprovalFits(r), approval'[r] = approval[r], effects'[r] = effects[r],
         task'[r].seen = task[r].seen,
         task'[r].pc \notin Tooling \ {"tool", "denied", "report"}
  PROVE  ApprovalFits(r)'
  BY DEF ApprovalFits, Tooling, Asking, Minding, At

\* So does a call that is given up.
LEMMA AbandonedKeepsApproval ==
  ASSUME TypeOK, NEW r \in Runs, NEW c \in Causes, Abandoned(r, c), ApprovalFits(r),
         approval' = approval, effects' = effects
  PROVE  ApprovalFits(r)'
  <1>1. task'[r].pc = "aborted" /\ task'[r].seen = task[r].seen
    BY AbandonedDoes DEF Keeps, KeepsTools
  <1> QED BY <1>1, QuietApproval DEF Tooling, Asking, Minding

\* And one that is answered.
LEMMA AnsweredKeepsApproval ==
  ASSUME TypeOK, NEW r \in Runs, Answered(r), ApprovalFits(r),
         approval' = approval, effects' = effects
  PROVE  ApprovalFits(r)'
  <1>1. task'[r].pc \in {"stream", "step", "tool"} /\ task'[r].seen = task[r].seen
    BY AnsweredDoes
  <1> QED BY <1>1, QuietApproval DEF Tooling, Asking, Minding

\* The call in hand is one of the model's calls.
LEMMA CallTyped ==
  ASSUME TypeOK, NEW r \in Runs
  PROVE  task[r].call \in Calls /\ task[r].seen \subseteq Calls
  BY TaskHere DEF TaskType

\* A step keeps ApprovalFits: a call runs once, and a write with the owner's approval.
LEMMA ApprovalStep ==
  ASSUME TypeOK, NEW r \in Runs, CollectedIsFinite(r), ApprovalFits(r), Step(r)
  PROVE  ApprovalFits(r)'
<1>1. CASE Preparing(r)
  <2>1. UNCHANGED <<approval, effects>>
    BY <1>1, PreparingLeaves
  <2>2. task'[r].seen = task[r].seen /\ task'[r].pc \notin Tooling
    BY <1>1, PreparingGoes DEF KeepsTools, Tooling, Asking, Minding
  <2> QED BY <2>1, <2>2, QuietApproval
<1>2. CASE ModelTurn(r)
  <2>1. UNCHANGED <<approval, effects>>
    BY <1>2, ModelTurnLeaves
  <2>2. task'[r].seen = task[r].seen /\ task'[r].pc \notin Tooling \ {"tool"}
    BY <1>2, ModelTurnGoes DEF Tooling, Asking, Minding
  <2> QED BY <2>1, <2>2, QuietApproval
<1>3. CASE ToolCall(r)
  <2>1. CASE Authorize(r)
    <3>1. approval' = approval /\ effects' = effects
      BY <2>1 DEF Authorize, store
    <3>2. CASE Abandoned(r, DeadCause(r))
      BY <3>1, <3>2, DeadCauses, AbandonedKeepsApproval DEF Causes
    <3>3. CASE Answered(r)
      BY <3>1, <3>3, AnsweredKeepsApproval
    <3>4. CASE Goto(r, "launch") /\ Call(r) \notin task[r].seen /\ Call(r) \notin Writes
      <4>1. task'[r].pc = "launch" /\ task'[r].seen = task[r].seen /\ task'[r].call = task[r].call
        BY <3>4, GotoDoes DEF Places, Keeps, KeepsTools
      <4> QED BY <3>1, <3>4, <4>1 DEF ApprovalFits, Tooling, Asking, Minding, Call, At
    <3>5. CASE Goto(r, "ask") /\ Call(r) \notin task[r].seen
      <4>1. task'[r].pc = "ask" /\ task'[r].seen = task[r].seen /\ task'[r].call = task[r].call
        BY <3>5, GotoDoes DEF Places, Keeps, KeepsTools
      <4> QED BY <3>1, <3>5, <4>1 DEF ApprovalFits, Tooling, Asking, Minding, Call, At
    <3> QED BY <2>1, <3>2, <3>3, <3>4, <3>5, AuthorizeDoes
  <2>2. CASE CreateApproval(r)
    <3>1. CASE Dead(r)
      <4>1. Abandoned(r, DeadCause(r)) /\ approval' = approval /\ effects' = effects
        BY <2>2, <3>1 DEF CreateApproval, Alive, store
      <4> QED BY <4>1, DeadCauses, AbandonedKeepsApproval DEF Causes
    <3>2. CASE ~Dead(r)
      <4>1. CASE approval[r][Call(r)] = "absent"
        <5>1. /\ Goto(r, "register") /\ effects' = effects /\ At(r, "ask")
              /\ approval' = [approval EXCEPT ![r][Call(r)] = "pending"]
          BY <2>2, <3>2, <4>1 DEF CreateApproval, Alive
        <5>2. task'[r].pc = "register" /\ task'[r].seen = task[r].seen /\ task'[r].call = task[r].call
          BY <5>1, GotoDoes DEF Places, Keeps, KeepsTools
        <5>3. /\ approval'[r][task[r].call] = "pending"
              /\ \A d \in Calls : d # task[r].call => approval'[r][d] = approval[r][d]
          BY <5>1, CallTyped DEF TypeOK, Call
        <5>4. effects[r][task[r].call] = 0
          BY <5>1, CallTyped DEF ApprovalFits, Tooling, Asking, At, TypeOK
        <5> QED BY <5>1, <5>2, <5>3, <5>4, CallTyped DEF ApprovalFits, Tooling, Asking, Minding,
             At
      <4>2. CASE approval[r][Call(r)] # "absent"
        <5>1. Answered(r) /\ approval' = approval /\ effects' = effects
          BY <2>2, <3>2, <4>2 DEF CreateApproval, Alive
        <5> QED BY <5>1, AnsweredKeepsApproval
      <4> QED BY <4>1, <4>2
    <3> QED BY <3>1, <3>2
  <2>3. CASE RegisterApproval(r)
    <3>1. CASE Dead(r)
      <4>1. Abandoned(r, DeadCause(r)) /\ approval' = approval /\ effects' = effects
        BY <2>3, <3>1 DEF RegisterApproval, Alive, store
      <4> QED BY <4>1, DeadCauses, AbandonedKeepsApproval DEF Causes
    <3>2. CASE ~Dead(r)
      <4>1. Goto(r, "annotate") /\ approval' = approval /\ effects' = effects
        BY <2>3, <3>2 DEF RegisterApproval, Alive, store
      <4>2. task'[r].pc = "annotate" /\ task'[r].seen = task[r].seen /\ task'[r].call = task[r].call
        BY <4>1, GotoDoes DEF Places, Keeps, KeepsTools
      <4> QED BY <2>3, <4>1, <4>2 DEF RegisterApproval, ApprovalFits, Tooling, Asking, Minding,
           Call, At
    <3> QED BY <3>1, <3>2
  <2>4. CASE AnnounceApproval(r)
    <3>1. CASE Dead(r)
      <4>1. Abandoned(r, DeadCause(r)) /\ approval' = approval /\ effects' = effects
        BY <2>4, <3>1 DEF AnnounceApproval, Alive, store
      <4> QED BY <4>1, DeadCauses, AbandonedKeepsApproval DEF Causes
    <3>2. CASE ~Dead(r)
      <4>1. Goto(r, "lookup") /\ approval' = approval /\ effects' = effects
        BY <2>4, <3>2 DEF AnnounceApproval, Alive, store
      <4>2. task'[r].pc = "lookup" /\ task'[r].seen = task[r].seen /\ task'[r].call = task[r].call
        BY <4>1, GotoDoes, SMTT(40) DEF Places, Keeps, KeepsTools
      <4> QED BY <2>4, <4>1, <4>2 DEF AnnounceApproval, ApprovalFits, Tooling, Asking, Minding,
           Call, At
    <3> QED BY <3>1, <3>2
  <2>5. CASE BeginWait(r)
    BY <2>5, CallTyped, GotoDoes
       DEF BeginWait, Places, Keeps, KeepsRoute, KeepsTools, At, ApprovalFits, Tooling, Asking,
           Minding, Call, store, TypeOK
  <2>6. CASE TakeAnswer(r)
    BY <2>6, CallTyped, TakeAnswerDoes, ZenonT(60) DEF TakeAnswer, Answers, Keeps, KeepsRoute,
       KeepsTools, At, ApprovalFits, Tooling, Asking, Minding, Call, store, TypeOK
  <2>7. CASE TakeExpiry(r)
    BY <2>7, CallTyped, GotoDoes
       DEF TakeExpiry, Places, Keeps, KeepsRoute, KeepsTools, At, ApprovalFits, Tooling, Asking,
           Minding, Call, store, TypeOK
  <2>8. CASE WaitEnds(r)
    <3>1. Abandoned(r, DeadCause(r)) /\ approval' = approval /\ effects' = effects
      BY <2>8 DEF WaitEnds, store
    <3> QED BY <3>1, DeadCauses, AbandonedKeepsApproval DEF Causes
  <2>9. CASE RecordAnswer(r)
    <3> DEFINE v == CASE task[r].answer = "deny" -> "denied"
                      [] task[r].answer # "deny" /\ Call(r) \in overdue[r] -> "expired"
                      [] task[r].answer # "deny" /\ Call(r) \notin overdue[r] -> "approved"
               p == IF Approves(r) THEN "launch" ELSE "denied"
    <3>1. /\ approval' = [approval EXCEPT ![r][Call(r)] = v] /\ Goto(r, p) /\ At(r, "decide")
          /\ effects' = effects
      BY <2>9 DEF RecordAnswer
    <3>2. p \in {"launch", "denied"} /\ (p = "launch" => v = "approved")
      BY DEF Approves
    <3> HIDE DEF v, p
    <3>3. task'[r].pc = p /\ task'[r].seen = task[r].seen /\ task'[r].call = task[r].call
      BY <3>1, <3>2, GotoDoes DEF Places, Keeps, KeepsTools
    <3>4. /\ approval'[r][task[r].call] = v
          /\ \A d \in Calls : d # task[r].call => approval'[r][d] = approval[r][d]
      BY <3>1, CallTyped DEF TypeOK, Call
    <3>5. task[r].call \notin task[r].seen /\ effects[r][task[r].call] = 0
      BY <3>1, CallTyped, SMTT(40) DEF ApprovalFits, Tooling, Asking, At, TypeOK
    <3> QED BY <3>1, <3>2, <3>3, <3>4, <3>5, CallTyped DEF ApprovalFits, Tooling, Asking,
         Minding, At
  <2>10. CASE RecordExpiry(r)
    BY <2>10, CallTyped, GotoDoes
       DEF RecordExpiry, Places, Keeps, KeepsRoute, KeepsTools, At, ApprovalFits, Tooling, Asking,
           Minding, Call, store, TypeOK
  <2>11. CASE ReportDenial(r)
    <3>1. CASE Dead(r)
      <4>1. Abandoned(r, DeadCause(r)) /\ approval' = approval /\ effects' = effects
        BY <2>11, <3>1 DEF ReportDenial, Alive, store
      <4> QED BY <4>1, DeadCauses, AbandonedKeepsApproval DEF Causes
    <3>2. CASE ~Dead(r)
      <4>1. Answered(r) /\ approval' = approval /\ effects' = effects
        BY <2>11, <3>2 DEF ReportDenial, Alive, store
      <4> QED BY <4>1, AnsweredKeepsApproval
    <3> QED BY <3>1, <3>2
  <2>12. CASE LaunchTool(r)
    <3>1. CASE Dead(r)
      <4>1. Abandoned(r, DeadCause(r)) /\ approval' = approval /\ effects' = effects
        BY <2>12, <3>1 DEF LaunchTool, Alive, store
      <4> QED BY <4>1, DeadCauses, AbandonedKeepsApproval DEF Causes
    <3>2. CASE ~Dead(r)
      <4>1. Goto(r, IF Call(r) \in Delegates THEN "find" ELSE "effect")
              /\ approval' = approval /\ effects' = effects
        BY <2>12, <3>2 DEF LaunchTool, Alive, store
      <4>2. /\ task'[r].pc = IF Call(r) \in Delegates THEN "find" ELSE "effect"
            /\ task'[r].seen = task[r].seen /\ task'[r].call = task[r].call
        BY <4>1, GotoDoes DEF Places, Keeps, KeepsTools
      <4> QED BY <2>12, <4>1, <4>2 DEF LaunchTool, ApprovalFits, Tooling, Asking, Minding, Call,
           At
    <3> QED BY <3>1, <3>2
  <2>13. CASE ExecuteTool(r)
    BY <2>13, CallTyped, RanDoes
       DEF ExecuteTool, Keeps, KeepsRoute, KeepsTools, At, ApprovalFits, Tooling, Asking, Minding,
           Call, store, TypeOK
  <2>14. CASE ReportTool(r)
    <3>1. CASE task[r].cause # "none" /\ ~Dead(r)
      <4>1. Abandoned(r, task[r].cause) /\ approval' = approval /\ effects' = effects
        BY <2>14, <3>1 DEF ReportTool
      <4> QED BY <4>1, CauseTyped, AbandonedKeepsApproval
    <3>2. CASE Dead(r)
      <4>1. Abandoned(r, DeadCause(r)) /\ approval' = approval /\ effects' = effects
        BY <2>14, <3>2 DEF ReportTool, Alive
      <4> QED BY <4>1, DeadCauses, AbandonedKeepsApproval DEF Causes
    <3>3. CASE task[r].cause = "none" /\ ~Dead(r)
      <4>1. Answered(r) /\ approval' = approval /\ effects' = effects
        BY <2>14, <3>3 DEF ReportTool, Alive
      <4> QED BY <4>1, AnsweredKeepsApproval
    <3> QED BY <3>1, <3>2, <3>3
  <2> QED BY <1>3, <2>1, <2>2, <2>3, <2>4, <2>5, <2>6, <2>7, <2>8, <2>9, <2>10, <2>11, <2>12,
       <2>13, <2>14 DEF ToolCall
<1>4. CASE Delegation(r)
  <2>1. CASE FindDelegation(r)
    <3>1. At(r, "find") /\ approval' = approval /\ effects' = effects
      BY <2>1 DEF FindDelegation
    <3>2. CASE Goto(r, "childQueue")
      <4>1. task'[r].pc = "childQueue" /\ task'[r].seen = task[r].seen /\ task'[r].call = task[r].call
        BY <3>2, GotoDoes DEF Places, Keeps, KeepsTools
      <4> QED BY <3>1, <4>1 DEF ApprovalFits, Tooling, Asking, Minding, At
    <3>3. CASE \E ok \in BOOLEAN : Ran(r, ok)
      <4>1. /\ task'[r].pc = "report"
            /\ task[r].seen \subseteq task'[r].seen
        BY <3>3, RanDoes, SMTT(40)
      <4> QED BY <3>1, <4>1 DEF ApprovalFits, Tooling, Asking, Minding, At
    <3> QED BY <2>1, <3>2, <3>3 DEF FindDelegation
  <2>2. CASE QueueChild(r)
    BY <2>2, CallTyped, GotoDoes, RanDoes, ZenonT(60) DEF QueueChild, MovePair, Places, Keeps,
       KeepsRoute, KeepsTools, At, ApprovalFits, Tooling, Asking, Minding, Call, store, TypeOK
  <2>3. CASE StartChild(r)
    BY <2>3, CallTyped, GotoDoes, RanDoes, ZenonT(60) DEF StartChild, MovePair, Places, Keeps,
       KeepsRoute, KeepsTools, At, ApprovalFits, Tooling, Asking, Minding, Call, store, TypeOK
  <2>4. CASE AcquireChildTurn(r)
    BY <2>4, CallTyped, AcquireChildTurnDoes, ZenonT(60) DEF AcquireChildTurn, Keeps, KeepsRoute,
       KeepsTools, At, ApprovalFits, Tooling, Asking, Minding, Call, store, TypeOK
  <2>5. CASE AcquireChildFails(r)
    <3>1. At(r, "childStart") /\ approval' = approval /\ effects' = effects
      BY <2>5 DEF AcquireChildFails, store
    <3>2. task'[r].pc = "childFail" /\ task'[r].seen = task[r].seen /\ task'[r].call = task[r].call
      BY <2>5, ChildFailsDoes, DeadCauses DEF AcquireChildFails, Causes, Keeps, KeepsTools
    <3> QED BY <3>1, <3>2 DEF ApprovalFits, Tooling, Asking, Minding, At
  <2>6. CASE ChildTurnEnds(r)
    BY <2>6, CallTyped, GotoDoes, ChildFailsDoes, DeadCauses, ZenonT(60) DEF ChildTurnEnds, Places,
       Causes, Keeps, KeepsRoute, KeepsTools, At, ApprovalFits, Tooling, Asking, Minding, Call,
       store, TypeOK
  <2>7. CASE CompleteChild(r)
    <3>1. At(r, "childSave") /\ approval' = approval /\ Ran(r, ~Dead(r))
      BY <2>7 DEF CompleteChild
    <3>2. /\ task'[r].pc = "report"
          /\ ~Dead(r) => task'[r].seen = task[r].seen \cup {task[r].call}
          /\ Dead(r) => task'[r].seen = task[r].seen
      <4>1. (~Dead(r)) \in BOOLEAN
        OBVIOUS
      <4> QED BY <3>1, <4>1, RanDoes
    <3>3. task[r].call \notin task[r].seen /\ task[r].call \in Delegates
      BY <3>1 DEF ApprovalFits, Tooling, Minding, At
    <3>4. effects[r][task[r].call] = 0 /\ task[r].call \notin Writes
      BY <3>3, CallTyped, CallsAssumption DEF ApprovalFits, TypeOK
    <3>5. CASE Dead(r)
      <4>1. effects' = effects
        BY <2>7, <3>5 DEF CompleteChild
      <4> QED BY <3>1, <3>2, <3>5, <4>1 DEF ApprovalFits, Tooling, Asking, Minding, At
    <3>6. CASE ~Dead(r)
      <4>1. effects' = [effects EXCEPT ![r][Call(r)] = @ + 1]
        BY <2>7, <3>6 DEF CompleteChild
      <4>2. /\ effects'[r][task[r].call] = 1
            /\ \A d \in Calls : d # task[r].call => effects'[r][d] = effects[r][d]
        BY <3>4, <4>1, CallTyped, SMTT(40) DEF TypeOK, Call
      <4> QED BY <3>1, <3>2, <3>4, <3>6, <4>2 DEF ApprovalFits, Tooling, Asking, Minding, At
    <3> QED BY <3>5, <3>6
  <2>8. CASE FailChild(r)
    BY <2>8, CallTyped, GotoDoes, RanDoes, ZenonT(60) DEF FailChild, Places, Keeps, KeepsRoute,
       KeepsTools, At, ApprovalFits, Tooling, Asking, Minding, Call, store, TypeOK
  <2>9. CASE CancelChild(r)
    BY <2>9, CallTyped, RanDoes
       DEF CancelChild, Keeps, KeepsRoute, KeepsTools, At, ApprovalFits, Tooling, Asking, Minding,
           Call, store, TypeOK
  <2> QED BY <1>4, <2>1, <2>2, <2>3, <2>4, <2>5, <2>6, <2>7, <2>8, <2>9 DEF Delegation
<1>5. CASE Ending(r)
  <2>1. UNCHANGED <<approval, effects>>
    BY <1>5, EndingLeaves
  <2>2. task'[r].seen = task[r].seen /\ task'[r].pc \notin Tooling
    BY <1>5, EndingGoes DEF KeepsTools, Tooling, Asking, Minding
  <2> QED BY <2>1, <2>2, QuietApproval
<1> QED BY <1>1, <1>2, <1>3, <1>4, <1>5 DEF Step

\* A tool call goes on within executeTool, to its subagent, or back.
LEMMA ToolCallGoes ==
  ASSUME TypeOK, NEW r \in Runs, ToolCall(r)
  PROVE  /\ task[r].pc \in Tooling \ (Minding \cup {"find"})
         /\ task'[r].pc \in {"stream", "step", "aborted"} \cup (Tooling \ Minding)
         /\ KeepsRoute(r) /\ task'[r].held = task[r].held /\ task'[r].todo \subseteq task[r].todo
  <1>1. CASE Authorize(r)
    <2>1. \/ Abandoned(r, DeadCause(r)) \/ Answered(r) \/ Goto(r, "launch") \/ Goto(r, "ask")
      BY <1>1, AuthorizeDoes
    <2>2. task[r].pc \in Tooling \ (Minding \cup {"find"})
      BY <1>1, AuthorizeDoes DEF Tooling, Minding, Asking, At
    <2>3. CASE Abandoned(r, DeadCause(r))
      BY <2>2, <2>3, AbandonedDoes, DeadCauses DEF Causes, Keeps, KeepsRoute, KeepsTools
    <2>4. CASE Answered(r)
      BY <2>2, <2>4, AnsweredDoes DEF Tooling, Minding, Asking
    <2>5. CASE Goto(r, "launch") \/ Goto(r, "ask")
      BY <2>2, <2>5, GotoDoes DEF Places, Keeps, KeepsRoute, KeepsTools, Tooling, Minding, Asking
    <2> QED BY <2>1, <2>3, <2>4, <2>5
  <1>2. CASE CreateApproval(r)
    BY <1>2, GotoDoes, AbandonedDoes, AnsweredDoes, DeadCauses
       DEF CreateApproval, Alive, Places, Causes, Keeps, KeepsRoute, KeepsTools, At, Tooling,
           Asking, Minding
  <1>3. CASE RegisterApproval(r)
    BY <1>3, GotoDoes, AbandonedDoes, DeadCauses
       DEF RegisterApproval, Alive, Places, Causes, Keeps, KeepsRoute, KeepsTools, At, Tooling,
           Asking, Minding
  <1>4. CASE AnnounceApproval(r)
    BY <1>4, GotoDoes, AbandonedDoes, DeadCauses
       DEF AnnounceApproval, Places, Causes, Keeps, KeepsRoute, KeepsTools, At, Tooling, Asking,
           Minding
  <1>5. CASE BeginWait(r)
    BY <1>5, GotoDoes
       DEF BeginWait, Places, Keeps, KeepsRoute, KeepsTools, At, Tooling, Asking, Minding
  <1>6. CASE TakeAnswer(r)
    BY <1>6, TakeAnswerDoes
       DEF TakeAnswer, Answers, Keeps, KeepsRoute, KeepsTools, At, Tooling, Asking, Minding
  <1>7. CASE TakeExpiry(r)
    BY <1>7, GotoDoes
       DEF TakeExpiry, Places, Keeps, KeepsRoute, KeepsTools, At, Tooling, Asking, Minding
  <1>8. CASE WaitEnds(r)
    BY <1>8, AbandonedDoes, DeadCauses
       DEF WaitEnds, Causes, Keeps, KeepsRoute, KeepsTools, At, Tooling, Asking, Minding
  <1>9. CASE RecordAnswer(r)
    BY <1>9, GotoDoes
       DEF RecordAnswer, Places, Keeps, KeepsRoute, KeepsTools, At, Tooling, Asking, Minding
  <1>10. CASE RecordExpiry(r)
    BY <1>10, GotoDoes
       DEF RecordExpiry, Places, Keeps, KeepsRoute, KeepsTools, At, Tooling, Asking, Minding
  <1>11. CASE ReportDenial(r)
    BY <1>11, AbandonedDoes, AnsweredDoes, DeadCauses
       DEF ReportDenial, Alive, Causes, Keeps, KeepsRoute, KeepsTools, At, Tooling, Asking,
           Minding
  <1>12. CASE LaunchTool(r)
    BY <1>12, GotoDoes, AbandonedDoes, DeadCauses
       DEF LaunchTool, Alive, Places, Causes, Keeps, KeepsRoute, KeepsTools, At, Tooling, Asking,
           Minding
  <1>13. CASE ExecuteTool(r)
    BY <1>13, RanDoes DEF ExecuteTool, Keeps, KeepsRoute, KeepsTools, At, Tooling, Asking, Minding
  <1>14. CASE ReportTool(r)
    BY <1>14, AbandonedDoes, AnsweredDoes, DeadCauses, CauseTyped
       DEF ReportTool, Alive, Causes, Keeps, KeepsRoute, KeepsTools, At, Tooling, Asking, Minding
  <1> QED BY <1>1, <1>2, <1>3, <1>4, <1>5, <1>6, <1>7, <1>8, <1>9, <1>10, <1>11, <1>12, <1>13,
       <1>14 DEF ToolCall

\* A step keeps GateFits: a run that ends takes its gates along.
LEMMA GateStep ==
  ASSUME TypeOK, NEW r \in Runs, CollectedIsFinite(r), GateFits(r), Step(r)
  PROVE  GateFits(r)'
<1>1. CASE Preparing(r)
  <2>1. gate' = gate
    BY <1>1, PreparingLeaves DEF clicks
  <2>2. task'[r].pc \in {"idle", "created", "queued", "done", "lost"} =>
          task[r].pc \in {"idle", "created", "queued", "done", "lost"}
    BY <1>1, PreparingGoes
  <2> QED BY <2>1, <2>2 DEF GateFits
<1>2. CASE ModelTurn(r)
  <2> QED BY <1>2, ModelTurnGoes DEF GateFits
<1>3. CASE ToolCall(r)
  <2> QED BY <1>3, ToolCallGoes DEF GateFits, Tooling, Asking, Minding
<1>4. CASE Delegation(r)
  <2> QED BY <1>4, DelegationGoes DEF GateFits, Minding
<1>5. CASE Ending(r)
  <2>1. CASE Finish(r)
    <3>1. \A c \in Calls : gate'[r][c] = "absent"
      BY <2>1 DEF Finish, Dropped, TypeOK
    <3> QED BY <3>1 DEF GateFits
  <2>2. CASE ~Finish(r)
    <3>1. task[r].pc \in {"aborted", "segments", "complete", "fail", "cancelled", "told"}
      BY <1>5, <2>2 DEF Ending, LeaveRoute, SaveSegments, CompleteRun, FailRun, RecordCancelled,
                      Tell, At
    <3>2. task'[r].pc # "done"
      BY <1>5, <2>2, LeaveRouteDoes, FailRunDoes, GotoDoes, FailingDoes, DeadCauses
         DEF Ending, SaveSegments, CompleteRun, RecordCancelled, Tell, Places, Causes
    <3>3. task'[r].pc \notin {"idle", "created", "queued", "done", "lost"}
      BY <1>5, <3>2, EndingGoes
    <3> QED BY <3>3 DEF GateFits
  <2> QED BY <2>1, <2>2
<1> QED BY <1>1, <1>2, <1>3, <1>4, <1>5 DEF Step

-----------------------------------------------------------------------------
(* A step keeps the rest: the subagents, and the silence of a first route. *)

\* A subagent's run and its delegation are saved together.
LEMMA PairSavedDoes ==
  ASSUME TypeOK, NEW r \in Runs, NEW to \in RunStates, PairSaved(r, to)
  PROVE  /\ child' \in [Runs -> [Calls -> ChildType]]
         /\ child'[r][task[r].call].run = to /\ child'[r][task[r].call].status = to
         /\ \A d \in Calls : d # task[r].call => child'[r][d] = child[r][d]
  <1> DEFINE new == [run |-> to, status |-> to]
  <1>1. new \in ChildType /\ new.run = to /\ new.status = to
    BY DEF ChildType
  <1>2. child' = [child EXCEPT ![r][task[r].call] = new]
    BY DEF PairSaved, Call
  <1> HIDE DEF new
  <1> QED BY <1>1, <1>2, CallTyped DEF TypeOK

\* No subagent is under way, or only that of the call in hand.
NoneUnfinished(r) == \A c \in Calls : ~Unfinished(r, c)
OthersFinished(r) == \A c \in Calls : Unfinished(r, c) => c = task[r].call

\* Child and delegation of every call tell the same.
ChildrenAgree(r) == \A c \in Calls : child[r][c].run = child[r][c].status

\* ChildrenFit, by where the goroutine is.
LEMMA ChildrenHere ==
  ASSUME NEW r \in Runs, ChildrenFit(r)
  PROVE  /\ ChildrenAgree(r)
         /\ task[r].pc \in Minding => OthersFinished(r)
         /\ task[r].pc \notin {"report", "aborted"} \cup Minding \cup Leaving => NoneUnfinished(r)
  BY DEF ChildrenFit, ChildrenAgree, OthersFinished, NoneUnfinished, Minding, Leaving, At

\* No subagent is touched.
LEMMA QuietChildren ==
  ASSUME NEW r \in Runs, ChildrenAgree(r), NoneUnfinished(r), child' = child
  PROVE  ChildrenFit(r)'
  BY DEF ChildrenFit, ChildrenAgree, NoneUnfinished, Unfinished

\* The pair is saved.
LEMMA SavedChildren ==
  ASSUME TypeOK, NEW r \in Runs, NEW to \in RunStates, PairSaved(r, to), ChildrenAgree(r),
         OthersFinished(r), task'[r].call = task[r].call,
         task'[r].pc \in Minding \/ to \in Terminal
  PROVE  ChildrenFit(r)'
  <1>1. \A d \in Calls : child'[r][d].run = child'[r][d].status
    BY PairSavedDoes DEF ChildrenAgree
  <1>2. \A d \in Calls : d # task[r].call => ~Unfinished(r, d)'
    BY PairSavedDoes DEF OthersFinished, Unfinished
  <1>3. to \in Terminal => ~Unfinished(r, task[r].call)'
    BY PairSavedDoes DEF Unfinished
  <1> QED BY <1>1, <1>2, <1>3 DEF ChildrenFit

\* The parent's context has ended: the pair stays as it is.
LEMMA LeftChildren ==
  ASSUME NEW r \in Runs, ChildrenAgree(r), child' = child, task'[r].pc = "report", Dead(r),
         UNCHANGED <<context, timeUp>>
  PROVE  ChildrenFit(r)'
  BY DEF ChildrenFit, ChildrenAgree, Dead, At, Unfinished

\* And so it does while its parent goes.
LEMMA LeavingChildren ==
  ASSUME NEW r \in Runs, ChildrenAgree(r), child' = child,
         \/ task'[r].pc = "aborted" /\ task'[r].cause # "eligible"
         \/ task'[r].pc \in Leaving /\ row'[r].state # "completed"
  PROVE  ChildrenFit(r)'
  BY DEF ChildrenFit, ChildrenAgree, At, Unfinished

\* A step keeps ChildrenFit.
LEMMA ChildrenStep ==
  ASSUME TypeOK, NEW r \in Runs, CollectedIsFinite(r), StateFits(r), CauseFits(r), ChildrenFit(r), Step(r)
  PROVE  ChildrenFit(r)'
<1>0. /\ ChildrenAgree(r)
      /\ task[r].pc \in Minding => OthersFinished(r)
      /\ task[r].pc \notin {"report", "aborted"} \cup Minding \cup Leaving => NoneUnfinished(r)
  BY ChildrenHere
<1>1. CASE Preparing(r)
  <2>1. child' = child
    BY <1>1, PreparingLeaves
  <2>2. NoneUnfinished(r)
    BY <1>1, <1>0, PreparingGoes DEF Minding, Leaving
  <2> QED BY <1>0, <2>1, <2>2, QuietChildren
<1>2. CASE ModelTurn(r)
  <2>1. child' = child
    BY <1>2, ModelTurnLeaves
  <2>2. NoneUnfinished(r)
    BY <1>2, <1>0, ModelTurnGoes DEF Minding, Leaving
  <2> QED BY <1>0, <2>1, <2>2, QuietChildren
<1>3. CASE ToolCall(r)
  <2>1. child' = child
    BY <1>3, ToolCallLeaves
  <2>2. CASE ReportTool(r) /\ Dead(r)
    <3>1. Abandoned(r, DeadCause(r))
      BY <2>2 DEF ReportTool, Alive
    <3>2. task'[r].pc = "aborted" /\ task'[r].cause # "eligible"
      BY <3>1, AbandonedDoes, DeadCauses DEF Causes
    <3> QED BY <1>0, <2>1, <3>2, LeavingChildren
  <2>3. CASE ~(ReportTool(r) /\ Dead(r))
    <3>1. task[r].pc \notin {"aborted"} \cup Minding \cup Leaving
      BY <1>3, ToolCallGoes DEF Tooling, Asking, Minding, Leaving
    <3>2. task[r].pc = "report" => ~Dead(r)
      BY <1>3, <2>3 DEF ToolCall, Authorize, CreateApproval, RegisterApproval, AnnounceApproval,
         BeginWait, TakeAnswer, TakeExpiry, WaitEnds, RecordAnswer, RecordExpiry, ReportDenial,
         LaunchTool, ExecuteTool, At
    <3>3. NoneUnfinished(r)
      BY <3>1, <3>2 DEF ChildrenFit, NoneUnfinished, At
    <3> QED BY <1>0, <2>1, <3>3, QuietChildren
  <2> QED BY <2>2, <2>3
<1>4. CASE Delegation(r)
  <2>1. CASE FindDelegation(r)
    <3>1. NoneUnfinished(r) /\ OthersFinished(r)
      BY <2>1, <1>0 DEF FindDelegation, At, Minding, Leaving, NoneUnfinished, OthersFinished
    <3>2. CASE child' = child
      BY <1>0, <3>1, <3>2, QuietChildren
    <3>3. CASE Goto(r, "childQueue") /\ PairSaved(r, "created")
      <4>1. task'[r].pc \in Minding /\ task'[r].call = task[r].call /\ "created" \in RunStates
        BY <3>3, GotoDoes DEF Places, Minding, Keeps, KeepsTools, RunStates
      <4> QED BY <1>0, <3>1, <3>3, <4>1, SavedChildren
    <3> QED BY <2>1, <3>2, <3>3 DEF FindDelegation
  <2>2. CASE QueueChild(r)
    <3>1. task[r].pc \in Minding /\ UNCHANGED <<context, timeUp>>
      BY <2>2 DEF QueueChild, MovePair, At, Minding
    <3>2. CASE Dead(r)
      <4>1. child' = child /\ task'[r].pc = "report"
        BY <2>2, <3>2, RanDoes DEF QueueChild, MovePair
      <4> QED BY <1>0, <3>1, <3>2, <4>1, LeftChildren
    <3>3. CASE ~Dead(r)
      <4>1. PairSaved(r, "queued") /\ Goto(r, "childRun")
        BY <2>2, <3>3 DEF QueueChild, MovePair
      <4>2. task'[r].pc \in Minding /\ task'[r].call = task[r].call /\ "queued" \in RunStates
        BY <4>1, GotoDoes DEF Places, Minding, Keeps, KeepsTools, RunStates
      <4> QED BY <1>0, <3>1, <4>1, <4>2, SavedChildren
    <3> QED BY <3>2, <3>3
  <2>3. CASE StartChild(r)
    <3>1. task[r].pc \in Minding /\ UNCHANGED <<context, timeUp>>
      BY <2>3 DEF StartChild, MovePair, At, Minding
    <3>2. CASE Dead(r)
      <4>1. child' = child /\ task'[r].pc = "report"
        BY <2>3, <3>2, RanDoes DEF StartChild, MovePair
      <4> QED BY <1>0, <3>1, <3>2, <4>1, LeftChildren
    <3>3. CASE ~Dead(r)
      <4>1. PairSaved(r, "running") /\ Goto(r, "childStart")
        BY <2>3, <3>3 DEF StartChild, MovePair
      <4>2. task'[r].pc \in Minding /\ task'[r].call = task[r].call /\ "running" \in RunStates
        BY <4>1, GotoDoes DEF Places, Minding, Keeps, KeepsTools, RunStates
      <4> QED BY <1>0, <3>1, <4>1, <4>2, SavedChildren
    <3> QED BY <3>2, <3>3
  <2>4. CASE AcquireChildTurn(r)
    <3>1. task[r].pc \in Minding /\ task'[r].pc \in Minding /\ task'[r].call = task[r].call
            /\ child' = child
      BY <2>4, AcquireChildTurnDoes DEF AcquireChildTurn, store, Minding, At, Keeps, KeepsTools,
           Places, Causes
    <3> QED BY <1>0, <3>1 DEF ChildrenFit, ChildrenAgree, OthersFinished, Unfinished
  <2>5. CASE AcquireChildFails(r)
    <3>1. task[r].pc \in Minding /\ task'[r].pc \in Minding /\ task'[r].call = task[r].call
            /\ child' = child
      BY <2>5, ChildFailsDoes, DeadCauses DEF AcquireChildFails, store, Minding, At, Keeps,
           KeepsTools, Places, Causes
    <3> QED BY <1>0, <3>1 DEF ChildrenFit, ChildrenAgree, OthersFinished, Unfinished
  <2>6. CASE ChildTurnEnds(r)
    <3>1. task[r].pc \in Minding /\ task'[r].pc \in Minding /\ task'[r].call = task[r].call
            /\ child' = child
      BY <2>6, GotoDoes, ChildFailsDoes, DeadCauses DEF ChildTurnEnds, store, Minding, At,
           Keeps, KeepsTools, Places, Causes
    <3> QED BY <1>0, <3>1 DEF ChildrenFit, ChildrenAgree, OthersFinished, Unfinished
  <2>7. CASE CompleteChild(r)
    <3>1. task[r].pc \in Minding /\ UNCHANGED <<context, timeUp>>
      BY <2>7 DEF CompleteChild, At, Minding
    <3>2. (~Dead(r)) \in BOOLEAN /\ Ran(r, ~Dead(r))
      BY <2>7 DEF CompleteChild
    <3>3. task'[r].pc = "report" /\ task'[r].call = task[r].call
      BY <3>2, RanDoes
    <3>4. CASE Dead(r)
      <4>1. child' = child
        BY <2>7, <3>4 DEF CompleteChild
      <4> QED BY <1>0, <3>1, <3>3, <3>4, <4>1, LeftChildren
    <3>5. CASE ~Dead(r)
      <4>1. PairSaved(r, "completed") /\ "completed" \in RunStates \cap Terminal
        BY <2>7, <3>5 DEF CompleteChild, RunStates, Terminal
      <4> QED BY <1>0, <3>1, <3>3, <4>1, SavedChildren
    <3> QED BY <3>4, <3>5
  <2>8. CASE FailChild(r)
    <3>1. task[r].pc \in Minding
      BY <2>8 DEF FailChild, At, Minding
    <3>2. CASE PairSaved(r, "failed") /\ Ran(r, FALSE)
      <4>1. task'[r].call = task[r].call /\ "failed" \in RunStates \cap Terminal
        BY <3>2, RanDoes DEF RunStates, Terminal
      <4> QED BY <1>0, <3>1, <3>2, <4>1, SavedChildren
    <3>3. CASE PairSaved(r, "cancelling") /\ Goto(r, "childCancel")
      <4>1. task'[r].pc \in Minding /\ task'[r].call = task[r].call /\ "cancelling" \in RunStates
        BY <3>3, GotoDoes DEF Places, Minding, Keeps, KeepsTools, RunStates
      <4> QED BY <1>0, <3>1, <3>3, <4>1, SavedChildren
    <3> QED BY <2>8, <3>2, <3>3 DEF FailChild
  <2>9. CASE CancelChild(r)
    <3>1. task[r].pc \in Minding /\ PairSaved(r, "cancelled") /\ Ran(r, FALSE)
      BY <2>9 DEF CancelChild, At, Minding
    <3>2. task'[r].call = task[r].call /\ "cancelled" \in RunStates \cap Terminal
      BY <3>1, RanDoes DEF RunStates, Terminal
    <3> QED BY <1>0, <3>1, <3>2, SavedChildren
  <2> QED BY <1>4, <2>1, <2>2, <2>3, <2>4, <2>5, <2>6, <2>7, <2>8, <2>9 DEF Delegation
<1>5. CASE Ending(r)
  <2>1. CASE LeaveRoute(r)
    <3>1. At(r, "aborted") /\ child' = child /\ row' = row /\ row[r].state # "completed"
      BY <2>1 DEF LeaveRoute, store, StateFits, At
    <3>2. CASE task[r].cause = "eligible"
      <4>1. NoneUnfinished(r)
        BY <3>1, <3>2 DEF ChildrenFit, NoneUnfinished, Minding, Leaving, At
      <4> QED BY <1>0, <3>1, <4>1, QuietChildren
    <3>3. CASE task[r].cause # "eligible"
      <4>1. task'[r].pc = "fail"
        BY <2>1, <3>3, LeaveRouteDoes
      <4> QED BY <1>0, <3>1, <4>1, LeavingChildren DEF Leaving
    <3> QED BY <3>2, <3>3
  <2>2. CASE SaveSegments(r)
    <3>1. child' = child /\ NoneUnfinished(r)
      BY <2>2, <1>0 DEF SaveSegments, store, At, Minding, Leaving
    <3> QED BY <1>0, <3>1, QuietChildren
  <2>3. CASE CompleteRun(r)
    <3>1. child' = child /\ NoneUnfinished(r)
      BY <2>3, <1>0 DEF CompleteRun, At, Minding, Leaving
    <3> QED BY <1>0, <3>1, QuietChildren
  <2>4. CASE FailRun(r)
    <3>1. At(r, "fail") /\ child' = child /\ row[r].state # "completed"
      BY <2>4 DEF FailRun, StateFits, At
    <3>2. row' = row \/ row'[r].state \in {"cancelling", "failed"}
      BY <2>4, FailRunDoes, SavedDoes DEF RowsKept, RunStates
    <3>3. task'[r].pc \in Leaving
      BY <2>4, FailRunDoes DEF Leaving
    <3> QED BY <1>0, <3>1, <3>2, <3>3, LeavingChildren
  <2>5. CASE RecordCancelled(r)
    <3>1. At(r, "cancelled") /\ child' = child /\ row[r].state # "completed"
      BY <2>5 DEF RecordCancelled, CauseFits, At
    <3>2. row' = row \/ row'[r].state = "cancelled"
      BY <2>5, SavedDoes DEF RecordCancelled, RunStates
    <3>3. task'[r].pc \in Leaving
      BY <2>5, GotoDoes DEF RecordCancelled, Places, Leaving
    <3> QED BY <1>0, <3>1, <3>2, <3>3, LeavingChildren
  <2>6. CASE Tell(r)
    <3>1. At(r, "told") /\ child' = child /\ row' = row
      BY <2>6 DEF Tell, store
    <3>2. task'[r].pc = "close"
      BY <2>6, GotoDoes DEF Tell, Places
    <3> QED BY <3>1, <3>2 DEF ChildrenFit, Unfinished, At, Leaving, Minding
  <2>7. CASE Finish(r)
    <3>1. At(r, "close") /\ child' = child /\ row' = row
      BY <2>7 DEF Finish, store
    <3>2. task'[r].pc = "done"
      BY <2>7, GotoDoes DEF Finish, Places
    <3> QED BY <3>1, <3>2 DEF ChildrenFit, Unfinished, At, Leaving, Minding
  <2> QED BY <1>5, <2>1, <2>2, <2>3, <2>4, <2>5, <2>6, <2>7 DEF Ending
<1> QED BY <1>1, <1>2, <1>3, <1>4, <1>5 DEF Step

\* The last event shows nothing of the answer.
LEMMA EndShows ==
  ASSUME TypeOK, NEW r \in Runs, NEW x \in Ends, shown'[r] = Ended(Closed(shown[r]), x)
  PROVE  shown'[r].output = shown[r].output
  <1> DEFINE u == Closed(shown[r])
  <1>1. u \in ShownType /\ u.output = shown[r].output /\ shown'[r] = Ended(u, x)
    BY ShownHere, ClosedDoes
  <1> HIDE DEF u
  <1> QED BY <1>1, EndedDoes

\* Giving up shows nothing of the answer.
LEMMA FailsShows ==
  ASSUME TypeOK, NEW r \in Runs, NEW c \in Causes, Fails(r, c)
  PROVE  shown'[r].output = shown[r].output
  <1>1. task[r].attempt \in {1, 2}
    BY TaskHere DEF TaskType
  <1>2. CASE task[r].attempt = 1
    BY <1>2, FailsDoes
  <1>3. CASE task[r].attempt = 2
    <2>1. PICK x \in {"cancelled", "error"} : shown'[r] = Ended(Closed(shown[r]), x)
      BY <1>3, FailsDoes
    <2> QED BY <2>1, EndShows DEF Ends
  <1> QED BY <1>1, <1>2, <1>3

\* Nor does preparing.
LEMMA PreparingShows ==
  ASSUME TypeOK, NEW r \in Runs, Preparing(r)
  PROVE  shown'[r].output = shown[r].output
  <1>1. CASE SetupFails(r)
    BY <1>1, SetupFailsTells DEF GoesOn
  <1>2. CASE shown' = [shown EXCEPT ![r] = Sent(@)]
    BY <1>2, SentTells DEF GoesOn
  <1>3. CASE shown' = shown
    BY <1>3
  <1> QED BY <1>1, <1>2, <1>3 DEF Preparing, Enqueue, Register, Admit, SetupDone, SwitchRoute,
             AuditSwitch, PersistBudget, AssembleContext

\* Nor does an end.
LEMMA EndingShows ==
  ASSUME TypeOK, NEW r \in Runs, TellingFits(r), Ending(r)
  PROVE  shown'[r].output = shown[r].output
  <1>1. CASE LeaveRoute(r)
    BY <1>1, LeaveRouteTells DEF GoesOn
  <1>2. CASE Tell(r)
    <2>1. PICK x \in Ends : shown'[r] = Ended(Closed(shown[r]), x)
      BY <1>2, TellTells DEF Ends
    <2> QED BY <2>1, EndShows
  <1>3. CASE Finish(r)
    <2>1. shown[r].terminal # "none" /\ ~shown[r].pending /\ ~shown[r].segment
      BY <1>3 DEF Finish, TellingFits
    <2> QED BY <1>3, <2>1, FinishTells
  <1>4. CASE shown' = shown
    BY <1>4
  <1> QED BY <1>1, <1>2, <1>3, <1>4 DEF Ending, SaveSegments, CompleteRun, FailRun,
       RecordCancelled

\* The route is committed, and nothing is being prepared.
LEMMA CommittedSilence ==
  ASSUME NEW r \in Runs, task'[r].committed,
         task'[r].pc \notin {"idle", "created", "queued"} \cup Preparations
  PROVE  SilenceFits(r)'
  BY DEF SilenceFits, Preparations, At

\* Nothing was shown, and nothing begins that would be.
LEMMA QuietSilence ==
  ASSUME NEW r \in Runs, SilenceFits(r), task'[r].committed = task[r].committed,
         task'[r].attempt = task[r].attempt, task'[r].todo \subseteq task[r].todo,
         shown'[r].output = shown[r].output, record' = record, effects' = effects,
         ~task[r].committed => task'[r].pc \notin Tooling,
         task'[r].pc \notin {"idle", "created", "queued"} \cup Preparations
  PROVE  SilenceFits(r)'
  BY DEF SilenceFits, Preparations, At

\* Giving up keeps SilenceFits.
LEMMA FailsKeepsSilence ==
  ASSUME TypeOK, NEW r \in Runs, NEW c \in Causes, Fails(r, c), SilenceFits(r),
         record' = record, effects' = effects
  PROVE  SilenceFits(r)'
  <1>1. task'[r].pc = "aborted" /\ KeepsRoute(r) /\ KeepsTools(r)
    BY FailsDoes DEF Keeps
  <1>2. shown'[r].output = shown[r].output
    BY FailsShows
  <1> QED BY <1>1, <1>2, QuietSilence DEF KeepsRoute, KeepsTools, Tooling, Asking, Minding,
             Preparations

\* A step keeps SilenceFits: what the owner has seen commits the attempt.
LEMMA SilenceStep ==
  ASSUME TypeOK, NEW r \in Runs, CollectedIsFinite(r), TellingFits(r), SilenceFits(r), Step(r)
  PROVE  SilenceFits(r)'
<1>1. CASE Preparing(r)
  <2>1. record' = record /\ effects' = effects /\ shown'[r].output = shown[r].output
    BY <1>1, PreparingLeaves, PreparingShows
  <2>2. /\ task'[r].committed = task[r].committed /\ task'[r].todo = task[r].todo
        /\ task'[r].pc \notin Tooling /\ task'[r].pc # "idle"
    BY <1>1, PreparingGoes DEF KeepsTools, Tooling, Asking, Minding
  <2>3. /\ task'[r].pc \in {"created", "queued", "setup", "budget", "context", "begin"}
              /\ task'[r].attempt = 1 => ~task[r].committed
        /\ task'[r].pc = "switch" => task'[r].attempt = 1 /\ ~task[r].committed
    BY <1>1, PreparingGoes DEF SilenceFits
  <2> QED BY <2>1, <2>2, <2>3 DEF SilenceFits, At
<1>2. CASE ModelTurn(r)
  <2>1. CASE BeginRun(r)
    <3>0. record' = record /\ effects' = effects
      BY <2>1 DEF BeginRun, store
    <3>1. /\ task'[r].pc \in {"aborted", "step"} /\ KeepsRoute(r) /\ KeepsTools(r)
          /\ shown' = shown
      BY <2>1, BeginRunDoes DEF BeginRun
    <3> QED BY <3>0, <3>1, QuietSilence DEF KeepsRoute, KeepsTools, Tooling, Asking, Minding,
         Preparations
  <2>2. CASE BeginStep(r)
    <3>0. record' = record /\ effects' = effects
      BY <2>2 DEF BeginStep, store
    <3>1. CASE Dead(r) \/ task[r].step = MaxSteps
      <4>1. Fails(r, DeadCause(r))
        BY <2>2, <3>1 DEF BeginStep
      <4> QED BY <3>0, <4>1, DeadCauses, FailsKeepsSilence DEF Causes
    <3>2. CASE ~(Dead(r) \/ task[r].step = MaxSteps)
      <4>1. task'[r].pc = "start" /\ KeepsRoute(r) /\ task'[r].todo = {} /\ shown' = shown
        BY <2>2, <3>2, BeginStepDoes DEF BeginStep
      <4> QED BY <3>0, <4>1, QuietSilence, SMTT(40) DEF KeepsRoute, Tooling, Asking, Minding,
           Preparations
    <3> QED BY <3>1, <3>2
  <2>3. CASE AcquireTurn(r)
    <3>0. record' = record /\ effects' = effects
      BY <2>3 DEF AcquireTurn, store
    <3>1. task'[r].pc = "stream" /\ Keeps(r) /\ shown' = shown
      BY <2>3, GotoDoes DEF AcquireTurn, Places
    <3> QED BY <3>0, <3>1, QuietSilence DEF Keeps, KeepsRoute, KeepsTools, Tooling, Asking,
         Minding,
         Preparations
  <2>4. CASE AcquireFails(r)
    <3>0. record' = record /\ effects' = effects
      BY <2>4 DEF AcquireFails, store
    <3>1. Fails(r, DeadCause(r))
      BY <2>4 DEF AcquireFails
    <3> QED BY <3>0, <3>1, DeadCauses, FailsKeepsSilence DEF Causes
  <2>5. CASE TextDelta(r)
    BY <2>5, TextDeltaDoes, CommittedSilence DEF Preparations
  <2>6. CASE \E c \in CallsOf[r] : ProposeCall(r, c)
    <3>1. PICK c \in Calls : ProposeCall(r, c)
      BY <2>6, CallsAssumption
    <3> QED BY <3>1, ProposeCallDoes, CommittedSilence DEF Preparations
  <2>7. CASE CallDuringStream(r)
    <3>0. record' = record /\ effects' = effects
      BY <2>7 DEF CallDuringStream, store
    <3>1. CASE Fails(r, "error")
      BY <3>0, <3>1, FailsKeepsSilence DEF Causes
    <3>2. CASE task'[r].pc = "tool" /\ task'[r].call \in task[r].todo
      <4>1. task'[r].committed = task[r].committed /\ task[r].committed
        BY <2>7, <3>2, CallDuringStreamDoes DEF KeepsRoute, SilenceFits
      <4> QED BY <3>2, <4>1, CommittedSilence DEF Preparations
    <3> QED BY <2>7, <3>1, <3>2, CallDuringStreamDoes
  <2>8. CASE EndStream(r)
    <3>0. record' = record /\ effects' = effects
      BY <2>8 DEF EndStream, store
    <3>1. CASE Fails(r, "error")
      BY <3>0, <3>1, FailsKeepsSilence DEF Causes
    <3>2. CASE task'[r].pc = "tool" /\ task'[r].call \in task[r].todo
      <4>1. task'[r].committed = task[r].committed /\ task[r].committed
        BY <2>8, <3>2, EndStreamDoes DEF KeepsRoute, SilenceFits
      <4> QED BY <3>2, <4>1, CommittedSilence DEF Preparations
    <3>3. CASE task'[r].pc = "step" /\ shown' = shown
      <4>1. KeepsRoute(r) /\ task'[r].todo = task[r].todo
        BY <2>8, EndStreamDoes
      <4> QED BY <3>0, <3>3, <4>1, QuietSilence DEF KeepsRoute, Tooling, Asking, Minding,
           Preparations
    <3>4. CASE task'[r].pc = "segments" /\ shown' = [shown EXCEPT ![r] = Closed(Passed(r, @))]
      <4>1. KeepsRoute(r) /\ task'[r].todo = task[r].todo /\ At(r, "stream")
        BY <2>8, EndStreamDoes
      <4>2. shown[r].terminal = "none"
        BY <4>1, SilentUntilEnd DEF Leaving, At
      <4>3. shown'[r].output = shown[r].output
        BY <3>4, <4>2, AnswerTells DEF GoesOn
      <4> QED BY <3>0, <3>4, <4>1, <4>3, QuietSilence DEF KeepsRoute, Tooling, Asking, Minding,
           Preparations
    <3> QED BY <2>8, <3>1, <3>2, <3>3, <3>4, EndStreamDoes
  <2>9. CASE StreamFails(r)
    <3>0. record' = record /\ effects' = effects
      BY <2>9 DEF StreamFails, store
    <3>1. PICK c \in {"eligible", "error", "cancelled"} : Fails(r, c)
      BY <2>9, DeadCauses DEF StreamFails
    <3> QED BY <3>0, <3>1, FailsKeepsSilence DEF Causes
  <2> QED BY <1>2, <2>1, <2>2, <2>3, <2>4, <2>5, <2>6, <2>7, <2>8, <2>9 DEF ModelTurn
<1>3. CASE ToolCall(r)
  <2>1. task[r].committed
    BY <1>3, ToolCallGoes DEF SilenceFits
  <2>2. task'[r].committed /\ task'[r].pc \notin {"idle", "created", "queued"} \cup Preparations
    BY <1>3, <2>1, ToolCallGoes DEF KeepsRoute, Tooling, Asking, Minding, Preparations
  <2> QED BY <2>2, CommittedSilence
<1>4. CASE Delegation(r)
  <2>1. task[r].committed
    BY <1>4, DelegationGoes DEF SilenceFits, Tooling
  <2>2. task'[r].committed /\ task'[r].pc \notin {"idle", "created", "queued"} \cup Preparations
    BY <1>4, <2>1, DelegationGoes DEF KeepsRoute, Minding, Preparations
  <2> QED BY <2>2, CommittedSilence
<1>5. CASE Ending(r)
  <2>1. record' = record /\ effects' = effects /\ shown'[r].output = shown[r].output
    BY <1>5, EndingLeaves, EndingShows
  <2>2. /\ task'[r].committed = task[r].committed /\ task'[r].todo = task[r].todo
        /\ task'[r].attempt = task[r].attempt
    BY <1>5, EndingGoes DEF KeepsRoute, KeepsTools
  <2>3. CASE task'[r].pc = "switch"
    <3>1. task[r].attempt = 1 /\ ~task[r].committed
      BY <1>5, <2>3, EndingGoes
    <3> QED BY <2>1, <2>2, <2>3, <3>1 DEF SilenceFits, At, Tooling, Asking, Minding
  <2>4. CASE task'[r].pc # "switch"
    <3>1. task'[r].pc \notin {"idle", "created", "queued"} \cup Preparations \cup Tooling
      BY <1>5, <2>4, EndingGoes DEF Preparations, Tooling, Asking, Minding
    <3> QED BY <2>1, <2>2, <3>1, QuietSilence
  <2> QED BY <2>3, <2>4
<1> QED BY <1>1, <1>2, <1>3, <1>4, <1>5 DEF Step

-----------------------------------------------------------------------------
(* The slot of the model.                                                  *)

\* How many streams are open, by where the goroutine is.
LEMMA OpenStreamsAre ==
  ASSUME NEW r \in Runs
  PROVE  /\ task[r].pc = "stream" => OpenStreams(r) = 1
         /\ task[r].pc \notin Tooling \cup {"stream"} => OpenStreams(r) = 0
         /\ task[r].pc \in Tooling \ {"childStream"} =>
              OpenStreams(r) = IF task[r].stream = "interactive" THEN 1 ELSE 0
         /\ task[r].pc = "childStream" =>
              OpenStreams(r) = IF task[r].nested THEN 2 ELSE 1
  BY DEF OpenStreams, Streaming, Tooling, Asking, Minding

\* The same for the next state.
LEMMA OpenStreamsBecome ==
  ASSUME NEW r \in Runs
  PROVE  /\ task'[r].pc = "stream" => OpenStreams(r)' = 1
         /\ task'[r].pc \notin Tooling \cup {"stream"} => OpenStreams(r)' = 0
         /\ task'[r].pc \in Tooling \ {"childStream"} =>
              OpenStreams(r)' = IF task'[r].stream = "interactive" THEN 1 ELSE 0
         /\ task'[r].pc = "childStream" =>
              OpenStreams(r)' = IF task'[r].nested THEN 2 ELSE 1
  BY DEF OpenStreams, Streaming, Tooling, Asking, Minding

\* A step of r moves the slot to or from r only, and counts for r only.
TurnMoves(r) ==
  /\ depth' \in [Runs -> Nat] /\ \A q \in Runs \ {r} : depth'[q] = depth[q]
  /\ slot' = slot \/ (slot \in {Nobody, r} /\ slot' \in {Nobody, r})

\* No stream is opened or closed.
LEMMA QuietTurn ==
  ASSUME TypeOK, NEW r \in Runs, TurnFits(r), UNCHANGED turn, panics' = panics,
         OpenStreams(r)' = OpenStreams(r), task[r].pc \in Leaving => task'[r].pc \in Leaving,
         task'[r].pc # "childStream"
  PROVE  TurnFits(r)' /\ TurnMoves(r)
  BY DEF TurnFits, TurnMoves, turn, TypeOK, At

\* A stream is closed and the slot left.
LEMMA TurnReleased ==
  ASSUME TypeOK, NEW r \in Runs, TurnFits(r), ReleaseTurn(r), panics' = panics,
         task[r].pc \notin Leaving, OpenStreams(r) = 1, OpenStreams(r)' = 0,
         task'[r].pc # "childStream"
  PROVE  TurnFits(r)' /\ TurnMoves(r)
  <1>1. depth[r] = 1 /\ slot = r
    BY DEF TurnFits
  <1>2. slot' = Nobody /\ depth' = [depth EXCEPT ![r] = 0] /\ depth'[r] = 0
    BY <1>1 DEF ReleaseTurn, TypeOK
  <1>3. slot' # r
    BY <1>2, SlotAssumption
  <1>4. TurnFits(r)'
    BY <1>1, <1>2, <1>3 DEF TurnFits, At
  <1>5. TurnMoves(r)
    BY <1>1, <1>2 DEF TurnMoves, TypeOK
  <1> QED BY <1>4, <1>5

\* A stream is opened on a free slot.
LEMMA TurnAcquired ==
  ASSUME TypeOK, NEW r \in Runs, TurnFits(r), slot = Nobody, slot' = r, panics' = panics,
         depth' = [depth EXCEPT ![r] = @ + 1], OpenStreams(r)' = 1,
         At(r, "childStream")' => ~task'[r].nested /\ task'[r].stream # "interactive"
  PROVE  TurnFits(r)' /\ TurnMoves(r)
  <1>1. depth[r] = 0
    BY SlotAssumption DEF TurnFits, TypeOK
  <1>2. depth' = [depth EXCEPT ![r] = 1] /\ depth'[r] = 1
    BY <1>1 DEF TypeOK
  <1>3. TurnFits(r)'
    BY <1>1, <1>2 DEF TurnFits, At
  <1>4. TurnMoves(r)
    BY <1>1, <1>2 DEF TurnMoves, TypeOK
  <1> QED BY <1>3, <1>4

\* An answered call keeps the stream it came in.
LEMMA AnsweredTurn ==
  ASSUME TypeOK, NEW r \in Runs, TurnFits(r), Answered(r), UNCHANGED turn, panics' = panics,
         task[r].pc \in Tooling \ Minding
  PROVE  TurnFits(r)' /\ TurnMoves(r)
  <1>1. /\ OpenStreams(r) = IF task[r].stream = "interactive" THEN 1 ELSE 0
        /\ task[r].pc \notin Leaving
    BY OpenStreamsAre DEF Minding, Tooling, Asking, Leaving
  <1>2. /\ task'[r].stream = task[r].stream
        /\ \/ task[r].stream = "interactive" /\ task'[r].pc = "stream"
           \/ task[r].stream # "interactive" /\ task'[r].pc \in {"step", "tool"}
    BY AnsweredDoes DEF KeepsRoute
  <1>3. OpenStreams(r)' = IF task[r].stream = "interactive" THEN 1 ELSE 0
    BY <1>2, OpenStreamsBecome DEF Tooling, Asking, Minding
  <1> QED BY <1>1, <1>2, <1>3, QuietTurn

\* A call given up closes the stream it came in.
LEMMA AbandonedTurn ==
  ASSUME TypeOK, NEW r \in Runs, NEW c \in Causes, TurnFits(r), Abandoned(r, c),
         panics' = panics, task[r].pc \in Tooling \ Minding
  PROVE  TurnFits(r)' /\ TurnMoves(r)
  <1>1. /\ OpenStreams(r) = IF task[r].stream = "interactive" THEN 1 ELSE 0
        /\ task[r].pc \notin Leaving
    BY OpenStreamsAre DEF Minding, Tooling, Asking, Leaving
  <1>2. task'[r].pc = "aborted" /\ OpenStreams(r)' = 0
    BY AbandonedDoes, OpenStreamsBecome DEF Tooling, Asking, Minding
  <1>3. CASE task[r].stream = "interactive"
    <2>1. ReleaseTurn(r)
      BY <1>3, AbandonedDoes
    <2> QED BY <1>1, <1>2, <1>3, <2>1, TurnReleased
  <1>4. CASE task[r].stream # "interactive"
    <2>1. UNCHANGED turn
      BY <1>4, AbandonedDoes
    <2> QED BY <1>1, <1>2, <1>4, <2>1, QuietTurn
  <1> QED BY <1>3, <1>4

\* From one point of a tool call to the next.
LEMMA CallTurn ==
  ASSUME TypeOK, NEW r \in Runs, TurnFits(r), UNCHANGED turn, panics' = panics,
         task[r].pc \in Tooling \ {"childStream"}, task'[r].pc \in Tooling \ {"childStream"},
         task'[r].stream = task[r].stream
  PROVE  TurnFits(r)' /\ TurnMoves(r)
  <1>1. OpenStreams(r)' = OpenStreams(r)
    BY OpenStreamsAre, OpenStreamsBecome
  <1>2. task[r].pc \notin Leaving /\ task'[r].pc # "childStream"
    BY DEF Tooling, Asking, Minding, Leaving
  <1> QED BY <1>1, <1>2, QuietTurn

\* Away from any stream.
LEMMA StillTurn ==
  ASSUME TypeOK, NEW r \in Runs, TurnFits(r), UNCHANGED turn, panics' = panics,
         task[r].pc \notin Tooling \cup {"stream"}, task'[r].pc \notin Tooling \cup {"stream"},
         task[r].pc \in Leaving => task'[r].pc \in Leaving
  PROVE  TurnFits(r)' /\ TurnMoves(r)
  <1>1. OpenStreams(r)' = 0 /\ OpenStreams(r) = 0
    BY OpenStreamsAre, OpenStreamsBecome
  <1>2. task'[r].pc # "childStream"
    BY DEF Tooling, Minding
  <1> QED BY <1>1, <1>2, QuietTurn

\* The stream of a turn ends, with or without calls to make.
LEMMA StreamEnds ==
  ASSUME TypeOK, NEW r \in Runs, TurnFits(r), ReleaseTurn(r), panics' = panics, At(r, "stream"),
         \/ task'[r].pc \notin Tooling \cup {"stream"}
         \/ task'[r].pc = "tool" /\ task'[r].stream = "plain"
  PROVE  TurnFits(r)' /\ TurnMoves(r)
  <1>1. OpenStreams(r) = 1 /\ task[r].pc \notin Leaving
    BY OpenStreamsAre DEF At, Leaving
  <1>2. OpenStreams(r)' = 0 /\ task'[r].pc # "childStream"
    BY OpenStreamsBecome DEF Tooling, Asking, Minding
  <1> QED BY <1>1, <1>2, TurnReleased

\* A step keeps TurnFits: the slot is the run's exactly while it streams.
LEMMA TurnStep ==
  ASSUME TypeOK, NEW r \in Runs, CollectedIsFinite(r), TurnFits(r), Step(r)
  PROVE  TurnFits(r)' /\ TurnMoves(r)
<1>1. CASE Preparing(r)
  <2>1. UNCHANGED turn /\ panics' = panics
    BY <1>1, PreparingLeaves DEF faults
  <2>2. /\ task[r].pc \notin Tooling \cup {"stream"} \cup Leaving
        /\ task'[r].pc \notin Tooling \cup {"stream"}
    BY <1>1, PreparingGoes DEF Tooling, Asking, Minding, Leaving
  <2> QED BY <2>1, <2>2, StillTurn
<1>2. CASE ModelTurn(r)
  <2>1. CASE BeginRun(r)
    <3>1. /\ task[r].pc \notin Tooling \cup {"stream"} \cup Leaving /\ UNCHANGED turn
          /\ panics' = panics
      BY <2>1 DEF BeginRun, At, Tooling, Asking, Minding, Leaving, faults
    <3>2. task'[r].pc \notin Tooling \cup {"stream"}
      BY <2>1, BeginRunDoes DEF Tooling, Asking, Minding
    <3> QED BY <3>1, <3>2, StillTurn
  <2>2. CASE BeginStep(r)
    <3>1. /\ task[r].pc \notin Tooling \cup {"stream"} \cup Leaving /\ UNCHANGED turn
          /\ panics' = panics
      BY <2>2, SMTT(40) DEF BeginStep, At, Tooling, Asking, Minding, Leaving, faults
    <3>2. task'[r].pc \in {"aborted", "start"}
      BY <2>2, BeginStepDoes, FailsDoes, DeadCauses DEF BeginStep, Causes
    <3>3. task'[r].pc \notin Tooling \cup {"stream"}
      BY <3>2 DEF Tooling, Asking, Minding
    <3> QED BY <3>1, <3>3, StillTurn
  <2>3. CASE AcquireTurn(r)
    <3>1. /\ slot = Nobody /\ slot' = r /\ depth' = [depth EXCEPT ![r] = @ + 1]
          /\ panics' = panics /\ Goto(r, "stream")
      BY <2>3 DEF AcquireTurn, faults
    <3>2. task'[r].pc = "stream"
      BY <3>1, GotoDoes DEF Places
    <3> QED BY <3>1, <3>2, OpenStreamsBecome, TurnAcquired DEF At
  <2>4. CASE AcquireFails(r)
    <3>1. /\ task[r].pc \notin Tooling \cup {"stream"} \cup Leaving /\ UNCHANGED turn
          /\ panics' = panics
      BY <2>4 DEF AcquireFails, At, Tooling, Asking, Minding, Leaving, faults
    <3>2. task'[r].pc = "aborted"
      BY <2>4, FailsDoes, DeadCauses DEF AcquireFails, Causes
    <3>3. task'[r].pc \notin Tooling \cup {"stream"}
      BY <3>2 DEF Tooling, Asking, Minding
    <3> QED BY <3>1, <3>3, StillTurn
  <2>5. CASE TextDelta(r)
    <3>1. task[r].pc = "stream" /\ UNCHANGED turn /\ panics' = panics
      BY <2>5 DEF TextDelta, At, faults
    <3>2. task'[r].pc = "stream"
      BY <2>5, TextDeltaDoes
    <3> QED BY <3>1, <3>2, OpenStreamsAre, OpenStreamsBecome, QuietTurn DEF Leaving
  <2>6. CASE \E c \in CallsOf[r] : ProposeCall(r, c)
    <3>0. PICK c \in Calls : ProposeCall(r, c)
      BY <2>6, CallsAssumption
    <3>1. task[r].pc = "stream" /\ UNCHANGED turn /\ panics' = panics
      BY <3>0 DEF ProposeCall, At, faults
    <3>2. task'[r].pc = "stream"
      BY <3>0, ProposeCallDoes
    <3> QED BY <3>1, <3>2, OpenStreamsAre, OpenStreamsBecome, QuietTurn DEF Leaving
  <2>7. CASE CallDuringStream(r)
    <3>1. /\ At(r, "stream") /\ task[r].stream = "interactive" /\ panics' = panics
          /\ task'[r].stream = task[r].stream
      BY <2>7, CallDuringStreamDoes DEF CallDuringStream, KeepsRoute, faults
    <3>2. CASE Fails(r, "error") /\ ReleaseTurn(r)
      <4>1. task'[r].pc \notin Tooling \cup {"stream"}
        BY <3>2, FailsDoes DEF Causes, Tooling, Asking, Minding
      <4> QED BY <3>1, <3>2, <4>1, StreamEnds
    <3>3. CASE task'[r].pc = "tool" /\ UNCHANGED turn
      <4>1. OpenStreams(r) = 1 /\ OpenStreams(r)' = 1
        BY <3>1, <3>3, OpenStreamsAre, OpenStreamsBecome DEF At, Tooling
      <4> QED BY <3>1, <3>3, <4>1, QuietTurn DEF At, Leaving
    <3> QED BY <2>7, <3>2, <3>3, CallDuringStreamDoes, SMTT(40)
  <2>8. CASE EndStream(r)
    <3>1. /\ At(r, "stream") /\ ReleaseTurn(r) /\ panics' = panics
          /\ task'[r].stream = task[r].stream
      BY <2>8, EndStreamDoes DEF EndStream, KeepsRoute, faults
    <3>2. \/ task'[r].pc \in {"step", "segments", "aborted"}
          \/ task'[r].pc = "tool" /\ task[r].stream = "plain"
      BY <2>8, EndStreamDoes, FailsDoes DEF Causes
    <3> QED BY <3>1, <3>2, StreamEnds DEF Tooling, Asking, Minding
  <2>9. CASE StreamFails(r)
    <3>1. /\ At(r, "stream") /\ ReleaseTurn(r) /\ panics' = panics
      BY <2>9 DEF StreamFails, faults
    <3>2. task'[r].pc = "aborted"
      BY <2>9, FailsDoes, DeadCauses DEF StreamFails, Causes
    <3> QED BY <3>1, <3>2, StreamEnds DEF Tooling, Asking, Minding
  <2> QED BY <1>2, <2>1, <2>2, <2>3, <2>4, <2>5, <2>6, <2>7, <2>8, <2>9 DEF ModelTurn
<1>3. CASE ToolCall(r)
  <2>1. CASE Authorize(r)
    <3>0. task[r].pc \in Tooling \ Minding /\ panics' = panics
      BY <2>1, AuthorizeDoes DEF Authorize, At, Tooling, Asking, Minding, faults
    <3>1. CASE Abandoned(r, DeadCause(r))
      BY <3>0, <3>1, DeadCauses, AbandonedTurn DEF Causes
    <3>2. CASE Answered(r) /\ UNCHANGED turn
      BY <3>0, <3>2, AnsweredTurn
    <3>3. CASE (Goto(r, "launch") \/ Goto(r, "ask")) /\ UNCHANGED turn
      <4>1. task'[r].pc \in Tooling \ {"childStream"} /\ task'[r].stream = task[r].stream
        BY <3>3, GotoDoes DEF Places, Keeps, KeepsRoute, Tooling, Asking, Minding
      <4>2. task[r].pc \in Tooling \ {"childStream"}
        BY <3>0 DEF Minding
      <4> QED BY <3>0, <3>3, <4>1, <4>2, CallTurn
    <3> QED BY <2>1, <3>1, <3>2, <3>3, AuthorizeDoes
  <2>2. CASE CreateApproval(r)
    <3>0. task[r].pc \in Tooling \ Minding /\ panics' = panics
      BY <2>2 DEF CreateApproval, At, Tooling, Asking, Minding, faults
    <3>1. CASE Dead(r)
      <4>1. Abandoned(r, DeadCause(r))
        BY <2>2, <3>1 DEF CreateApproval, Alive
      <4> QED BY <3>0, <4>1, DeadCauses, AbandonedTurn DEF Causes
    <3>2. CASE ~Dead(r)
      <4>1. UNCHANGED turn /\ (Goto(r, "register") \/ Answered(r))
        BY <2>2, <3>2 DEF CreateApproval, Alive
      <4>2. CASE Answered(r)
        BY <3>0, <4>1, <4>2, AnsweredTurn
      <4>3. CASE Goto(r, "register")
        <5>1. task'[r].pc \in Tooling \ {"childStream"} /\ task'[r].stream = task[r].stream
          BY <4>3, GotoDoes DEF Places, Keeps, KeepsRoute, Tooling, Asking, Minding
        <5>2. task[r].pc \in Tooling \ {"childStream"}
          BY <3>0 DEF Minding
        <5> QED BY <3>0, <4>1, <5>1, <5>2, CallTurn
      <4> QED BY <4>1, <4>2, <4>3
    <3> QED BY <3>1, <3>2
  <2>3. CASE RegisterApproval(r)
    <3>0. task[r].pc \in Tooling \ Minding /\ panics' = panics
      BY <2>3 DEF RegisterApproval, At, Tooling, Asking, Minding, faults
    <3>1. CASE Dead(r)
      <4>1. Abandoned(r, DeadCause(r))
        BY <2>3, <3>1 DEF RegisterApproval, Alive
      <4> QED BY <3>0, <4>1, DeadCauses, AbandonedTurn DEF Causes
    <3>2. CASE ~Dead(r)
      <4>1. Goto(r, "annotate") /\ UNCHANGED turn
        BY <2>3, <3>2 DEF RegisterApproval, Alive
      <4>2. task'[r].pc \in Tooling \ {"childStream"} /\ task'[r].stream = task[r].stream
        BY <4>1, GotoDoes DEF Places, Keeps, KeepsRoute, Tooling, Asking, Minding
      <4>3. task[r].pc \in Tooling \ {"childStream"}
        BY <3>0 DEF Minding
      <4> QED BY <3>0, <4>1, <4>2, <4>3, CallTurn
    <3> QED BY <3>1, <3>2
  <2>4. CASE AnnounceApproval(r)
    <3>0. task[r].pc \in Tooling \ Minding /\ panics' = panics
      BY <2>4 DEF AnnounceApproval, At, Tooling, Asking, Minding, faults
    <3>1. CASE Dead(r)
      <4>1. Abandoned(r, DeadCause(r))
        BY <2>4, <3>1 DEF AnnounceApproval, Alive
      <4> QED BY <3>0, <4>1, DeadCauses, AbandonedTurn DEF Causes
    <3>2. CASE ~Dead(r)
      <4>1. Goto(r, "lookup") /\ UNCHANGED turn
        BY <2>4, <3>2 DEF AnnounceApproval, Alive
      <4>2. task'[r].pc \in Tooling \ {"childStream"} /\ task'[r].stream = task[r].stream
        BY <4>1, GotoDoes DEF Places, Keeps, KeepsRoute, Tooling, Asking, Minding
      <4>3. task[r].pc \in Tooling \ {"childStream"}
        BY <3>0 DEF Minding
      <4> QED BY <3>0, <4>1, <4>2, <4>3, CallTurn
    <3> QED BY <3>1, <3>2
  <2>5. CASE BeginWait(r)
    <3>1. /\ task[r].pc \in Tooling \ {"childStream"} /\ panics' = panics /\ UNCHANGED turn
      BY <2>5 DEF BeginWait, MovePair, At, Tooling, Asking, Minding, faults
    <3>2. task'[r].pc \in Tooling \ {"childStream"} /\ task'[r].stream = task[r].stream
      BY <2>5, GotoDoes DEF BeginWait, MovePair, Places, Causes, Keeps, KeepsRoute, Tooling,
           Asking, Minding
    <3> QED BY <3>1, <3>2, CallTurn
  <2>6. CASE TakeAnswer(r)
    <3>1. /\ task[r].pc \in Tooling \ {"childStream"} /\ panics' = panics /\ UNCHANGED turn
      BY <2>6 DEF TakeAnswer, MovePair, At, Tooling, Asking, Minding, faults
    <3>2. task'[r].pc \in Tooling \ {"childStream"} /\ task'[r].stream = task[r].stream
      BY <2>6, TakeAnswerDoes DEF TakeAnswer, MovePair, Places, Causes, Keeps, KeepsRoute,
           Tooling, Asking, Minding
    <3> QED BY <3>1, <3>2, CallTurn
  <2>7. CASE TakeExpiry(r)
    <3>1. /\ task[r].pc \in Tooling \ {"childStream"} /\ panics' = panics /\ UNCHANGED turn
      BY <2>7 DEF TakeExpiry, MovePair, At, Tooling, Asking, Minding, faults
    <3>2. task'[r].pc \in Tooling \ {"childStream"} /\ task'[r].stream = task[r].stream
      BY <2>7, GotoDoes DEF TakeExpiry, MovePair, Places, Causes, Keeps, KeepsRoute, Tooling,
           Asking, Minding
    <3> QED BY <3>1, <3>2, CallTurn
  <2>8. CASE WaitEnds(r)
    <3>0. task[r].pc \in Tooling \ Minding /\ panics' = panics /\ Abandoned(r, DeadCause(r))
      BY <2>8 DEF WaitEnds, At, Tooling, Asking, Minding, faults
    <3> QED BY <3>0, DeadCauses, AbandonedTurn DEF Causes
  <2>9. CASE RecordAnswer(r)
    <3>1. /\ task[r].pc \in Tooling \ {"childStream"} /\ panics' = panics /\ UNCHANGED turn
      BY <2>9 DEF RecordAnswer, MovePair, At, Tooling, Asking, Minding, faults
    <3>2. task'[r].pc \in Tooling \ {"childStream"} /\ task'[r].stream = task[r].stream
      BY <2>9, GotoDoes DEF RecordAnswer, MovePair, Places, Causes, Keeps, KeepsRoute, Tooling,
           Asking, Minding
    <3> QED BY <3>1, <3>2, CallTurn
  <2>10. CASE RecordExpiry(r)
    <3>1. /\ task[r].pc \in Tooling \ {"childStream"} /\ panics' = panics /\ UNCHANGED turn
      BY <2>10 DEF RecordExpiry, MovePair, At, Tooling, Asking, Minding, faults
    <3>2. task'[r].pc \in Tooling \ {"childStream"} /\ task'[r].stream = task[r].stream
      BY <2>10, GotoDoes DEF RecordExpiry, MovePair, Places, Causes, Keeps, KeepsRoute, Tooling,
           Asking, Minding
    <3> QED BY <3>1, <3>2, CallTurn
  <2>11. CASE ReportDenial(r)
    <3>0. task[r].pc \in Tooling \ Minding /\ panics' = panics
      BY <2>11 DEF ReportDenial, At, Tooling, Asking, Minding, faults
    <3>1. CASE Dead(r)
      <4>1. Abandoned(r, DeadCause(r))
        BY <2>11, <3>1 DEF ReportDenial, Alive
      <4> QED BY <3>0, <4>1, DeadCauses, AbandonedTurn DEF Causes
    <3>2. CASE ~Dead(r)
      <4>1. Answered(r) /\ UNCHANGED turn
        BY <2>11, <3>2 DEF ReportDenial, Alive
      <4> QED BY <3>0, <4>1, AnsweredTurn
    <3> QED BY <3>1, <3>2
  <2>12. CASE LaunchTool(r)
    <3>0. task[r].pc \in Tooling \ Minding /\ panics' = panics
      BY <2>12 DEF LaunchTool, At, Tooling, Asking, Minding, faults
    <3>1. CASE Dead(r)
      <4>1. Abandoned(r, DeadCause(r))
        BY <2>12, <3>1 DEF LaunchTool, Alive
      <4> QED BY <3>0, <4>1, DeadCauses, AbandonedTurn DEF Causes
    <3>2. CASE ~Dead(r)
      <4>1. Goto(r, IF Call(r) \in Delegates THEN "find" ELSE "effect") /\ UNCHANGED turn
        BY <2>12, <3>2 DEF LaunchTool, Alive
      <4>2. task'[r].pc \in Tooling \ {"childStream"} /\ task'[r].stream = task[r].stream
        BY <4>1, GotoDoes DEF Places, Keeps, KeepsRoute, Tooling, Asking, Minding
      <4>3. task[r].pc \in Tooling \ {"childStream"}
        BY <3>0 DEF Minding
      <4> QED BY <3>0, <4>1, <4>2, <4>3, CallTurn
    <3> QED BY <3>1, <3>2
  <2>13. CASE ExecuteTool(r)
    <3>1. /\ task[r].pc \in Tooling \ {"childStream"} /\ panics' = panics /\ UNCHANGED turn
      BY <2>13 DEF ExecuteTool, MovePair, At, Tooling, Asking, Minding, faults
    <3>2. task'[r].pc \in Tooling \ {"childStream"} /\ task'[r].stream = task[r].stream
      BY <2>13, RanDoes DEF ExecuteTool, MovePair, Places, Causes, Keeps, KeepsRoute, Tooling,
           Asking, Minding
    <3> QED BY <3>1, <3>2, CallTurn
  <2>14. CASE ReportTool(r)
    <3>0. task[r].pc \in Tooling \ Minding /\ panics' = panics
      BY <2>14 DEF ReportTool, At, Tooling, Asking, Minding, faults
    <3>1. CASE task[r].cause # "none" /\ ~Dead(r)
      <4>1. Abandoned(r, task[r].cause)
        BY <2>14, <3>1 DEF ReportTool
      <4> QED BY <3>0, <4>1, CauseTyped, AbandonedTurn
    <3>2. CASE Dead(r)
      <4>1. Abandoned(r, DeadCause(r))
        BY <2>14, <3>2 DEF ReportTool, Alive
      <4> QED BY <3>0, <4>1, DeadCauses, AbandonedTurn DEF Causes
    <3>3. CASE task[r].cause = "none" /\ ~Dead(r)
      <4>1. Answered(r) /\ UNCHANGED turn
        BY <2>14, <3>3 DEF ReportTool, Alive
      <4> QED BY <3>0, <4>1, AnsweredTurn
    <3> QED BY <3>1, <3>2, <3>3
  <2> QED BY <1>3, <2>1, <2>2, <2>3, <2>4, <2>5, <2>6, <2>7, <2>8, <2>9, <2>10, <2>11, <2>12,
       <2>13, <2>14 DEF ToolCall
<1>4. CASE Delegation(r)
  <2>1. CASE FindDelegation(r)
    <3>1. /\ task[r].pc \in Tooling \ {"childStream"} /\ panics' = panics /\ UNCHANGED turn
      BY <2>1 DEF FindDelegation, At, Tooling, Asking, Minding, faults
    <3>2. (\E ok \in BOOLEAN : Ran(r, ok)) \/ Goto(r, "childQueue")
      BY <2>1 DEF FindDelegation
    <3>3. task'[r].pc \in Tooling \ {"childStream"} /\ task'[r].stream = task[r].stream
      BY <3>2, RanDoes, GotoDoes DEF Places, Keeps, KeepsRoute, Tooling, Minding
    <3> QED BY <3>1, <3>3, CallTurn
  <2>2. CASE QueueChild(r)
    <3>1. /\ task[r].pc \in Tooling \ {"childStream"} /\ panics' = panics /\ UNCHANGED turn
      BY <2>2 DEF QueueChild, MovePair, At, Tooling, Asking, Minding, faults
    <3>2. task'[r].pc \in Tooling \ {"childStream"} /\ task'[r].stream = task[r].stream
      BY <2>2, GotoDoes, RanDoes DEF QueueChild, MovePair, Places, Causes, Keeps, KeepsRoute,
           Tooling, Asking, Minding
    <3> QED BY <3>1, <3>2, CallTurn
  <2>3. CASE StartChild(r)
    <3>1. /\ task[r].pc \in Tooling \ {"childStream"} /\ panics' = panics /\ UNCHANGED turn
      BY <2>3 DEF StartChild, MovePair, At, Tooling, Asking, Minding, faults
    <3>2. task'[r].pc \in Tooling \ {"childStream"} /\ task'[r].stream = task[r].stream
      BY <2>3, GotoDoes, RanDoes DEF StartChild, MovePair, Places, Causes, Keeps, KeepsRoute,
           Tooling, Asking, Minding
    <3> QED BY <3>1, <3>2, CallTurn
  <2>4. CASE AcquireChildTurn(r)
    <3>1. /\ At(r, "childStart") /\ panics' = panics /\ depth' = [depth EXCEPT ![r] = @ + 1]
          /\ slot' = (IF depth[r] > 0 THEN slot ELSE r) /\ (depth[r] > 0 \/ slot = Nobody)
      BY <2>4 DEF AcquireChildTurn, faults
    <3>2. /\ task'[r].pc = "childStream" /\ task'[r].stream = task[r].stream
          /\ (task'[r].nested <=> depth[r] > 0)
      BY <2>4, AcquireChildTurnDoes DEF KeepsRoute
    <3>3. /\ depth[r] = OpenStreams(r) /\ (depth[r] > 0 <=> slot = r)
          /\ OpenStreams(r) = IF task[r].stream = "interactive" THEN 1 ELSE 0
      BY <3>1, OpenStreamsAre DEF TurnFits, At, Leaving, Tooling, Minding
    <3>4. CASE task[r].stream = "interactive"
      <4>1. depth[r] = 1 /\ slot = r /\ slot' = r /\ depth' = [depth EXCEPT ![r] = 2] /\ depth'[r] = 2
        BY <3>1, <3>3, <3>4 DEF TypeOK
      <4>2. task'[r].nested /\ OpenStreams(r)' = 2
        BY <3>2, <4>1, OpenStreamsBecome
      <4>3. TurnFits(r)'
        BY <3>2, <3>4, <4>1, <4>2 DEF TurnFits, At
      <4>4. TurnMoves(r)
        BY <3>1, <3>3, <4>1 DEF TurnMoves, TypeOK
      <4> QED BY <4>3, <4>4
    <3>5. CASE task[r].stream # "interactive"
      <4>1. depth[r] = 0 /\ slot = Nobody /\ slot' = r
        BY <3>1, <3>3, <3>5
      <4>2. ~task'[r].nested /\ OpenStreams(r)' = 1
        BY <3>2, <4>1, OpenStreamsBecome
      <4> QED BY <3>1, <3>2, <3>5, <4>1, <4>2, TurnAcquired
    <3> QED BY <3>4, <3>5
  <2>5. CASE AcquireChildFails(r)
    <3>1. /\ task[r].pc \in Tooling \ {"childStream"} /\ panics' = panics /\ UNCHANGED turn
      BY <2>5 DEF AcquireChildFails, MovePair, At, Tooling, Asking, Minding, faults
    <3>2. task'[r].pc \in Tooling \ {"childStream"} /\ task'[r].stream = task[r].stream
      BY <2>5, ChildFailsDoes, DeadCauses DEF AcquireChildFails, MovePair, Places, Causes,
           Keeps, KeepsRoute, Tooling, Asking, Minding
    <3> QED BY <3>1, <3>2, CallTurn
  <2>6. CASE ChildTurnEnds(r)
    <3>1. /\ At(r, "childStream") /\ panics' = panics /\ depth' = [depth EXCEPT ![r] = @ - 1]
          /\ slot' = IF task[r].nested THEN slot ELSE Nobody
      BY <2>6 DEF ChildTurnEnds, faults
    <3>2. task'[r].pc \in {"childStart", "childSave", "childFail"} /\ task'[r].stream = task[r].stream
      BY <2>6, GotoDoes, ChildFailsDoes, DeadCauses DEF ChildTurnEnds, Places, Causes, Keeps,
           KeepsRoute
    <3>3. /\ depth[r] = OpenStreams(r) /\ (depth[r] > 0 <=> slot = r)
          /\ OpenStreams(r) = (IF task[r].nested THEN 2 ELSE 1)
          /\ (task[r].nested <=> task[r].stream = "interactive")
      BY <3>1, OpenStreamsAre DEF TurnFits, At, Leaving
    <3>4. OpenStreams(r)' = IF task[r].stream = "interactive" THEN 1 ELSE 0
      BY <3>2, OpenStreamsBecome DEF Tooling, Minding
    <3>5. CASE task[r].nested
      <4>1. depth' = [depth EXCEPT ![r] = 1] /\ depth'[r] = 1 /\ slot = r /\ slot' = r
        BY <3>1, <3>3, <3>5 DEF TypeOK
      <4>3. TurnFits(r)'
        BY <3>2, <3>3, <3>4, <3>5, <4>1 DEF TurnFits, At
      <4>4. TurnMoves(r)
        BY <3>1, <3>3, <4>1 DEF TurnMoves, TypeOK
      <4> QED BY <4>3, <4>4
    <3>6. CASE ~task[r].nested
      <4>1. depth' = [depth EXCEPT ![r] = 0] /\ depth'[r] = 0 /\ slot = r /\ slot' = Nobody
        BY <3>1, <3>3, <3>6 DEF TypeOK
      <4>2. slot' # r
        BY <4>1, SlotAssumption
      <4>3. TurnFits(r)'
        BY <3>2, <3>3, <3>4, <3>6, <4>1, <4>2 DEF TurnFits, At
      <4>4. TurnMoves(r)
        BY <3>1, <3>3, <4>1 DEF TurnMoves, TypeOK
      <4> QED BY <4>3, <4>4
    <3> QED BY <3>5, <3>6
  <2>7. CASE CompleteChild(r)
    <3>1. /\ task[r].pc \in Tooling \ {"childStream"} /\ panics' = panics /\ UNCHANGED turn
      BY <2>7 DEF CompleteChild, At, Tooling, Asking, Minding, faults
    <3>2. (~Dead(r)) \in BOOLEAN /\ Ran(r, ~Dead(r))
      BY <2>7 DEF CompleteChild
    <3>3. task'[r].pc \in Tooling \ {"childStream"} /\ task'[r].stream = task[r].stream
      BY <3>2, RanDoes DEF KeepsRoute, Tooling, Minding
    <3> QED BY <3>1, <3>3, CallTurn
  <2>8. CASE FailChild(r)
    <3>1. /\ task[r].pc \in Tooling \ {"childStream"} /\ panics' = panics /\ UNCHANGED turn
      BY <2>8 DEF FailChild, MovePair, At, Tooling, Asking, Minding, faults
    <3>2. task'[r].pc \in Tooling \ {"childStream"} /\ task'[r].stream = task[r].stream
      BY <2>8, GotoDoes, RanDoes DEF FailChild, MovePair, Places, Causes, Keeps, KeepsRoute,
           Tooling, Asking, Minding
    <3> QED BY <3>1, <3>2, CallTurn
  <2>9. CASE CancelChild(r)
    <3>1. /\ task[r].pc \in Tooling \ {"childStream"} /\ panics' = panics /\ UNCHANGED turn
      BY <2>9 DEF CancelChild, MovePair, At, Tooling, Asking, Minding, faults
    <3>2. task'[r].pc \in Tooling \ {"childStream"} /\ task'[r].stream = task[r].stream
      BY <2>9, RanDoes DEF CancelChild, MovePair, Places, Causes, Keeps, KeepsRoute, Tooling,
           Asking, Minding
    <3> QED BY <3>1, <3>2, CallTurn
  <2> QED BY <1>4, <2>1, <2>2, <2>3, <2>4, <2>5, <2>6, <2>7, <2>8, <2>9 DEF Delegation
<1>5. CASE Ending(r)
  <2>1. UNCHANGED turn /\ panics' = panics
    BY <1>5, EndingLeaves DEF faults
  <2>2. /\ task[r].pc \notin Tooling \cup {"stream"}
        /\ task'[r].pc \notin Tooling \cup {"stream"}
    BY <1>5, EndingGoes DEF Tooling, Asking, Minding
  <2>3. task[r].pc \in Leaving => task'[r].pc \in Leaving
    BY <1>5, LeaveRouteDoes, FailRunDoes, GotoDoes DEF Ending, SaveSegments, CompleteRun,
       RecordCancelled, Tell, Finish, Places, Leaving, At
  <2> QED BY <2>1, <2>2, <2>3, StillTurn
<1> QED BY <1>1, <1>2, <1>3, <1>4, <1>5 DEF Step

-----------------------------------------------------------------------------
(* A step of one run leaves the other runs alone.                          *)

Alone(r) ==
  \A q \in Runs \ {r} :
    /\ row'[q] = row[q] /\ run'[q] = run[q] /\ task'[q] = task[q]
    /\ context'[q] = context[q] /\ timeUp'[q] = timeUp[q] /\ approval'[q] = approval[q]
    /\ overdue'[q] = overdue[q] /\ gate'[q] = gate[q] /\ granted'[q] = granted[q]
    /\ record'[q] = record[q] /\ effects'[q] = effects[q] /\ child'[q] = child[q]
    /\ shown'[q] = shown[q]

\* Preparing writes its own row, locals and events.
LEMMA PreparingAlone ==
  ASSUME TypeOK, NEW r \in Runs, NEW q \in Runs \ {r}, Preparing(r)
  PROVE  /\ task'[q] = task[q]
         /\ row'[q] = row[q]
         /\ run'[q] = run[q]
         /\ shown'[q] = shown[q]
  <1>1. task'[q] = task[q]
    BY
       DEF Preparing, Enqueue, Register, SetupDone, SetupFails, SwitchRoute, AuditSwitch,
           PersistBudget, AssembleContext, Admit, Goto, Failing, Prepared, TypeOK
  <1>2. row'[q] = row[q]
    BY
       DEF Preparing, Enqueue, Register, SetupDone, SetupFails, SwitchRoute, AuditSwitch,
           PersistBudget, AssembleContext, Admit, Saved, TypeOK, store
  <1>3. run'[q] = run[q]
    BY
       DEF Preparing, Enqueue, Register, SetupDone, SetupFails, SwitchRoute, AuditSwitch,
           PersistBudget, AssembleContext, Admit, Saved, TypeOK
  <1>4. shown'[q] = shown[q]
    BY
       DEF Preparing, Enqueue, Register, SetupDone, SetupFails, SwitchRoute, AuditSwitch,
           PersistBudget, AssembleContext, Admit, TypeOK
  <1> QED BY <1>1, <1>2, <1>3, <1>4

\* So does a model's turn.
LEMMA ModelTurnAlone ==
  ASSUME TypeOK, NEW r \in Runs, NEW q \in Runs \ {r}, ModelTurn(r)
  PROVE  /\ task'[q] = task[q]
         /\ timeUp'[q] = timeUp[q]
         /\ record'[q] = record[q]
         /\ shown'[q] = shown[q]
  <1>1. task'[q] = task[q]
    BY
       DEF ModelTurn, BeginRun, BeginStep, AcquireTurn, AcquireFails, TextDelta, ProposeCall,
           CallDuringStream, EndStream, StreamFails, Fails, Goto, TypeOK
  <1>2. timeUp'[q] = timeUp[q]
    BY
       DEF ModelTurn, BeginRun, BeginStep, AcquireTurn, AcquireFails, TextDelta, ProposeCall,
           CallDuringStream, EndStream, StreamFails, Fails, TypeOK
  <1>3. record'[q] = record[q]
    BY ZenonT(60) DEF ModelTurn, BeginRun, BeginStep, AcquireTurn, AcquireFails, TextDelta,
       ProposeCall, CallDuringStream, EndStream, StreamFails, Proposed, TypeOK, store
  <1>4. shown'[q] = shown[q]
    BY ZenonT(60) DEF ModelTurn, BeginRun, BeginStep, AcquireTurn, AcquireFails, TextDelta,
       ProposeCall, CallDuringStream, EndStream, StreamFails, Fails, TypeOK
  <1> QED BY <1>1, <1>2, <1>3, <1>4

\* So does a tool call.
LEMMA ToolCallAlone ==
  ASSUME TypeOK, NEW r \in Runs, NEW q \in Runs \ {r}, ToolCall(r)
  PROVE  /\ task'[q] = task[q]
         /\ row'[q] = row[q]
         /\ run'[q] = run[q]
         /\ timeUp'[q] = timeUp[q]
         /\ approval'[q] = approval[q]
         /\ gate'[q] = gate[q]
         /\ granted'[q] = granted[q]
         /\ record'[q] = record[q]
         /\ effects'[q] = effects[q]
         /\ shown'[q] = shown[q]
  <1>1. task'[q] = task[q]
    BY ZenonT(60) DEF ToolCall, Authorize, CreateApproval, RegisterApproval, AnnounceApproval,
       BeginWait, TakeAnswer, TakeExpiry, WaitEnds, RecordAnswer, RecordExpiry, ReportDenial,
       LaunchTool, ExecuteTool, ReportTool, Alive, Answered, Goto, Abandoned, Fails, Ran, TypeOK
  <1>2. row'[q] = row[q]
    BY
       DEF ToolCall, Authorize, CreateApproval, RegisterApproval, AnnounceApproval, BeginWait,
           TakeAnswer, TakeExpiry, WaitEnds, RecordAnswer, RecordExpiry, ReportDenial, LaunchTool,
           ExecuteTool, ReportTool, Saved, TypeOK, store
  <1>3. run'[q] = run[q]
    BY
       DEF ToolCall, Authorize, CreateApproval, RegisterApproval, AnnounceApproval, BeginWait,
           TakeAnswer, TakeExpiry, WaitEnds, RecordAnswer, RecordExpiry, ReportDenial, LaunchTool,
           ExecuteTool, ReportTool, Saved, TypeOK
  <1>4. timeUp'[q] = timeUp[q]
    BY
       DEF ToolCall, Authorize, CreateApproval, RegisterApproval, AnnounceApproval, BeginWait,
           TakeAnswer, TakeExpiry, WaitEnds, RecordAnswer, RecordExpiry, ReportDenial, LaunchTool,
           ExecuteTool, ReportTool, Alive, Abandoned, Fails, TypeOK
  <1>5. approval'[q] = approval[q]
    BY
       DEF ToolCall, Authorize, CreateApproval, RegisterApproval, AnnounceApproval, BeginWait,
           TakeAnswer, TakeExpiry, WaitEnds, RecordAnswer, RecordExpiry, ReportDenial, LaunchTool,
           ExecuteTool, ReportTool, TypeOK, store
  <1>6. gate'[q] = gate[q]
    BY
       DEF ToolCall, Authorize, CreateApproval, RegisterApproval, AnnounceApproval, BeginWait,
           TakeAnswer, TakeExpiry, WaitEnds, RecordAnswer, RecordExpiry, ReportDenial, LaunchTool,
           ExecuteTool, ReportTool, Released, TypeOK, clicks
  <1>7. granted'[q] = granted[q]
    BY
       DEF ToolCall, Authorize, CreateApproval, RegisterApproval, AnnounceApproval, BeginWait,
           TakeAnswer, TakeExpiry, WaitEnds, RecordAnswer, RecordExpiry, ReportDenial, LaunchTool,
           ExecuteTool, ReportTool, TypeOK, store
  <1>8. record'[q] = record[q]
    BY
       DEF ToolCall, Authorize, CreateApproval, RegisterApproval, AnnounceApproval, BeginWait,
           TakeAnswer, TakeExpiry, WaitEnds, RecordAnswer, RecordExpiry, ReportDenial, LaunchTool,
           ExecuteTool, ReportTool, Recorded, TypeOK, store
  <1>9. effects'[q] = effects[q]
    BY
       DEF ToolCall, Authorize, CreateApproval, RegisterApproval, AnnounceApproval, BeginWait,
           TakeAnswer, TakeExpiry, WaitEnds, RecordAnswer, RecordExpiry, ReportDenial, LaunchTool,
           ExecuteTool, ReportTool, TypeOK, store
  <1>10. shown'[q] = shown[q]
    BY ZenonT(60) DEF ToolCall, Authorize, CreateApproval, RegisterApproval, AnnounceApproval,
       BeginWait, TakeAnswer, TakeExpiry, WaitEnds, RecordAnswer, RecordExpiry, ReportDenial,
       LaunchTool, ExecuteTool, ReportTool, Alive, Abandoned, Fails, TypeOK
  <1> QED BY <1>1, <1>2, <1>3, <1>4, <1>5, <1>6, <1>7, <1>8, <1>9, <1>10

\* So does a subagent.
LEMMA DelegationAlone ==
  ASSUME TypeOK, NEW r \in Runs, NEW q \in Runs \ {r}, Delegation(r)
  PROVE  /\ task'[q] = task[q]
         /\ effects'[q] = effects[q]
         /\ child'[q] = child[q]
  <1>1. task'[q] = task[q]
    BY
       DEF Delegation, FindDelegation, QueueChild, StartChild, AcquireChildTurn,
           AcquireChildFails, ChildTurnEnds, CompleteChild, FailChild, CancelChild, Ran, Goto,
           MovePair, ChildFails, TypeOK
  <1>2. effects'[q] = effects[q]
    BY
       DEF Delegation, FindDelegation, QueueChild, StartChild, AcquireChildTurn,
           AcquireChildFails, ChildTurnEnds, CompleteChild, FailChild, CancelChild, MovePair,
           TypeOK, store
  <1>3. child'[q] = child[q]
    BY ZenonT(60) DEF Delegation, FindDelegation, QueueChild, StartChild, AcquireChildTurn,
       AcquireChildFails, ChildTurnEnds, CompleteChild, FailChild, CancelChild, PairSaved,
       MovePair, TypeOK, store
  <1> QED BY <1>1, <1>2, <1>3

\* So does an end.
LEMMA EndingAlone ==
  ASSUME TypeOK, NEW r \in Runs, NEW q \in Runs \ {r}, Ending(r)
  PROVE  /\ task'[q] = task[q]
         /\ row'[q] = row[q]
         /\ run'[q] = run[q]
         /\ shown'[q] = shown[q]
         /\ gate'[q] = gate[q]
  <1>1. task'[q] = task[q]
    BY
       DEF Ending, LeaveRoute, SaveSegments, CompleteRun, FailRun, RecordCancelled, Tell, Finish,
           Failing, Goto, TypeOK
  <1>2. row'[q] = row[q]
    BY
       DEF Ending, LeaveRoute, SaveSegments, CompleteRun, FailRun, RecordCancelled, Tell, Finish,
           Saved, TypeOK, store
  <1>3. run'[q] = run[q]
    BY
       DEF Ending, LeaveRoute, SaveSegments, CompleteRun, FailRun, RecordCancelled, Tell, Finish,
           Saved, TypeOK
  <1>4. shown'[q] = shown[q]
    BY
       DEF Ending, LeaveRoute, SaveSegments, CompleteRun, FailRun, RecordCancelled, Tell, Finish,
           TypeOK
  <1>5. gate'[q] = gate[q]
    BY
       DEF Ending, LeaveRoute, SaveSegments, CompleteRun, FailRun, RecordCancelled, Tell, Finish,
           Dropped, TypeOK, clicks
  <1> QED BY <1>1, <1>2, <1>3, <1>4, <1>5

\* So does every step.
LEMMA StepAlone ==
  ASSUME TypeOK, NEW r \in Runs, Step(r)
  PROVE  Alone(r) /\ UNCHANGED <<context, overdue, faults>>
  <1>1. CASE Preparing(r)
    BY <1>1, PreparingAlone, PreparingLeaves DEF Alone, turn, clicks, faults
  <1>2. CASE ModelTurn(r)
    BY <1>2, ModelTurnAlone, ModelTurnLeaves DEF Alone, clicks, faults
  <1>3. CASE ToolCall(r)
    BY <1>3, ToolCallAlone, ToolCallLeaves DEF Alone, faults
  <1>4. CASE Delegation(r)
    BY <1>4, DelegationAlone, DelegationLeaves DEF Alone, clicks, faults
  <1>5. CASE Ending(r)
    BY <1>5, EndingAlone, EndingLeaves DEF Alone, turn, faults
  <1> QED BY <1>1, <1>2, <1>3, <1>4, <1>5 DEF Step

\* A step collects one call at most.
LEMMA CollectedStep ==
  ASSUME TypeOK, NEW r \in Runs, CollectedIsFinite(r), Step(r)
  PROVE  CollectedIsFinite(r)'
  <1>1. task'[r].todo \subseteq task[r].todo => CollectedIsFinite(r)'
    BY FS_Subset DEF CollectedIsFinite
  <1>2. CASE Preparing(r)
    BY <1>1, <1>2, PreparingGoes DEF KeepsTools
  <1>3. CASE ModelTurn(r)
    <2>1. CASE BeginRun(r)
      BY <1>1, <2>1, BeginRunDoes, SMTT(40) DEF KeepsTools
    <2>2. CASE BeginStep(r)
      BY <1>1, <2>2, BeginStepDoes, FailsDoes, DeadCauses DEF BeginStep, Causes, Keeps, KeepsTools
    <2>3. CASE AcquireTurn(r)
      BY <1>1, <2>3, GotoDoes DEF AcquireTurn, Places, Keeps, KeepsTools
    <2>4. CASE AcquireFails(r)
      BY <1>1, <2>4, FailsDoes, DeadCauses DEF AcquireFails, Causes, Keeps, KeepsTools
    <2>5. CASE TextDelta(r)
      BY <1>1, <2>5, TextDeltaDoes DEF KeepsTools
    <2>6. CASE \E c \in CallsOf[r] : ProposeCall(r, c)
      <3>1. PICK c \in Calls : ProposeCall(r, c)
        BY <2>6, CallsAssumption
      <3>2. task'[r].todo = task[r].todo \cup {c}
        BY <3>1, ProposeCallDoes
      <3> QED BY <3>2, FS_AddElement DEF CollectedIsFinite
    <2>7. CASE CallDuringStream(r)
      BY <1>1, <2>7, CallDuringStreamDoes, FailsDoes DEF Causes, Keeps, KeepsTools
    <2>8. CASE EndStream(r)
      BY <1>1, <2>8, EndStreamDoes
    <2>9. CASE StreamFails(r)
      <3>1. PICK c \in {"eligible", "error", "cancelled"} : Fails(r, c)
        BY <2>9, DeadCauses DEF StreamFails
      <3> QED BY <1>1, <3>1, FailsDoes DEF Causes, Keeps, KeepsTools
    <2> QED BY <1>3, <2>1, <2>2, <2>3, <2>4, <2>5, <2>6, <2>7, <2>8, <2>9 DEF ModelTurn
  <1>4. CASE ToolCall(r)
    BY <1>1, <1>4, ToolCallGoes
  <1>5. CASE Delegation(r)
    BY <1>1, <1>5, DelegationGoes
  <1>6. CASE Ending(r)
    BY <1>1, <1>6, EndingGoes DEF KeepsTools
  <1> QED BY <1>2, <1>3, <1>4, <1>5, <1>6 DEF Step

-----------------------------------------------------------------------------
(* A step writes values of the right kind.                                 *)

\* Events that are left alone.
LEMMA ShownKept == ASSUME TypeOK, shown' = shown PROVE ShownTyped
  BY DEF TypeOK, ShownTyped

\* A step sends events of the right kind.
LEMMA ShownStep ==
  ASSUME TypeOK, NEW r \in Runs, CollectedIsFinite(r), TellingFits(r), Step(r)
  PROVE  ShownTyped
  <1>1. CASE Preparing(r)
    <2>1. CASE SetupFails(r)
      BY <2>1, SetupFailsTells DEF GoesOn
    <2>2. CASE AuditSwitch(r)
      BY <2>2, AuditSwitchDoes, SentTells, ShownKept DEF GoesOn
    <2>3. CASE ~SetupFails(r) /\ ~AuditSwitch(r)
      <3>1. shown' = shown
        BY <1>1, <2>3
           DEF Preparing, Enqueue, Register, Admit, SetupDone, SwitchRoute, PersistBudget,
               AssembleContext
      <3> QED BY <3>1, ShownKept
    <2> QED BY <2>1, <2>2, <2>3
  <1>2. CASE ModelTurn(r)
    <2>0. shown[r].terminal = "none"
      BY <1>2, ModelTurnGoes, SilentUntilEnd DEF Leaving
    <2>1. CASE BeginRun(r)
      BY <2>1, ShownKept DEF BeginRun
    <2>2. CASE BeginStep(r)
      BY <2>2, FailsDoes, DeadCauses, ShownKept DEF BeginStep, Causes
    <2>3. CASE AcquireTurn(r)
      BY <2>3, ShownKept DEF AcquireTurn
    <2>4. CASE AcquireFails(r)
      BY <2>4, FailsDoes, DeadCauses DEF AcquireFails, Causes
    <2>5. CASE TextDelta(r)
      BY <2>0, <2>5, TextDeltaTells
    <2>6. CASE \E c \in CallsOf[r] : ProposeCall(r, c)
      BY <2>0, <2>6, ProposeCallTells, CallsAssumption DEF GoesOn
    <2>7. CASE CallDuringStream(r)
      BY <2>7, CallDuringStreamDoes, FailsDoes, ShownKept DEF Causes
    <2>8. CASE EndStream(r)
      <3>1. \/ shown' = shown \/ Fails(r, "error")
            \/ shown' = [shown EXCEPT ![r] = Closed(Passed(r, @))]
        BY <2>8 DEF EndStream
      <3> QED BY <2>0, <3>1, FailsDoes, AnswerTells, ShownKept DEF Causes, GoesOn
    <2>9. CASE StreamFails(r)
      <3>1. PICK c \in {"eligible", "error", "cancelled"} : Fails(r, c)
        BY <2>9, DeadCauses DEF StreamFails
      <3> QED BY <3>1, FailsDoes DEF Causes
    <2> QED BY <1>2, <2>1, <2>2, <2>3, <2>4, <2>5, <2>6, <2>7, <2>8, <2>9 DEF ModelTurn
  <1>3. CASE ToolCall(r)
    <2>1. \/ shown' = shown
          \/ \E c \in Causes : Abandoned(r, c)
          \/ shown' = [shown EXCEPT ![r] = Sent(@)]
      BY <1>3, DeadCauses, CauseTyped
         DEF ToolCall, Authorize, CreateApproval, RegisterApproval, AnnounceApproval, BeginWait,
             TakeAnswer, TakeExpiry, WaitEnds, RecordAnswer, RecordExpiry, ReportDenial,
             LaunchTool, ExecuteTool, ReportTool, Alive, Causes
    <2> QED BY <2>1, AbandonedDoes, SentTells, ShownKept DEF GoesOn
  <1>4. CASE Delegation(r)
    BY <1>4, DelegationLeaves, ShownKept
  <1>5. CASE Ending(r)
    <2>1. CASE LeaveRoute(r)
      BY <2>1, LeaveRouteTells DEF GoesOn
    <2>2. CASE Tell(r)
      BY <2>2, TellTells
    <2>3. CASE Finish(r)
      BY <2>3, FinishTells
    <2>4. CASE SaveSegments(r) \/ CompleteRun(r) \/ FailRun(r) \/ RecordCancelled(r)
      BY <2>4, ShownKept DEF SaveSegments, CompleteRun, FailRun, RecordCancelled
    <2> QED BY <1>5, <2>1, <2>2, <2>3, <2>4 DEF Ending
  <1> QED BY <1>1, <1>2, <1>3, <1>4, <1>5 DEF Step

\* Rows that are left alone.
LEMMA RowsUntouched == ASSUME TypeOK, row' = row, run' = run PROVE RowsTyped
  BY DEF TypeOK, RowsTyped

\* A step saves rows of the right kind.
LEMMA RowsStep ==
  ASSUME TypeOK, NEW r \in Runs, Step(r)
  PROVE  RowsTyped
  <1>1. CASE Preparing(r)
    <2>1. CASE Enqueue(r) \/ Register(r)
      BY <2>1, SavedDoes, RowsUntouched DEF Enqueue, Register, Admit, RunStates
    <2>2. CASE SwitchRoute(r)
      BY <2>2, SwitchRouteDoes
    <2>3. CASE AuditSwitch(r)
      BY <2>3, AuditSwitchDoes
    <2>4. CASE PersistBudget(r)
      BY <2>4, PersistBudgetDoes
    <2>5. CASE SetupDone(r) \/ SetupFails(r) \/ AssembleContext(r)
      BY <2>5, RowsUntouched DEF SetupDone, SetupFails, AssembleContext, store
    <2> QED BY <1>1, <2>1, <2>2, <2>3, <2>4, <2>5 DEF Preparing
  <1>2. CASE ModelTurn(r)
    BY <1>2, ModelTurnLeaves, RowsUntouched
  <1>3. CASE ToolCall(r)
    <2>1. CASE BeginWait(r) \/ TakeAnswer(r) \/ TakeExpiry(r)
      BY <2>1, SavedDoes DEF BeginWait, TakeAnswer, TakeExpiry, RunStates
    <2>2. CASE ~(BeginWait(r) \/ TakeAnswer(r) \/ TakeExpiry(r))
      <3>1. row' = row /\ run' = run
        BY <1>3, <2>2
           DEF ToolCall, Authorize, CreateApproval, RegisterApproval, AnnounceApproval, WaitEnds,
               RecordAnswer, RecordExpiry, ReportDenial, LaunchTool, ExecuteTool, ReportTool,
               store
      <3> QED BY <3>1, RowsUntouched
    <2> QED BY <2>1, <2>2
  <1>4. CASE Delegation(r)
    BY <1>4, DelegationLeaves, RowsUntouched
  <1>5. CASE Ending(r)
    <2>1. CASE CompleteRun(r)
      BY <2>1, SavedDoes, RowsUntouched DEF CompleteRun, RunStates
    <2>2. CASE FailRun(r)
      BY <2>2, FailRunDoes, SavedDoes, RowsUntouched DEF RunStates, RowsKept
    <2>3. CASE RecordCancelled(r)
      BY <2>3, SavedDoes DEF RecordCancelled, RunStates
    <2>4. CASE LeaveRoute(r) \/ SaveSegments(r) \/ Tell(r) \/ Finish(r)
      BY <2>4, RowsUntouched DEF LeaveRoute, SaveSegments, Tell, Finish, store
    <2> QED BY <1>5, <2>1, <2>2, <2>3, <2>4 DEF Ending
  <1> QED BY <1>1, <1>2, <1>3, <1>4, <1>5 DEF Step

ApprovalStates == {"absent", "pending", "approved", "denied", "expired"}
RecordStates == {"absent", "pending", "running", "succeeded", "failed", "denied"}

ToolsTyped ==
  /\ timeUp' \in [Runs -> BOOLEAN]
  /\ approval' \in [Runs -> [Calls -> ApprovalStates]] /\ granted' \in [Runs -> SUBSET Calls]
  /\ gate' \in [Runs -> [Calls -> Answers \cup {"absent", "open"}]]
  /\ record' \in [Runs -> [Calls -> RecordStates]] /\ effects' \in [Runs -> [Calls -> Nat]]
  /\ child' \in [Runs -> [Calls -> ChildType]] /\ reviews' \in Nat

\* What is kept of the calls is of the right kind.
LEMMA ToolsHere ==
  ASSUME TypeOK
  PROVE  /\ timeUp \in [Runs -> BOOLEAN]
         /\ approval \in [Runs -> [Calls -> ApprovalStates]] /\ granted \in [Runs -> SUBSET Calls]
         /\ gate \in [Runs -> [Calls -> Answers \cup {"absent", "open"}]]
         /\ record \in [Runs -> [Calls -> RecordStates]] /\ effects \in [Runs -> [Calls -> Nat]]
         /\ child \in [Runs -> [Calls -> ChildType]] /\ reviews \in Nat
  BY DEF TypeOK, ApprovalStates, RecordStates

\* One approval is written.
LEMMA ApprovalWritten ==
  ASSUME TypeOK, NEW r \in Runs, NEW c \in Calls, NEW v \in ApprovalStates,
         approval' = [approval EXCEPT ![r][c] = v]
  PROVE  approval' \in [Runs -> [Calls -> ApprovalStates]]
  BY ToolsHere

\* One gate is written.
LEMMA GateWritten ==
  ASSUME TypeOK, NEW r \in Runs, NEW c \in Calls, NEW v \in Answers \cup {"absent", "open"},
         gate' = [gate EXCEPT ![r][c] = v]
  PROVE  gate' \in [Runs -> [Calls -> Answers \cup {"absent", "open"}]]
  BY ToolsHere

\* One record of a call is written.
LEMMA RecordWritten ==
  ASSUME TypeOK, NEW r \in Runs, NEW c \in Calls, NEW v \in RecordStates,
         record' = [record EXCEPT ![r][c] = v]
  PROVE  record' \in [Runs -> [Calls -> RecordStates]]
  BY ToolsHere

\* One effect is counted.
LEMMA EffectsWritten ==
  ASSUME TypeOK, NEW r \in Runs, NEW c \in Calls, NEW v \in Nat,
         effects' = [effects EXCEPT ![r][c] = v]
  PROVE  effects' \in [Runs -> [Calls -> Nat]]
  BY ToolsHere

\* The duration budget ends with the runtime.
LEMMA TimeFreed ==
  ASSUME TypeOK, NEW r \in Runs, timeUp' = timeUp \/ timeUp' = [timeUp EXCEPT ![r] = FALSE]
  PROVE  timeUp' \in [Runs -> BOOLEAN]
  BY DEF TypeOK

\* A model's turn writes what it should of the calls.
LEMMA ModelTurnTyped ==
  ASSUME TypeOK, NEW r \in Runs, ModelTurn(r)
  PROVE  ToolsTyped
  <1>1. UNCHANGED <<approval, gate, granted, effects, child, reviews>>
    BY ModelTurnLeaves, SMTT(40) DEF clicks
  <1>2. timeUp' = timeUp \/ timeUp' = [timeUp EXCEPT ![r] = FALSE]
    BY DEF ModelTurn, BeginRun, BeginStep, AcquireTurn, AcquireFails, TextDelta, ProposeCall,
           CallDuringStream, EndStream, StreamFails, Fails
  <1>3. record' \in [Runs -> [Calls -> RecordStates]]
    <2>1. CASE \E c \in CallsOf[r] : ProposeCall(r, c)
      <3>1. PICK c \in Calls : ProposeCall(r, c)
        BY <2>1, CallsAssumption
      <3> DEFINE v == IF record[r][c] = "absent" THEN "pending" ELSE record[r][c]
      <3>2. v \in RecordStates
        BY ToolsHere DEF RecordStates
      <3>3. record' = [record EXCEPT ![r][c] = v]
        BY <3>1 DEF ProposeCall, Proposed
      <3> HIDE DEF v
      <3> QED BY <3>2, <3>3, RecordWritten
    <2>2. CASE ~ \E c \in CallsOf[r] : ProposeCall(r, c)
      <3>1. record' = record
        BY <2>2
           DEF ModelTurn, BeginRun, BeginStep, AcquireTurn, AcquireFails, TextDelta,
               CallDuringStream, EndStream, StreamFails, store
      <3> QED BY <3>1, ToolsHere, SMTT(40)
    <2> QED BY <2>1, <2>2
  <1> QED BY <1>1, <1>2, <1>3, TimeFreed, ToolsHere DEF ToolsTyped

\* So does a subagent's life.
LEMMA DelegationTyped ==
  ASSUME TypeOK, NEW r \in Runs, Delegation(r)
  PROVE  ToolsTyped
  <1>1. UNCHANGED <<timeUp, approval, gate, granted, record, reviews>>
    BY DelegationLeaves DEF clicks
  <1>2. effects' \in [Runs -> [Calls -> Nat]]
    <2>1. effects' = effects \/ effects' = [effects EXCEPT ![r][Call(r)] = @ + 1]
      BY DEF Delegation, FindDelegation, QueueChild, StartChild, MovePair, AcquireChildTurn,
             AcquireChildFails, ChildTurnEnds, CompleteChild, FailChild, CancelChild, store
    <2>2. task[r].call \in Calls
      BY CallTyped
    <2> DEFINE n == effects[r][task[r].call] + 1
    <2>3. n \in Nat
      BY <2>2, ToolsHere
    <2>4. effects' = effects \/ effects' = [effects EXCEPT ![r][task[r].call] = n]
      BY <2>1 DEF Call
    <2> HIDE DEF n
    <2>5. CASE effects' = effects
      BY <2>5, ToolsHere
    <2>6. CASE effects' = [effects EXCEPT ![r][task[r].call] = n]
      BY <2>2, <2>3, <2>6, EffectsWritten
    <2> QED BY <2>4, <2>5, <2>6
  <1>3. child' \in [Runs -> [Calls -> ChildType]]
    <2>1. child' = child \/ \E to \in RunStates : PairSaved(r, to)
      BY DEF Delegation, FindDelegation, QueueChild, StartChild, MovePair, AcquireChildTurn,
             AcquireChildFails, ChildTurnEnds, CompleteChild, FailChild, CancelChild, store,
             RunStates
    <2> QED BY <2>1, PairSavedDoes, ToolsHere
  <1> QED BY <1>1, <1>2, <1>3, ToolsHere DEF ToolsTyped

\* So does an end.
LEMMA EndingTyped ==
  ASSUME TypeOK, NEW r \in Runs, Ending(r)
  PROVE  ToolsTyped
  <1>1. UNCHANGED <<timeUp, approval, granted, record, effects, child>>
    BY EndingLeaves
  <1>2. gate' = gate \/ gate' = [gate EXCEPT ![r] = [c \in Calls |-> "absent"]]
    BY DEF Ending, LeaveRoute, SaveSegments, CompleteRun, FailRun, RecordCancelled, Tell, Finish,
           Dropped, clicks
  <1>3. gate' \in [Runs -> [Calls -> Answers \cup {"absent", "open"}]]
    <2>1. [c \in Calls |-> "absent"] \in [Calls -> Answers \cup {"absent", "open"}]
      OBVIOUS
    <2> QED BY <1>2, <2>1, ToolsHere
  <1>4. reviews' = reviews \/ reviews' = reviews + 1
    BY DEF Ending, LeaveRoute, SaveSegments, CompleteRun, FailRun, RecordCancelled, Tell, Finish
  <1> QED BY <1>1, <1>3, <1>4, ToolsHere DEF ToolsTyped

\* So does a tool call.
LEMMA ToolCallTyped ==
  ASSUME TypeOK, NEW r \in Runs, ToolCall(r)
  PROVE  ToolsTyped
  <1> DEFINE c == task[r].call
  <1>1. child' = child /\ reviews' = reviews
    BY ToolCallLeaves
  <1>2. c \in Calls
    BY CallTyped
  <1>3. timeUp' = timeUp \/ timeUp' = [timeUp EXCEPT ![r] = FALSE]
    BY DEF ToolCall, Authorize, CreateApproval, RegisterApproval, AnnounceApproval, BeginWait,
           TakeAnswer, TakeExpiry, WaitEnds, RecordAnswer, RecordExpiry, ReportDenial, LaunchTool,
           ExecuteTool, ReportTool, Alive, Abandoned, Fails
  <1>4. \/ approval' = approval
        \/ \E v \in ApprovalStates : approval' = [approval EXCEPT ![r][c] = v]
    <2>1. CASE RecordAnswer(r)
      <3> DEFINE v == CASE task[r].answer = "deny" -> "denied"
                        [] task[r].answer # "deny" /\ Call(r) \in overdue[r] -> "expired"
                        [] task[r].answer # "deny" /\ Call(r) \notin overdue[r] -> "approved"
      <3>1. v \in ApprovalStates
        BY DEF ApprovalStates
      <3>2. approval' = [approval EXCEPT ![r][c] = v]
        BY <2>1 DEF RecordAnswer, Call
      <3> HIDE DEF v
      <3> QED BY <3>1, <3>2
    <2>2. CASE CreateApproval(r) \/ RecordExpiry(r)
      BY <2>2 DEF CreateApproval, RecordExpiry, Call, ApprovalStates
    <2>3. CASE ~(RecordAnswer(r) \/ CreateApproval(r) \/ RecordExpiry(r))
      BY <2>3
         DEF ToolCall, Authorize, RegisterApproval, AnnounceApproval, BeginWait, TakeAnswer,
             TakeExpiry, WaitEnds, ReportDenial, LaunchTool, ExecuteTool, ReportTool, store
    <2> QED BY <2>1, <2>2, <2>3
  <1>5. approval' \in [Runs -> [Calls -> ApprovalStates]]
    <2>1. CASE approval' = approval
      BY <2>1, ToolsHere
    <2>2. ASSUME NEW v \in ApprovalStates, approval' = [approval EXCEPT ![r][c] = v]
          PROVE  approval' \in [Runs -> [Calls -> ApprovalStates]]
      <3> HIDE DEF c
      <3> QED BY <1>2, <2>2, ApprovalWritten
    <2> QED BY <1>4, <2>1, <2>2
  <1>6. granted' = granted \/ granted' = [granted EXCEPT ![r] = granted[r] \cup {c}]
    <2>1. CASE RecordAnswer(r)
      BY <2>1, ToolsHere DEF RecordAnswer, Call
    <2>2. CASE ~RecordAnswer(r)
      BY <2>2
         DEF ToolCall, Authorize, CreateApproval, RegisterApproval, AnnounceApproval, BeginWait,
             TakeAnswer, TakeExpiry, WaitEnds, RecordExpiry, ReportDenial, LaunchTool,
             ExecuteTool, ReportTool, store
    <2> QED BY <2>1, <2>2
  <1>7. granted' \in [Runs -> SUBSET Calls]
    BY <1>2, <1>6, ToolsHere, SMTT(40)
  <1>8. \/ gate' = gate
        \/ \E v \in {"absent", "open"} : gate' = [gate EXCEPT ![r][c] = v]
    BY DEF ToolCall, Authorize, CreateApproval, RegisterApproval, AnnounceApproval, BeginWait,
           TakeAnswer, TakeExpiry, WaitEnds, RecordAnswer, RecordExpiry, ReportDenial, LaunchTool,
           ExecuteTool, ReportTool, Released, Call, clicks
  <1>9. gate' \in [Runs -> [Calls -> Answers \cup {"absent", "open"}]]
    <2>1. CASE gate' = gate
      BY <2>1, ToolsHere
    <2>2. ASSUME NEW v \in {"absent", "open"}, gate' = [gate EXCEPT ![r][c] = v]
          PROVE  gate' \in [Runs -> [Calls -> Answers \cup {"absent", "open"}]]
      <3> HIDE DEF c
      <3> QED BY <1>2, <2>2, GateWritten
    <2> QED BY <1>8, <2>1, <2>2
  <1>10. \/ record' = record
         \/ \E v \in RecordStates : record' = [record EXCEPT ![r][c] = v]
    BY DEF ToolCall, Authorize, CreateApproval, RegisterApproval, AnnounceApproval, BeginWait,
           TakeAnswer, TakeExpiry, WaitEnds, RecordAnswer, RecordExpiry, ReportDenial, LaunchTool,
           ExecuteTool, ReportTool, Recorded, Call, store, RecordStates
  <1>11. record' \in [Runs -> [Calls -> RecordStates]]
    <2>1. CASE record' = record
      BY <2>1, ToolsHere
    <2>2. ASSUME NEW v \in RecordStates, record' = [record EXCEPT ![r][c] = v]
          PROVE  record' \in [Runs -> [Calls -> RecordStates]]
      <3> HIDE DEF c
      <3> QED BY <1>2, <2>2, RecordWritten
    <2> QED BY <1>10, <2>1, <2>2
  <1>12. effects' = effects \/ effects' = [effects EXCEPT ![r][c] = effects[r][c] + 1]
    BY DEF ToolCall, Authorize, CreateApproval, RegisterApproval, AnnounceApproval, BeginWait,
           TakeAnswer, TakeExpiry, WaitEnds, RecordAnswer, RecordExpiry, ReportDenial, LaunchTool,
           ExecuteTool, ReportTool, Call, store
  <1>13. effects' \in [Runs -> [Calls -> Nat]]
    <2> DEFINE n == effects[r][c] + 1
    <2>1. n \in Nat
      BY <1>2, ToolsHere
    <2>2. effects' = effects \/ effects' = [effects EXCEPT ![r][c] = n]
      BY <1>12
    <2> HIDE DEF c, n
    <2>3. CASE effects' = effects
      BY <2>3, ToolsHere
    <2>4. CASE effects' = [effects EXCEPT ![r][c] = n]
      BY <1>2, <2>1, <2>4, EffectsWritten
    <2> QED BY <2>2, <2>3, <2>4
  <1> QED BY <1>1, <1>3, <1>5, <1>7, <1>9, <1>11, <1>13, TimeFreed, ToolsHere DEF ToolsTyped

\* A step keeps the types.
LEMMA TypeStep ==
  ASSUME TypeOK, NEW r \in Runs, CollectedIsFinite(r), TellingFits(r), TurnFits(r), Step(r)
  PROVE  TypeOK'
  <1>1. ToolsTyped
    <2>1. CASE Preparing(r)
      BY <2>1, PreparingLeaves, ToolsHere DEF ToolsTyped, clicks
    <2> QED BY <2>1, ModelTurnTyped, ToolCallTyped, DelegationTyped, EndingTyped DEF Step
  <1>2. TaskTyped /\ ShownTyped /\ RowsTyped
    BY TaskStep, ShownStep, RowsStep
  <1>3. slot' \in Runs \cup {Nobody, Reviewer} /\ depth' \in [Runs -> Nat]
    BY TurnStep DEF TurnMoves, TypeOK
  <1>4. UNCHANGED <<context, overdue, crashes, panics>>
    BY StepAlone DEF faults
  <1> QED BY <1>1, <1>2, <1>3, <1>4
        DEF ToolsTyped, TaskTyped, ShownTyped, RowsTyped, TypeOK, ApprovalStates, RecordStates

-----------------------------------------------------------------------------
(* A step of a goroutine keeps the invariant.                              *)

\* A step keeps all that is said of its own run.
LEMMA RunStep ==
  ASSUME TypeOK, NEW r \in Runs, RunFits(r), Step(r)
  PROVE  RunFits(r)'
  <1>1. /\ CollectedIsFinite(r) /\ CopyFits(r) /\ StateFits(r) /\ CauseFits(r) /\ TellingFits(r)
        /\ ApprovalFits(r) /\ GateFits(r) /\ ChildrenFit(r) /\ SilenceFits(r) /\ TurnFits(r)
    BY DEF RunFits
  <1>2. /\ CollectedIsFinite(r)' /\ CopyFits(r)' /\ StateFits(r)' /\ CauseFits(r)'
        /\ TellingFits(r)'
    BY <1>1, CollectedStep, CopyStep, StateStep, CauseStep, TellingStep
  <1>3. ApprovalFits(r)' /\ GateFits(r)' /\ ChildrenFit(r)' /\ SilenceFits(r)' /\ TurnFits(r)'
    BY <1>1, ApprovalStep, GateStep, ChildrenStep, SilenceStep, TurnStep
  <1> QED BY <1>2, <1>3 DEF RunFits

\* What the invariant says of q speaks of q's own rows, locals and events.
Same(q) ==
  /\ row'[q] = row[q] /\ run'[q] = run[q] /\ task'[q] = task[q]
  /\ approval'[q] = approval[q] /\ record'[q] = record[q] /\ effects'[q] = effects[q]
  /\ child'[q] = child[q] /\ shown'[q] = shown[q]

\* RunFits of a run that is left alone.
LEMMA SameFits ==
  ASSUME NEW q \in Runs, RunFits(q), Same(q), Dead(q) => Dead(q)', depth'[q] = depth[q],
         slot' = q <=> slot = q, panics' = 0 => panics = 0,
         \A c \in Calls : gate[q][c] = "absent" => gate'[q][c] = "absent"
  PROVE  RunFits(q)'
  <1>1. CollectedIsFinite(q)' /\ CopyFits(q)' /\ StateFits(q)' /\ CauseFits(q)'
    BY DEF RunFits, Same, CollectedIsFinite, CopyFits, StateFits, CauseFits, At
  <1>2. TellingFits(q)'
    BY DEF RunFits, Same, TellingFits, At
  <1>3. ApprovalFits(q)' /\ GateFits(q)'
    BY DEF RunFits, Same, ApprovalFits, GateFits, At
  <1>4. ChildrenFit(q)'
    BY DEF RunFits, Same, ChildrenFit, Unfinished, At
  <1>5. SilenceFits(q)'
    BY DEF RunFits, Same, SilenceFits, At
  <1>6. TurnFits(q)'
    BY DEF RunFits, Same, TurnFits, OpenStreams, Streaming, At
  <1> QED BY <1>1, <1>2, <1>3, <1>4, <1>5, <1>6 DEF RunFits

\* A step keeps all that is said of the other runs.
LEMMA OthersStep ==
  ASSUME TypeOK, NEW r \in Runs, TurnFits(r), CollectedIsFinite(r), Step(r),
         NEW q \in Runs \ {r}, RunFits(q)
  PROVE  RunFits(q)'
  <1>1. Alone(r) /\ UNCHANGED <<context, overdue, faults>>
    BY StepAlone
  <1>2. depth'[q] = depth[q] /\ (slot' = q <=> slot = q)
    BY TurnStep, SlotAssumption DEF TurnMoves
  <1>3. Same(q) /\ (Dead(q) => Dead(q)') /\ gate'[q] = gate[q]
    BY <1>1 DEF Alone, Same, Dead
  <1> QED BY <1>1, <1>2, <1>3, SameFits DEF faults

\* A step keeps the count of reviews while one holds the slot.
LEMMA ReviewsStep ==
  ASSUME TypeOK, NEW r \in Runs, TurnFits(r), CollectedIsFinite(r), ReviewsFit, Step(r)
  PROVE  ReviewsFit'
  <1>1. slot' = Reviewer => slot = Reviewer
    BY TurnStep, SlotAssumption DEF TurnMoves
  <1>2. reviews' = reviews \/ reviews' = reviews + 1
    BY PreparingLeaves, ModelTurnLeaves, ToolCallLeaves, DelegationLeaves
       DEF Step, Ending, LeaveRoute, SaveSegments, CompleteRun, FailRun, RecordCancelled, Tell,
           Finish
  <1> QED BY <1>1, <1>2 DEF ReviewsFit, TypeOK

-----------------------------------------------------------------------------
(* So does everything around the goroutines.                               *)

\* Clicks and clocks only bring a run nearer to its end.
LEMMA ClockStep ==
  ASSUME IInv, NEW r \in Runs, Clock(r)
  PROVE  IInv'
  <1>1. TypeOK'
    <2>1. CASE TimeUp(r)
      BY <2>1 DEF IInv, TimeUp, TypeOK, store, turn, clicks, faults
    <2>2. CASE \E c \in CallsOf[r] : ApprovalExpires(r, c)
      <3>1. PICK c \in Calls : ApprovalExpires(r, c)
        BY <2>2, CallsAssumption
      <3> QED BY <3>1 DEF IInv, ApprovalExpires, TypeOK, store, turn, faults
    <2> QED BY <2>1, <2>2 DEF Clock
  <1>2. ReviewsFit'
    BY DEF IInv, Clock, TimeUp, ApprovalExpires, ReviewsFit, turn
  <1>3. ASSUME NEW q \in Runs PROVE RunFits(q)'
    <2>1. Same(q) /\ depth' = depth /\ slot' = slot /\ panics' = panics /\ gate' = gate
      BY DEF Clock, TimeUp, ApprovalExpires, Same, store, turn, clicks, faults
    <2>2. Dead(q) => Dead(q)'
      BY DEF IInv, Clock, TimeUp, ApprovalExpires, Dead, TypeOK
    <2> QED BY <2>1, <2>2, SameFits DEF IInv
  <1> QED BY <1>1, <1>2, <1>3 DEF IInv

\* The owner's clicks.
LEMMA ClickStep ==
  ASSUME IInv, NEW r \in Runs,
         CancelRun(r) \/ \E c \in CallsOf[r], answer \in Answers : ResolveApproval(r, c, answer)
  PROVE  IInv'
  <1>1. TypeOK'
    <2>1. CASE CancelRun(r)
      BY <2>1 DEF IInv, CancelRun, TypeOK, store, turn, clicks, faults
    <2>2. CASE \E c \in CallsOf[r], answer \in Answers : ResolveApproval(r, c, answer)
      <3>1. PICK c \in Calls, answer \in Answers : ResolveApproval(r, c, answer)
        BY <2>2, CallsAssumption
      <3>2. gate' \in [Runs -> [Calls -> Answers \cup {"absent", "open"}]]
        BY <3>1, GateWritten DEF IInv, ResolveApproval
      <3> QED BY <3>1, <3>2 DEF IInv, ResolveApproval, TypeOK, turn, faults
    <2> QED BY <2>1, <2>2
  <1>2. ReviewsFit'
    BY DEF IInv, CancelRun, ResolveApproval, ReviewsFit, turn
  <1>3. ASSUME NEW q \in Runs PROVE RunFits(q)'
    <2>1. Same(q) /\ depth' = depth /\ slot' = slot /\ panics' = panics
      BY DEF CancelRun, ResolveApproval, Same, store, turn, faults
    <2>2. Dead(q) => Dead(q)'
      BY DEF IInv, CancelRun, ResolveApproval, Dead, TypeOK
    <2>3. \A d \in Calls : gate[q][d] = "absent" => gate'[q][d] = "absent"
      <3>1. CASE CancelRun(r)
        BY <3>1 DEF CancelRun, clicks
      <3>2. CASE \E c \in CallsOf[r], answer \in Answers : ResolveApproval(r, c, answer)
        BY <3>2, CallsAssumption DEF IInv, ResolveApproval, TypeOK
      <3> QED BY <3>1, <3>2
    <2> QED BY <2>1, <2>2, <2>3, SameFits DEF IInv
  <1> QED BY <1>1, <1>2, <1>3 DEF IInv

\* A message sent: its run begins.
LEMMA SendStep ==
  ASSUME IInv, NEW r \in Runs, SendMessage(r)
  PROVE  IInv'
  <1> DEFINE start == [state |-> "created", version |-> 1, switched |-> FALSE]
  <1>1. PICK kind \in RunKinds, stream \in Streams :
          task' = [task EXCEPT ![r] = NewTask(kind, stream)]
    BY DEF SendMessage
  <1>2. /\ row' = [row EXCEPT ![r] = start] /\ run' = [run EXCEPT ![r] = row'[r]] /\ At(r, "idle")
        /\ UNCHANGED <<context, timeUp, slot, depth, overdue, gate, approval, granted, record,
                       effects, child, shown, reviews, crashes, panics>>
    BY DEF SendMessage, turn, clicks, faults
  <1> DEFINE new == NewTask(kind, stream)
  <1>3. /\ new \in TaskType /\ new.pc = "created" /\ new.attempt = 1 /\ new.cause = "none"
        /\ ~new.held /\ ~new.committed /\ new.todo = {} /\ new.seen = {}
    <2>1. (CHOOSE c \in Calls : TRUE) \in Calls
      BY CallsAssumption
    <2> QED BY <2>1, ModesAssumption, LimitsAssumption DEF NewTask, TaskType, Places, Causes
  <1> HIDE DEF new
  <1>4. TaskTyped /\ task'[r] = new
    BY <1>1, <1>3, TaskWritten DEF IInv, new
  <1>5. start \in RowType
    BY DEF RowType, RunStates
  <1> HIDE DEF start
  <1>6. RowsTyped /\ row'[r] = start /\ run'[r] = start
    BY <1>2, <1>5 DEF IInv, TypeOK, RowsTyped
  <1>7. TypeOK'
    BY <1>2, <1>4, <1>6 DEF IInv, TypeOK, TaskTyped, RowsTyped
  <1>8. ReviewsFit'
    BY <1>2 DEF IInv, ReviewsFit
  <1>9. ASSUME NEW q \in Runs \ {r} PROVE RunFits(q)'
    <2>1. Same(q) /\ (Dead(q) => Dead(q)')
      BY <1>1, <1>2 DEF IInv, TypeOK, Same, Dead
    <2> QED BY <1>2, <2>1, SameFits DEF IInv
  <1>10. RunFits(r)'
    <2>0. /\ CollectedIsFinite(r) /\ CopyFits(r) /\ StateFits(r) /\ CauseFits(r) /\ TellingFits(r)
          /\ ApprovalFits(r) /\ GateFits(r) /\ ChildrenFit(r) /\ SilenceFits(r) /\ TurnFits(r)
      BY DEF IInv, RunFits
    <2>1. CollectedIsFinite(r)'
      BY <1>3, <1>4, FS_EmptySet DEF CollectedIsFinite
    <2>2. row'[r] = run'[r] /\ row'[r].state = "created" /\ task'[r].pc = "created"
      BY <1>3, <1>4, <1>6 DEF start
    <2>3. CopyFits(r)' /\ StateFits(r)'
      BY <2>2 DEF CopyFits, StateFits, At, Working, Preparations, Answering, Tooling, Asking,
           Minding
    <2>4. CauseFits(r)'
      BY <1>3, <1>4, <2>2 DEF CauseFits, At
    <2>5. shown[r].terminal = "none"
      BY <1>2, <2>0, SilentUntilEnd DEF At, Leaving
    <2>6. TellingFits(r)'
      BY <1>2, <1>3, <1>4, <2>0, <2>2, <2>5, QuietTelling
    <2>7. ~task[r].committed
      BY <1>2, <2>0 DEF SilenceFits, At, IInv
    <2>8. ApprovalFits(r)'
      BY <1>2, <1>3, <1>4, <2>0, <2>7
         DEF ApprovalFits, SilenceFits, At, Tooling, Asking, Minding
    <2>9. GateFits(r)'
      BY <1>2, <2>0 DEF GateFits, At
    <2>10. ChildrenFit(r)'
      BY <1>2, <2>0, ChildrenHere, QuietChildren DEF At, Minding, Leaving
    <2>11. SilenceFits(r)'
      BY <1>2, <1>3, <1>4, <2>0, <2>7 DEF SilenceFits, At, Tooling, Asking, Minding
    <2>12. TurnFits(r)'
      BY <1>2, <1>3, <1>4, <2>0, StillTurn DEF At, Tooling, Asking, Minding, Leaving, IInv, turn
    <2> QED BY <2>1, <2>3, <2>4, <2>6, <2>8, <2>9, <2>10, <2>11, <2>12 DEF RunFits
  <1> QED BY <1>7, <1>8, <1>9, <1>10 DEF IInv

\* The batch timer of the front end.
LEMMA FlushStep ==
  ASSUME IInv, NEW r \in Runs, FlushTimer(r)
  PROVE  IInv'
  <1>1. /\ shown[r].pending /\ shown' = [shown EXCEPT ![r] = Sent(@)]
        /\ UNCHANGED <<row, run, task, context, timeUp, slot, depth, overdue, gate, approval,
                       granted, record, effects, child, reviews, crashes, panics>>
    BY DEF FlushTimer, store, turn, clicks, faults
  <1>2. TellingFits(r) /\ SilenceFits(r)
    BY DEF IInv, RunFits
  <1>3. shown[r].terminal = "none"
    BY <1>1, <1>2 DEF TellingFits
  <1>4. /\ ShownTyped /\ shown'[r].terminal = "none" /\ shown'[r].after = shown[r].after
        /\ shown'[r].output = shown[r].output
    BY <1>1, <1>3, SentTells DEF IInv, GoesOn
  <1>5. TypeOK' /\ ReviewsFit'
    BY <1>1, <1>4 DEF IInv, TypeOK, ShownTyped, ReviewsFit
  <1>6. ASSUME NEW q \in Runs \ {r} PROVE RunFits(q)'
    <2>1. Same(q) /\ (Dead(q) => Dead(q)')
      BY <1>1 DEF IInv, TypeOK, Same, Dead
    <2> QED BY <1>1, <2>1, SameFits DEF IInv
  <1>7. TellingFits(r)'
    BY <1>1, <1>2, <1>3, <1>4 DEF TellingFits, At
  <1>8. SilenceFits(r)'
    BY <1>1, <1>2, <1>4 DEF SilenceFits, At
  <1>9. RunFits(r)'
    BY <1>1, <1>7, <1>8
       DEF IInv, RunFits, CollectedIsFinite, CopyFits, StateFits, CauseFits, ApprovalFits,
           GateFits, ChildrenFit, Unfinished, TurnFits, OpenStreams, Streaming, Dead, At
  <1> QED BY <1>5, <1>6, <1>9 DEF IInv

\* Only here is a stream left counted that nobody reads any more.
LEMMA PanicStep ==
  ASSUME IInv, NEW r \in Runs, Panic(r)
  PROVE  IInv'
  <1>1. /\ task[r].pc \in {"setup", "stream", "effect", "childStream"} /\ Failing(r, "error")
        /\ timeUp' = [timeUp EXCEPT ![r] = FALSE] /\ panics' = panics + 1
        /\ UNCHANGED <<row, run, context, slot, depth, overdue, gate, approval, granted, record,
                       effects, child, shown, reviews, crashes>>
    BY DEF Panic, store, turn, clicks
  <1>2. TaskTyped /\ task'[r].pc = "fail" /\ task'[r].cause = "error" /\ Keeps(r)
    BY <1>1, FailingDoes DEF IInv, Causes
  <1>3. panics' \in Nat /\ panics' # 0
    BY <1>1 DEF IInv, TypeOK
  <1>4. TypeOK' /\ ReviewsFit'
    BY <1>1, <1>2, <1>3, TimeFreed DEF IInv, TypeOK, TaskTyped, ReviewsFit
  <1>5. ASSUME NEW q \in Runs \ {r} PROVE RunFits(q)'
    <2>1. Same(q) /\ (Dead(q) => Dead(q)')
      BY <1>1 DEF IInv, TypeOK, Same, Dead, Failing
    <2> QED BY <1>1, <1>3, <2>1, SameFits DEF IInv
  <1>6. RunFits(r)'
    <2>0. /\ CollectedIsFinite(r) /\ CopyFits(r) /\ StateFits(r) /\ CauseFits(r) /\ TellingFits(r)
          /\ ApprovalFits(r) /\ GateFits(r) /\ ChildrenFit(r) /\ SilenceFits(r) /\ TurnFits(r)
      BY DEF IInv, RunFits
    <2>1. row[r].state = "running"
      BY <1>1, <2>0 DEF StateFits, Working, Preparations, Answering, Tooling, Minding
    <2>2. CollectedIsFinite(r)' /\ CopyFits(r)' /\ StateFits(r)'
      BY <1>1, <1>2, <2>0, <2>1
         DEF CollectedIsFinite, Keeps, KeepsTools, CopyFits, StateFits, At, Leaving, Working,
             Preparations, Answering, Tooling, Asking, Minding
    <2>3. CauseFits(r)'
      BY <1>1, <1>2, <2>1 DEF CauseFits, At, Working, Preparations, Answering, Tooling, Asking,
           Minding
    <2>4. shown[r].terminal = "none"
      BY <1>1, <2>0, SilentUntilEnd DEF Leaving
    <2>5. task[r].attempt = 2 => ~task[r].held
      BY <2>0 DEF TellingFits
    <2>6. TellingFits(r)'
      BY <1>1, <1>2, <2>0, <2>4, <2>5, QuietTelling DEF Keeps, KeepsRoute, Preparations
    <2>7. ApprovalFits(r)'
      BY <1>1, <1>2, <2>0, QuietApproval DEF Keeps, KeepsTools, Tooling, Asking, Minding
    <2>8. GateFits(r)'
      BY <1>2 DEF GateFits
    <2>9. ChildrenFit(r)'
      BY <1>1, <1>2, <2>0, <2>1, ChildrenHere, LeavingChildren DEF Leaving
    <2>10. SilenceFits(r)'
      BY <1>1, <1>2, <2>0
         DEF SilenceFits, At, Keeps, KeepsRoute, KeepsTools, Tooling, Asking, Minding
    <2>11. TurnFits(r)'
      BY <1>1, <1>2, <1>3, <2>0 DEF TurnFits, At, Leaving
    <2> QED BY <2>2, <2>3, <2>6, <2>7, <2>8, <2>9, <2>10, <2>11 DEF RunFits
  <1> QED BY <1>4, <1>5, <1>6 DEF IInv

\* A review takes the slot or leaves it.
LEMMA ReviewStep ==
  ASSUME IInv, Review
  PROVE  IInv'
  <1>1. UNCHANGED <<row, run, task, context, timeUp, depth, overdue, gate, approval, granted,
                    record, effects, child, shown, crashes, panics>>
    BY DEF Review, ReviewBegins, ReviewEnds, ReviewGivesUp, store, turn, clicks, faults
  <1>2. /\ reviews' \in Nat /\ slot' \in {slot, Nobody, Reviewer} /\ ReviewsFit'
        /\ slot' = slot \/ slot \in {Nobody, Reviewer}
    BY SlotAssumption
       DEF IInv, TypeOK, ReviewsFit, Review, ReviewBegins, ReviewEnds, ReviewGivesUp, turn
  <1>3. TypeOK'
    BY <1>1, <1>2 DEF IInv, TypeOK
  <1>4. ASSUME NEW q \in Runs PROVE RunFits(q)'
    <2>1. Same(q) /\ (Dead(q) => Dead(q)') /\ (slot' = q <=> slot = q)
      BY <1>1, <1>2, SlotAssumption DEF Same, Dead
    <2> QED BY <1>1, <2>1, SameFits DEF IInv
  <1> QED BY <1>2, <1>3, <1>4 DEF IInv

\* A crash: every run in memory is gone, and only the rows stay.
LEMMA CrashStep ==
  ASSUME IInv, Crash
  PROVE  IInv'
  <1>1. /\ crashes' = crashes + 1 /\ context' = [r \in Runs |-> "live"]
        /\ timeUp' = [r \in Runs |-> FALSE] /\ slot' = Nobody /\ depth' = [r \in Runs |-> 0]
        /\ gate' = [r \in Runs |-> [c \in Calls |-> "absent"]] /\ reviews' = 0
        /\ UNCHANGED <<row, run, overdue, approval, granted, record, effects, child, panics>>
    BY DEF Crash, store
  <1>2. ASSUME NEW r \in Runs
        PROVE  /\ task'[r] \in TaskType /\ Keeps(r) /\ task'[r].cause = task[r].cause
               /\ \/ task'[r].pc = task[r].pc /\ task[r].pc \in {"idle", "done", "lost"}
                  \/ task'[r].pc = "lost" /\ task[r].pc \notin {"idle", "done", "lost"}
    <2> DEFINE new == IF task[r].pc \in Outside THEN task[r] ELSE [task[r] EXCEPT !.pc = "lost"]
    <2>1. task'[r] = new
      BY DEF Crash
    <2>2. task[r] \in TaskType
      BY TaskHere DEF IInv
    <2>3. [task[r] EXCEPT !.pc = "lost"] \in TaskType
      BY <2>2, PcInTask DEF Places
    <2> QED BY <2>1, <2>2, <2>3 DEF Keeps, KeepsRoute, KeepsTools, Outside, TaskType
  <1>3. task' \in [Runs -> TaskType]
    <2>1. task' = [r \in Runs |-> task'[r]]
      BY DEF Crash
    <2> QED BY <1>2, <2>1
  <1>4. ASSUME NEW r \in Runs
        PROVE  /\ shown'[r] \in ShownType /\ ~shown'[r].pending
               /\ shown'[r].output = shown[r].output /\ shown'[r].terminal = shown[r].terminal
               /\ shown'[r].segment = shown[r].segment /\ shown'[r].after = shown[r].after
    <2>1. shown'[r] = [shown[r] EXCEPT !.pending = FALSE] /\ shown[r] \in ShownType
      BY ShownHere DEF Crash, IInv
    <2> QED BY <2>1 DEF ShownType
  <1>5. shown' \in [Runs -> ShownType]
    <2>1. shown' = [r \in Runs |-> shown'[r]]
      BY DEF Crash
    <2> QED BY <1>4, <2>1
  <1>6. TypeOK'
    BY <1>1, <1>3, <1>5 DEF IInv, TypeOK
  <1>7. ReviewsFit'
    BY <1>1, SlotAssumption DEF ReviewsFit
  <1>8. ASSUME NEW r \in Runs PROVE RunFits(r)'
    <2>0. /\ CollectedIsFinite(r) /\ CopyFits(r) /\ StateFits(r) /\ CauseFits(r) /\ TellingFits(r)
          /\ ApprovalFits(r) /\ GateFits(r) /\ ChildrenFit(r) /\ SilenceFits(r) /\ TurnFits(r)
      BY DEF IInv, RunFits
    <2>1. CollectedIsFinite(r)'
      BY <1>2, <2>0 DEF CollectedIsFinite, Keeps, KeepsTools
    <2>2. CopyFits(r)'
      BY <1>1, <1>2, <2>0 DEF CopyFits, At, Leaving
    <2>3. StateFits(r)'
      BY <1>1, <1>2, <2>0
         DEF StateFits, At, Working, Preparations, Answering, Tooling, Asking, Minding
    <2>4. CauseFits(r)'
      BY <1>1, <1>2, <2>0
         DEF CauseFits, At, Working, Preparations, Answering, Tooling, Asking, Minding
    <2>5. TellingFits(r)'
      BY <1>1, <1>2, <1>4, <2>0 DEF TellingFits, At, Leaving, Keeps, KeepsRoute, Preparations
    <2>6. ApprovalFits(r)'
      BY <1>1, <1>2, <2>0, QuietApproval DEF Keeps, KeepsTools, Tooling, Asking, Minding
    <2>7. GateFits(r)'
      BY <1>1 DEF GateFits
    <2>8. ChildrenFit(r)'
      <3>1. ChildrenAgree(r) /\ child' = child
        BY <1>1, <2>0, ChildrenHere
      <3>2. CASE task'[r].pc = "lost" /\ row[r].state # "completed"
        BY <1>1, <3>1, <3>2, LeavingChildren DEF Leaving
      <3>3. CASE task'[r].pc = "idle"
        <4>1. NoneUnfinished(r)
          BY <1>2, <2>0, <3>3, ChildrenHere DEF Minding, Leaving
        <4> QED BY <3>1, <4>1, QuietChildren
      <3>4. CASE row[r].state = "completed"
        <4>1. NoneUnfinished(r)
          BY <2>0, <3>4
             DEF ChildrenFit, CauseFits, StateFits, NoneUnfinished, Minding, Working,
                 Preparations, Answering, Tooling, At, Leaving
        <4> QED BY <3>1, <4>1, QuietChildren
      <3>5. CASE task'[r].pc = "done" /\ row[r].state # "completed"
        BY <1>1, <3>1, <3>5, LeavingChildren DEF Leaving
      <3> QED BY <1>2, <3>2, <3>3, <3>4, <3>5
    <2>9. SilenceFits(r)'
      BY <1>1, <1>2, <1>4, <2>0
         DEF SilenceFits, At, Keeps, KeepsRoute, KeepsTools, Tooling, Asking, Minding
    <2>10. TurnFits(r)'
      <3>1. OpenStreams(r)' = 0 /\ task'[r].pc # "childStream"
        BY <1>2, OpenStreamsBecome DEF Tooling, Asking, Minding
      <3> QED BY <1>1, <3>1, SlotAssumption DEF TurnFits, At
    <2> QED BY <2>1, <2>2, <2>3, <2>4, <2>5, <2>6, <2>7, <2>8, <2>9, <2>10 DEF RunFits
  <1> QED BY <1>6, <1>7, <1>8 DEF IInv

\* Nothing has been sent yet.
LEMMA Initially == Init => IInv
  <1> SUFFICES ASSUME Init PROVE IInv
    OBVIOUS
  <1> DEFINE new == [NewTask("interactive", "plain") EXCEPT !.pc = "idle"]
  <1>1. /\ new \in TaskType /\ new.pc = "idle" /\ new.attempt = 1 /\ new.cause = "none"
        /\ ~new.held /\ ~new.committed /\ new.todo = {} /\ new.seen = {}
    <2>1. (CHOOSE c \in Calls : TRUE) \in Calls
      BY CallsAssumption
    <2> DEFINE old == NewTask("interactive", "plain")
    <2>2. /\ old \in TaskType /\ old.attempt = 1 /\ old.cause = "none" /\ ~old.held
          /\ ~old.committed /\ old.todo = {} /\ old.seen = {}
      BY <2>1, LimitsAssumption DEF NewTask, TaskType, Places, Causes
    <2> HIDE DEF old
    <2>3. new = [old EXCEPT !.pc = "idle"]
      BY DEF old
    <2> HIDE DEF new
    <2>4. new \in TaskType
      BY <2>2, <2>3, PcInTask DEF Places
    <2> QED BY <2>2, <2>3, <2>4 DEF TaskType
  <1>2. task = [r \in Runs |-> new]
    BY DEF Init
  <1> HIDE DEF new
  <1>3. Absent \in RowType /\ Absent.state = "absent" /\ NothingShown \in ShownType
          /\ ChildAbsent \in ChildType
    BY DEF Absent, RowType, NothingShown, ShownType, ChildAbsent, ChildType
  <1>4. TypeOK
    <2>1. task \in [Runs -> TaskType]
      BY <1>1, <1>2
    <2>2. row \in [Runs -> RowType] /\ run \in [Runs -> RowType] /\ shown \in [Runs -> ShownType]
          /\ child \in [Runs -> [Calls -> ChildType]]
      BY <1>3 DEF Init
    <2> QED BY <2>1, <2>2 DEF Init, TypeOK
  <1>5. ReviewsFit
    BY SlotAssumption DEF Init, ReviewsFit
  <1>6. ASSUME NEW r \in Runs PROVE RunFits(r)
    <2>1. /\ task[r] = new /\ row[r] = Absent /\ run[r] = Absent /\ shown[r] = NothingShown
          /\ \A c \in Calls : /\ approval[r][c] = "absent" /\ gate[r][c] = "absent"
                              /\ record[r][c] = "absent" /\ effects[r][c] = 0
                              /\ child[r][c] = ChildAbsent
      BY <1>2 DEF Init
    <2>2. CollectedIsFinite(r)
      BY <1>1, <2>1, FS_EmptySet DEF CollectedIsFinite
    <2>3. CopyFits(r) /\ StateFits(r)
      BY <1>1, <1>3, <2>1
         DEF CopyFits, StateFits, At, Working, Preparations, Answering, Tooling, Asking, Minding
    <2>4. CauseFits(r)
      BY <1>1, <1>3, <2>1
         DEF CauseFits, At, Working, Preparations, Answering, Tooling, Asking, Minding
    <2>5. TellingFits(r)
      BY <1>1, <1>3, <2>1 DEF TellingFits, NothingShown, At, Leaving, Preparations
    <2>6. ApprovalFits(r) /\ GateFits(r)
      BY <1>1, <2>1 DEF ApprovalFits, GateFits, At, Tooling, Asking, Minding
    <2>7. ChildrenFit(r)
      BY <2>1 DEF ChildrenFit, Unfinished, ChildAbsent
    <2>8. SilenceFits(r)
      BY <1>1, <2>1 DEF SilenceFits, NothingShown, At, Tooling, Asking, Minding
    <2>9. TurnFits(r)
      <3>1. OpenStreams(r) = 0
        BY <1>1, <2>1, OpenStreamsAre DEF Tooling, Asking, Minding
      <3>2. depth[r] = 0 /\ slot = Nobody
        BY DEF Init
      <3>3. ~At(r, "childStream")
        BY <1>1, <2>1 DEF At
      <3> QED BY <3>1, <3>2, <3>3, SlotAssumption DEF TurnFits
    <2> QED BY <2>2, <2>3, <2>4, <2>5, <2>6, <2>7, <2>8, <2>9 DEF RunFits
  <1> QED BY <1>4, <1>5, <1>6 DEF IInv

\* The invariant holds.
LEMMA InvariantHolds == Spec => []IInv
  <1>1. ASSUME IInv, [Next]_vars PROVE IInv'
    <2>1. ASSUME NEW r \in Runs, Step(r) PROVE IInv'
      <3>1. TypeOK /\ ReviewsFit /\ RunFits(r) /\ \A q \in Runs : RunFits(q)
        BY <1>1 DEF IInv
      <3>2. CollectedIsFinite(r) /\ TellingFits(r) /\ TurnFits(r)
        BY <3>1 DEF RunFits
      <3>3. TypeOK' /\ ReviewsFit'
        BY <2>1, <3>1, <3>2, TypeStep, ReviewsStep
      <3>4. RunFits(r)'
        BY <2>1, <3>1, RunStep
      <3>5. ASSUME NEW q \in Runs \ {r} PROVE RunFits(q)'
        BY <2>1, <3>1, <3>2, OthersStep
      <3> QED BY <3>3, <3>4, <3>5 DEF IInv
    <2>2. ASSUME NEW r \in Runs, Clock(r) \/ Owner(r) \/ FlushTimer(r) \/ Panic(r) PROVE IInv'
      BY <1>1, <2>2, ClockStep, ClickStep, SendStep, FlushStep, PanicStep DEF Owner
    <2>3. CASE Review \/ Crash
      BY <1>1, <2>3, ReviewStep, CrashStep
    <2>4. CASE UNCHANGED vars
      <3>1. TypeOK' /\ ReviewsFit'
        BY <1>1, <2>4 DEF vars, IInv, TypeOK, ReviewsFit
      <3>2. ASSUME NEW q \in Runs PROVE RunFits(q)'
        BY <1>1, <2>4, SameFits DEF vars, IInv, Same, Dead
      <3> QED BY <3>1, <3>2 DEF IInv
    <2> QED BY <1>1, <2>1, <2>2, <2>3, <2>4 DEF Next
  <1> QED BY <1>1, Initially, PTL DEF Spec

-----------------------------------------------------------------------------
(* How the rows move: one version at a time, along the ways of a run.      *)

\* The goroutine saves what it has read and nobody else has written since.
LEMMA SavedMoves ==
  ASSUME TypeOK, NEW r \in Runs, NEW to \in RunStates, CopyFits(r), Saved(r, to),
         CanTransition(run[r].state, to) => <<run[r].state, to>> \in Lives!Ways
  PROVE  \/ row' = row
         \/ /\ \E way \in Lives!Ways : Lives!Move(r, way)
            /\ row'[r].switched = row[r].switched
  <1>1. CASE CanTransition(run[r].state, to) /\ Accepted(r, Moved(run[r], to))
    <2>1. row[r] \in RowType /\ run[r] \in RowType
      BY RowHere
    <2>2. run[r].version = row[r].version
      BY <1>1, <2>1, MovedDoes DEF Accepted, RowType
    <2>3. run[r] = row[r]
      BY <2>2 DEF CopyFits
    <2>4. row' = [row EXCEPT ![r] = Moved(row[r], to)]
      BY <1>1, <2>3 DEF Saved
    <2>5. row' = [row EXCEPT ![r].state = to, ![r].version = @ + 1]
      BY <2>4 DEF Moved, TypeOK, RowType
    <2>6. Lives!Move(r, <<run[r].state, to>>)
      BY <2>3, <2>5 DEF Lives!Move
    <2>7. row'[r].switched = row[r].switched
      BY <2>1, <2>4, MovedDoes DEF TypeOK
    <2> QED BY <1>1, <2>6, <2>7
  <1>2. CASE ~(CanTransition(run[r].state, to) /\ Accepted(r, Moved(run[r], to)))
    BY <1>2 DEF Saved
  <1> QED BY <1>1, <1>2

\* A save is accepted only as the next version; another route only from "switch".
RowMoves(r) ==
  \/ row' = row
  \/ /\ \E way \in Lives!Ways : Lives!Move(r, way)
     /\ row'[r].switched = row[r].switched
  \/ Lives!Adjust(r) /\ (row'[r].switched = row[r].switched \/ At(r, "switch"))

\* A goroutine's step moves its row as a run may move.
LEMMA RowStep ==
  ASSUME TypeOK, NEW r \in Runs, CopyFits(r), StateFits(r), Step(r)
  PROVE  RowMoves(r)
  <1>0. row[r].state = run[r].state /\ row[r] \in RowType /\ run[r] \in RowType
    BY RowHere DEF CopyFits
  <1>1. CASE Preparing(r)
    <2>1. CASE Enqueue(r)
      <3>1. run[r].state = "created" /\ (row' = row \/ Saved(r, "queued"))
        BY <1>0, <2>1 DEF Enqueue, Admit, StateFits
      <3> QED BY <3>1, SavedMoves DEF RowMoves, RunStates, Lives!Ways
    <2>2. CASE Register(r)
      <3>1. run[r].state = "queued" /\ (row' = row \/ Saved(r, "running"))
        BY <1>0, <2>2 DEF Register, Admit, StateFits
      <3> QED BY <3>1, SavedMoves DEF RowMoves, RunStates, Lives!Ways
    <2>3. CASE SwitchRoute(r)
      <3> DEFINE new == [run[r] EXCEPT !.version = @ + 1, !.switched = TRUE]
      <3>1. /\ At(r, "switch") /\ row[r].state = "running" /\ run[r] = row[r]
            /\ row' = row \/ row' = [row EXCEPT ![r] = new]
        BY <2>3 DEF SwitchRoute, StateFits, CopyFits, At, Working, Preparations, Leaving
      <3>2. CASE row' = [row EXCEPT ![r] = new]
        <4>1. row' = [row EXCEPT ![r].version = @ + 1, ![r].switched = TRUE]
          BY <3>1, <3>2 DEF TypeOK, RowType
        <4> QED BY <3>1, <4>1 DEF Lives!Adjust, RowMoves
      <3> QED BY <3>1, <3>2 DEF RowMoves
    <2>4. CASE PersistBudget(r)
      <3> DEFINE new == [run[r] EXCEPT !.version = @ + 1]
      <3>1. /\ row[r].state = "running" /\ run[r] = row[r]
            /\ row' = row \/ row' = [row EXCEPT ![r] = new]
        BY <2>4 DEF PersistBudget, StateFits, CopyFits, At, Working, Preparations, Leaving
      <3>2. CASE row' = [row EXCEPT ![r] = new]
        <4>1. /\ row' = [row EXCEPT ![r].version = @ + 1, ![r].switched = row[r].switched]
              /\ row'[r].switched = row[r].switched
          BY <3>1, <3>2, ZenonT(60) DEF TypeOK, RowType
        <4> QED BY <3>1, <4>1 DEF Lives!Adjust, RowMoves
      <3> QED BY <3>1, <3>2 DEF RowMoves
    <2>5. CASE SetupDone(r) \/ SetupFails(r) \/ AuditSwitch(r) \/ AssembleContext(r)
      BY <2>5 DEF SetupDone, SetupFails, AuditSwitch, AssembleContext, store, RowMoves
    <2> QED BY <1>1, <2>1, <2>2, <2>3, <2>4, <2>5 DEF Preparing
  <1>2. CASE ModelTurn(r)
    BY <1>2, ModelTurnLeaves DEF RowMoves
  <1>3. CASE ToolCall(r)
    <2>1. CASE BeginWait(r)
      <3>1. run[r].state = "running" /\ Saved(r, "waiting_approval")
        BY <1>0, <2>1 DEF BeginWait, StateFits, At, Working, Tooling, Asking
      <3> QED BY <3>1, SavedMoves DEF RowMoves, RunStates, Lives!Ways
    <2>2. CASE TakeAnswer(r) \/ TakeExpiry(r)
      <3>1. run[r].state = "waiting_approval" /\ Saved(r, "running")
        BY <1>0, <2>2 DEF TakeAnswer, TakeExpiry, StateFits
      <3> QED BY <3>1, SavedMoves DEF RowMoves, RunStates, Lives!Ways
    <2>3. CASE ~(BeginWait(r) \/ TakeAnswer(r) \/ TakeExpiry(r))
      BY <1>3, <2>3
         DEF ToolCall, Authorize, CreateApproval, RegisterApproval, AnnounceApproval, WaitEnds,
             RecordAnswer, RecordExpiry, ReportDenial, LaunchTool, ExecuteTool, ReportTool,
             store, RowMoves
    <2> QED BY <2>1, <2>2, <2>3
  <1>4. CASE Delegation(r)
    BY <1>4, DelegationLeaves DEF RowMoves
  <1>5. CASE Ending(r)
    <2>1. CASE CompleteRun(r)
      <3>1. run[r].state = "running" /\ (row' = row \/ Saved(r, "completed"))
        BY <1>0, <2>1 DEF CompleteRun, StateFits, At, Working, Answering
      <3> QED BY <3>1, SavedMoves DEF RowMoves, RunStates, Lives!Ways
    <2>2. CASE FailRun(r)
      <3>1. CASE run[r].state \in {"running", "waiting_approval"}
        <4>1. \E to \in {"cancelling", "failed"} : Saved(r, to)
          BY <2>2, <3>1, FailRunDoes
        <4> QED BY <3>1, <4>1, SavedMoves DEF RowMoves, RunStates, Lives!Ways
      <3>2. CASE run[r].state \notin {"running", "waiting_approval"}
        BY <2>2, <3>2, FailRunDoes DEF RowsKept, RowMoves
      <3> QED BY <3>1, <3>2
    <2>3. CASE RecordCancelled(r)
      <3>1. Saved(r, "cancelled") /\ (run[r].state = "cancelling" \/ row[r].version # run[r].version)
        BY <1>0, <2>3 DEF RecordCancelled, StateFits, At
      <3>2. CASE run[r].state = "cancelling"
        BY <3>1, <3>2, SavedMoves DEF RowMoves, RunStates, Lives!Ways
      <3>3. CASE row[r].version # run[r].version
        BY <3>1, <3>3, SavedDoes DEF RowMoves, RunStates
      <3> QED BY <3>1, <3>2, <3>3
    <2>4. CASE LeaveRoute(r) \/ SaveSegments(r) \/ Tell(r) \/ Finish(r)
      BY <2>4 DEF LeaveRoute, SaveSegments, Tell, Finish, store, RowMoves
    <2> QED BY <1>5, <2>1, <2>2, <2>3, <2>4 DEF Ending
  <1> QED BY <1>1, <1>2, <1>3, <1>4, <1>5 DEF Step

\* A message makes a row that was not there.
LEMMA SendMoves ==
  ASSUME TypeOK, NEW r \in Runs, StateFits(r), SendMessage(r)
  PROVE  RowMoves(r)
  <1> DEFINE new == [state |-> "created", version |-> 1, switched |-> FALSE]
  <1>1. row[r] = Absent /\ row' = [row EXCEPT ![r] = new]
    BY DEF SendMessage, StateFits
  <1>2. new \in RowType /\ Absent \in RowType /\ Absent.state = "absent" /\ Absent.version = 0
          /\ ~Absent.switched
    BY DEF RowType, RunStates, Absent
  <1>3. new = Moved(Absent, "created")
    <2> DEFINE moved == Moved(Absent, "created")
    <2>1. new.state = "created" /\ new.version = 1 /\ new.switched = FALSE
      OBVIOUS
    <2>2. /\ moved \in RowType /\ moved.state = "created" /\ moved.version = 1
          /\ moved.switched = FALSE
      <3>1. Absent.switched = FALSE /\ "created" \in RunStates
        BY DEF Absent, RunStates
      <3> QED BY <1>2, <3>1, MovedDoes
    <2> HIDE DEF new, moved
    <2>3. new = moved
      BY <1>2, <2>1, <2>2, RowsEqual
    <2> QED BY <2>3 DEF moved
  <1>4. row' = [row EXCEPT ![r].state = "created", ![r].version = @ + 1]
    <2>1. row' = [row EXCEPT ![r] = Moved(row[r], "created")]
      BY <1>1, <1>3
    <2> QED BY <2>1 DEF Moved, TypeOK, RowType
  <1>5. row'[r] = new
    BY <1>1 DEF TypeOK
  <1>6. row'[r].switched = row[r].switched
    <2>1. new.switched = FALSE /\ Absent.switched = FALSE
      BY DEF Absent
    <2> HIDE DEF new
    <2> QED BY <1>1, <1>5, <2>1
  <1>7. <<"absent", "created">> \in Lives!Ways
    BY DEF Lives!Ways
  <1>8. Lives!Move(r, <<"absent", "created">>)
    BY <1>1, <1>2, <1>4 DEF Lives!Move
  <1> QED BY <1>6, <1>7, <1>8 DEF RowMoves

\* Every step moves the row of one run, or none.
LEMMA NextMoves ==
  ASSUME IInv, [Next]_vars
  PROVE  row' = row \/ \E r \in Runs : RowMoves(r) /\ \A q \in Runs \ {r} : row'[q] = row[q]
  <1>1. ASSUME NEW r \in Runs, Step(r)
        PROVE  RowMoves(r) /\ \A q \in Runs \ {r} : row'[q] = row[q]
    BY <1>1, RowStep, StepAlone DEF IInv, RunFits, Alone
  <1>2. ASSUME NEW r \in Runs, SendMessage(r)
        PROVE  RowMoves(r) /\ \A q \in Runs \ {r} : row'[q] = row[q]
    <2>1. RowMoves(r)
      BY <1>2, SendMoves DEF IInv, RunFits
    <2> QED BY <1>2, <2>1 DEF SendMessage, IInv, TypeOK
  <1>3. ASSUME NEW r \in Runs,
               \/ Clock(r) \/ CancelRun(r) \/ FlushTimer(r) \/ Panic(r)
               \/ \E c \in CallsOf[r], answer \in Answers : ResolveApproval(r, c, answer)
        PROVE  row' = row
    BY <1>3 DEF Clock, TimeUp, ApprovalExpires, CancelRun, FlushTimer, Panic, ResolveApproval,
         store
  <1>4. CASE Review \/ Crash
    BY <1>4 DEF Review, ReviewBegins, ReviewEnds, ReviewGivesUp, Crash, store
  <1>5. CASE UNCHANGED vars
    BY <1>5 DEF vars
  <1> QED BY <1>1, <1>2, <1>3, <1>4, <1>5 DEF Next, Owner

-----------------------------------------------------------------------------
\* The slot of the model is held by the one run that streams, and every
\* goroutine that ends has told the truth about its end, once and last.
THEOREM EndsAreToldHolds == Spec => []EndsAreTold
  <1>1. IInv => EndsAreTold
    <2> SUFFICES ASSUME IInv PROVE EndsAreTold
      OBVIOUS
    <2>1. ASSUME NEW r \in Runs
          PROVE  /\ ~shown[r].after
                 /\ At(r, "done") /\ row[r].state \notin {"created", "queued"} =>
                      shown[r].terminal # "none"
                 /\ shown[r].terminal = "complete" => row[r].state = "completed"
                 /\ At(r, "done") /\ row[r].state = "completed" => shown[r].terminal = "complete"
      BY DEF IInv, RunFits, TellingFits, At
    <2>2. ASSUME NEW r \in Runs
          PROVE  (depth[r] > 0 <=> slot = r) /\ (panics = 0 => depth[r] = OpenStreams(r))
      BY DEF IInv, RunFits, TurnFits
    <2> QED BY <2>1, <2>2 DEF EndsAreTold, LastWordIsTrue, TurnIsExclusive, IInv
  <1> QED BY <1>1, InvariantHolds, PTL

\* No write takes effect without the owner's recorded approval, no call takes
\* effect twice, and no approval outlives the goroutine that waits for it.
THEOREM ApprovalsHoldAlways == Spec => []ApprovalsHold
  <1>1. IInv => ApprovalsHold
    <2> SUFFICES ASSUME IInv PROVE ApprovalsHold
      OBVIOUS
    <2>1. ASSUME NEW r \in Runs, NEW c \in Calls
          PROVE  /\ c \in Writes /\ effects[r][c] > 0 => approval[r][c] = "approved"
                 /\ effects[r][c] <= 1
      BY DEF IInv, RunFits, ApprovalFits
    <2>2. ASSUME NEW r \in Runs, \E c \in Calls : gate[r][c] # "absent"
          PROVE  task[r].pc \notin Outside
      BY <2>2 DEF IInv, RunFits, GateFits, Outside
    <2>3. ASSUME NEW r \in Runs, row[r].state = "waiting_approval", ~At(r, "lost")
          PROVE  At(r, "wait") \/ context[r] = "cancelled" \/ task[r].cause # "none"
      <3>1. StateFits(r) /\ CauseFits(r) /\ task[r].pc \in Places
        BY TaskHere DEF IInv, RunFits, TaskType
      <3> QED BY <2>3, <3>1
          DEF StateFits, CauseFits, Places, At, Absent, Working, Preparations, Answering, Tooling,
              Asking, Minding, Leaving
    <2> QED BY <2>1, <2>2, <2>3 DEF ApprovalsHold, WritesAreApproved, ApprovalsBelongToRuns
  <1> QED BY <1>1, InvariantHolds, PTL

\* A completed run has left no subagent under way.
THEOREM SubagentsEnd == Spec => []SubagentsEndFirst
  <1>1. IInv => SubagentsEndFirst
    <2> SUFFICES ASSUME IInv, NEW r \in Runs, NEW c \in Calls
                 PROVE  /\ child[r][c].run = child[r][c].status
                        /\ row[r].state = "completed" => child[r][c].run \in Terminal \cup {"absent"}
      BY DEF SubagentsEndFirst
    <2>1. ChildrenFit(r) /\ CauseFits(r) /\ StateFits(r)
      BY DEF IInv, RunFits
    <2> QED BY <2>1
        DEF ChildrenFit, CauseFits, StateFits, Unfinished, At, Working, Preparations, Answering,
            Tooling, Asking, Minding, Leaving
  <1> QED BY <1>1, InvariantHolds, PTL

\* The route changes only while the owner has seen nothing of the first one
\* and no tool was asked for.
THEOREM FallbackStaysSilent == Spec => FallbackIsSilent
  <1> DEFINE Silent ==
        \A r \in Runs : row'[r].switched /\ ~row[r].switched =>
          /\ ~shown[r].output /\ shown[r].terminal = "none" /\ task[r].attempt = 1
          /\ \A c \in Calls : record[r][c] = "absent" /\ effects[r][c] = 0
  <1>1. ASSUME IInv, [Next]_vars PROVE Silent
    <2> SUFFICES ASSUME NEW r \in Runs, row'[r].switched, ~row[r].switched
                 PROVE  /\ ~shown[r].output /\ shown[r].terminal = "none" /\ task[r].attempt = 1
                        /\ \A c \in Calls : record[r][c] = "absent" /\ effects[r][c] = 0
      OBVIOUS
    <2>1. RowMoves(r) /\ row' # row
      BY <1>1, NextMoves
    <2>2. CASE At(r, "switch")
      <3>1. SilenceFits(r) /\ TellingFits(r)
        BY <1>1 DEF IInv, RunFits
      <3>2. shown[r].terminal = "none"
        BY <2>2, <3>1, SilentUntilEnd DEF At, Leaving
      <3> QED BY <2>2, <3>1, <3>2 DEF SilenceFits, At
    <2>3. row'[r].switched # row[r].switched
      OBVIOUS
    <2> QED BY <2>1, <2>2, <2>3 DEF RowMoves
  <1> QED BY <1>1, InvariantHolds, PTL DEF Spec, FallbackIsSilent

\* Every row of agent_runs lives as the domain promises.
THEOREM RunLifeImplemented == Spec => RowsFollowRunLife
  <1>1. Init => Lives!Init
    BY DEF Init, Lives!Init, Absent
  <1>2. ASSUME IInv, [Next]_vars PROVE [Lives!Next]_row
    BY <1>2, NextMoves DEF RowMoves, Lives!Next
  <1> QED BY <1>1, <1>2, InvariantHolds, PTL DEF Spec, RowsFollowRunLife, Lives!Spec
=============================================================================
