------------------------------- MODULE ChatRuns -------------------------------
(***************************************************************************)
(* One chat run from the owner's message to its last event: the bridge's   *)
(* goroutine (desktop/chat_run.go and the chat_*.go files beside it), the  *)
(* runtime it drives (agent/runtime.go), the slot all model calls share    *)
(* (desktop/model_gate.go), the owner's approvals (desktop/                *)
(* chat_approval.go), the subagent of a tool call (desktop/                *)
(* delegation_tool.go), and the rows they leave in the database.           *)
(*                                                                         *)
(* A run has one goroutine; its locals are task[r] and run[r].  Each       *)
(* action is one database call, one wait, or one call to the model or a    *)
(* tool.  The owner's clicks, cancellations, the clock and a crash come    *)
(* between any two.                                                        *)
(***************************************************************************)
EXTENDS Integers, FiniteSets

CONSTANTS
  Runs,               \* runs that may be started
  Calls,              \* ids of tool calls, within a run
  CallsOf,            \* the calls the model may propose in each run
  Writes, Delegates,  \* the calls that write, and the calls of agent.delegate
  Streams,            \* kinds of model streams: "plain", "interactive"
  RunKinds,           \* "interactive", "background"
  Fallback,           \* is a fallback route enabled?
  Required,           \* runs that must call a tool before they answer
  MaxSteps, MaxToolCalls, MaxDelegations,
  Nobody, Reviewer,   \* nobody, or a reviewer of finished turns, has the slot
  MaxCrashes, MaxPanics

ASSUME CallsAssumption ==
  /\ Calls # {} /\ CallsOf \in [Runs -> SUBSET Calls]
  /\ Writes \subseteq Calls /\ Delegates \subseteq Calls
  /\ Writes \cap Delegates = {}
ASSUME ModesAssumption ==
  /\ Streams \subseteq {"plain", "interactive"}
  /\ RunKinds \subseteq {"interactive", "background"}
  /\ Fallback \in BOOLEAN /\ Required \subseteq Runs
ASSUME LimitsAssumption ==
  MaxSteps \in Nat /\ MaxToolCalls \in Nat /\ MaxDelegations \in Nat /\ MaxCrashes \in Nat
    /\ MaxPanics \in Nat
ASSUME SlotAssumption ==
  Nobody \notin Runs /\ Reviewer \notin Runs /\ Nobody # Reviewer

VARIABLES
  row,        \* agent_runs: state and version of each run
  run,        \* the goroutine's copy of its row
  task,       \* the goroutine's other locals
  context,    \* "live", or "cancelled" by the owner, a shutdown or the parent
  timeUp,     \* has the run's duration budget passed?
  slot,       \* Bridge.modelTurns: who holds the slot
  depth,      \* modelTurnLease.depth of each run
  approval,   \* approvals: decision of each call's row
  overdue,    \* calls whose approval is past expires_at
  gate,       \* Bridge.approvals: absent, open, or the answer delivered
  granted,    \* calls whose directory was added to the permanent permissions
  record,     \* tool_calls: status of each call's row
  effects,    \* how often each call's tool took effect
  child,      \* rows of each call's subagent: run state, delegation status
  shown,      \* what the front end has been sent
  reviews,    \* reviews of finished turns waiting for the slot
  crashes, panics

store == <<row, approval, granted, record, effects, child>>
turn == <<slot, depth>>
clicks == <<overdue, gate>>
vars == <<row, run, task, context, timeUp, slot, depth, approval, overdue, gate,
          granted, record, effects, child, shown, reviews, crashes, panics>>
faults == <<crashes, panics>>

-----------------------------------------------------------------------------
(* The run of the domain.                                                  *)

RunStates ==
  {"created", "queued", "running", "waiting_approval", "cancelling",
   "completed", "failed", "cancelled"}

Terminal == {"completed", "failed", "cancelled"}

CanTransition(from, to) ==
  \/ from = "created" /\ to \in {"queued", "cancelling", "cancelled"}
  \/ from = "queued" /\ to \in {"running", "cancelling", "cancelled"}
  \/ from = "running" /\ to \in {"waiting_approval", "cancelling", "completed", "failed"}
  \/ from = "waiting_approval" /\ to \in {"running", "cancelling", "cancelled", "failed"}
  \/ from = "cancelling" /\ to \in {"cancelled", "failed"}

Absent == [state |-> "absent", version |-> 0, switched |-> FALSE]

(* Mutant: a save that does not compare versions.                          *)
AcceptedAny(r, new) == TRUE

\* Save takes nothing but the next version of the stored row.
Accepted(r, new) == new.version = row[r].version + 1

Moved(old, to) == [old EXCEPT !.state = to, !.version = @ + 1]

\* transitionAndSave with a context that nobody cancels; its error ignored.
Saved(r, to) ==
  LET new == Moved(run[r], to)
  IN  IF CanTransition(run[r].state, to) /\ Accepted(r, new)
      THEN row' = [row EXCEPT ![r] = new] /\ run' = [run EXCEPT ![r] = new]
      ELSE UNCHANGED <<row, run>>

-----------------------------------------------------------------------------
(* The goroutine.                                                          *)

\* Where it is.  "done" keeps no resource; "lost" died with the process.
Places ==
  {"idle", "created", "queued", "setup", "switch", "audit", "budget", "context",
   "begin", "step", "start", "stream", "tool", "ask", "register", "annotate",
   "lookup", "wait", "decide", "expire", "denied", "launch", "effect", "report",
   "find", "childQueue", "childRun", "childStart", "childStream", "childSave",
   "childFail", "childCancel", "segments", "complete", "aborted",
   "fail", "cancelled", "told", "close", "done", "lost"}

Outside == {"idle", "done", "lost"}

\* Inside Runtime.Run, whose context ends with the duration budget.
Runtime ==
  {"step", "start", "stream", "tool", "ask", "register", "annotate",
   "lookup", "wait", "decide", "expire", "denied", "launch", "effect", "report",
   "find", "childQueue", "childRun", "childStart", "childStream", "childSave",
   "childFail", "childCancel"}

Causes == {"none", "cancelled", "eligible", "error"}
Answers == {"approve", "allow_always", "deny"}

NewTask(kind, stream) ==
  [pc |-> "created", kind |-> kind, stream |-> stream, attempt |-> 1,
   held |-> FALSE, committed |-> FALSE, assembled |-> FALSE, step |-> 0, used |-> 0, misses |-> 0, todo |-> {},
   call |-> CHOOSE c \in Calls : TRUE, seen |-> {}, ok |-> FALSE,
   nested |-> FALSE, answer |-> "none", cause |-> "none"]

NothingShown ==
  [started |-> FALSE, output |-> FALSE, pending |-> FALSE, segment |-> FALSE,
   terminal |-> "none", after |-> FALSE]

At(r, p) == task[r].pc = p
Goto(r, p) == task' = [task EXCEPT ![r].pc = p]

Dead(r) == context[r] = "cancelled" \/ timeUp[r]
DeadCause(r) == IF context[r] = "cancelled" THEN "cancelled" ELSE "error"

\* An event for the front end: deltas still in the buffer go first.
Sent(s) == [s EXCEPT !.pending = FALSE, !.after = @ \/ s.terminal # "none"]

\* The single last event of a run.
Ended(s, status) ==
  IF s.terminal # "none" THEN s ELSE [Sent(s) EXCEPT !.terminal = status]

Flushed(s) == IF s.pending THEN Sent(s) ELSE s

\* closeAssistantSegment, with its event.
Closed(s) == IF s.segment THEN [Sent(s) EXCEPT !.segment = FALSE] ELSE s

\* The first event of an attempt that is passed on takes run.started along.
Passed(r, s) ==
  IF task[r].held THEN [Sent(s) EXCEPT !.started = TRUE] ELSE s

-----------------------------------------------------------------------------
(* Starting a run.                                                         *)

SendMessage(r) ==
  /\ At(r, "idle")
  /\ \E kind \in RunKinds, stream \in Streams :
       task' = [task EXCEPT ![r] = NewTask(kind, stream)]
  /\ row' = [row EXCEPT ![r] = [state |-> "created", version |-> 1, switched |-> FALSE]]
  /\ run' = [run EXCEPT ![r] = row'[r]]
  /\ UNCHANGED <<context, timeUp, turn, clicks, approval, granted, record, effects, child,
                 shown, reviews, faults>>

\* An error before the run is registered is returned to the caller as it is.
Admit(r, from, to, next) ==
  /\ At(r, from)
  /\ IF context[r] = "cancelled"
     THEN Goto(r, "done") /\ UNCHANGED <<row, run>>
     ELSE Goto(r, next) /\ Saved(r, to)
  /\ UNCHANGED <<context, timeUp, turn, clicks, approval, granted, record, effects, child,
                 shown, reviews, faults>>

Enqueue(r) == Admit(r, "created", "queued", "queued")

\* Runs, and registers the run's cancel function.
Register(r) == Admit(r, "queued", "running", "setup")

Registered(r) == task[r].pc \notin Outside \cup {"created", "queued"}

\* newChatExecution, on the primary or on the fallback route.
SetupDone(r) ==
  /\ At(r, "setup")
  /\ Goto(r, "budget")
  /\ UNCHANGED <<run, context, timeUp, store, turn, clicks, shown, reviews, faults>>

Failing(r, cause) == task' = [task EXCEPT ![r].pc = "fail", ![r].cause = cause]

\* The route cannot be set up.
SetupFails(r) ==
  /\ At(r, "setup")
  /\ \E cause \in {"eligible", "error"} :
       IF cause = "eligible" /\ context[r] # "cancelled" /\ Fallback /\ task[r].attempt = 1
       THEN /\ Goto(r, "switch")
            /\ shown' = [shown EXCEPT ![r] = [Sent(@) EXCEPT !.started = TRUE]]
       ELSE Failing(r, IF context[r] = "cancelled" THEN "cancelled" ELSE cause)
            /\ UNCHANGED shown
  /\ UNCHANGED <<run, context, timeUp, store, turn, clicks, reviews, faults>>

\* switchChatRunToFallback: the row first, then the audit, then the memory.
SwitchRoute(r) ==
  /\ At(r, "switch")
  /\ LET new == [run[r] EXCEPT !.version = @ + 1, !.switched = TRUE]
     IN  IF context[r] = "cancelled" \/ run[r].switched \/ ~Accepted(r, new)
         THEN Failing(r, DeadCause(r)) /\ UNCHANGED row
         ELSE Goto(r, "audit") /\ row' = [row EXCEPT ![r] = new]
  /\ UNCHANGED <<run, context, timeUp, turn, clicks, approval, granted, record, effects,
                 child, shown, reviews, faults>>

AuditSwitch(r) ==
  /\ At(r, "audit")
  /\ IF context[r] = "cancelled"
     THEN Failing(r, "cancelled") /\ UNCHANGED <<run, shown>>
     ELSE /\ task' = [task EXCEPT ![r].pc = "setup", ![r].attempt = 2, ![r].step = 0,
                                  ![r].misses = 0, ![r].cause = "none"]
          /\ run' = [run EXCEPT ![r].version = @ + 1, ![r].switched = TRUE]
          /\ shown' = [shown EXCEPT ![r] = Sent(@)]
  /\ UNCHANGED <<context, timeUp, store, turn, clicks, reviews, faults>>

\* Only the first route still has to assemble the context.
Prepared(r) == Goto(r, IF task[r].assembled THEN "begin" ELSE "context")

\* persistResolvedRunBudget, when the model's limits narrow the budget: it
\* raises the version in memory before it saves.
PersistBudget(r) ==
  /\ At(r, "budget")
  /\ \/ Prepared(r) /\ UNCHANGED <<row, run>>
     \/ LET new == [run[r] EXCEPT !.version = @ + 1]
        IN  /\ run' = [run EXCEPT ![r] = new]
            /\ IF context[r] = "cancelled" \/ ~Accepted(r, new)
               THEN Failing(r, DeadCause(r)) /\ UNCHANGED row
               ELSE Prepared(r) /\ row' = [row EXCEPT ![r] = new]
  /\ UNCHANGED <<context, timeUp, turn, clicks, approval, granted, record, effects, child,
                 shown, reviews, faults>>

\* The reads that make up the model's context; any of them may fail.
AssembleContext(r) ==
  /\ At(r, "context")
  /\ \/ /\ context[r] # "cancelled"
        /\ task' = [task EXCEPT ![r].pc = "begin", ![r].assembled = TRUE]
     \/ Failing(r, DeadCause(r))
  /\ UNCHANGED <<run, context, timeUp, store, turn, clicks, shown, reviews, faults>>

-----------------------------------------------------------------------------
(* The runtime's loop of model turns.                                      *)

\* The runtime gives up.  On the first route its run.failed is held back.
Fails(r, cause) ==
  /\ task' = [task EXCEPT ![r].pc = "aborted", ![r].cause = cause]
  /\ timeUp' = [timeUp EXCEPT ![r] = FALSE]
  /\ shown' =
       IF task[r].attempt = 1 THEN shown
       ELSE [shown EXCEPT ![r] =
               Ended(Closed(@), IF "cancelled" \in {cause, context[r]}
                                THEN "cancelled" ELSE "error")]

(* Mutant: the slot is given back, the lease still counts its stream.      *)
ReleaseTurnCounted(r) == slot' = Nobody /\ UNCHANGED depth

\* gatedStream.Close.
ReleaseTurn(r) == slot' = Nobody /\ depth' = [depth EXCEPT ![r] = @ - 1]

BeginRun(r) ==
  /\ At(r, "begin")
  /\ task' = [task EXCEPT ![r].pc = IF Dead(r) THEN "aborted" ELSE "step",
                          ![r].cause = IF Dead(r) THEN DeadCause(r) ELSE "none",
                          ![r].held = task[r].attempt = 1 /\ ~Dead(r)]
  /\ UNCHANGED <<run, context, timeUp, store, turn, clicks, shown, reviews, faults>>

BeginStep(r) ==
  /\ At(r, "step")
  /\ IF Dead(r) \/ task[r].step = MaxSteps
     THEN Fails(r, DeadCause(r))
     ELSE /\ task' = [task EXCEPT ![r].pc = "start", ![r].step = @ + 1, ![r].todo = {}]
          /\ UNCHANGED <<timeUp, shown>>
  /\ UNCHANGED <<run, context, store, turn, clicks, reviews, faults>>

\* gatedBackend.Start of a run that holds nothing yet.
AcquireTurn(r) ==
  /\ At(r, "start") /\ slot = Nobody
  /\ slot' = r
  /\ depth' = [depth EXCEPT ![r] = @ + 1]
  /\ Goto(r, "stream")
  /\ UNCHANGED <<run, context, timeUp, store, clicks, shown, reviews, faults>>

AcquireFails(r) ==
  /\ At(r, "start") /\ Dead(r)
  /\ Fails(r, DeadCause(r))
  /\ UNCHANGED <<run, context, store, turn, clicks, reviews, faults>>

(* Mutant: the sink passes the delta on without noting it.                 *)
CommittedUnnoticed(r) == [task[r] EXCEPT !.held = FALSE]

\* The first visible event settles the route.
Committed(r) == [task[r] EXCEPT !.held = FALSE, !.committed = TRUE]

\* A delta opens its segment and waits in the buffer.
Buffered(r, s) ==
  LET p == Passed(r, s)
  IN  [p EXCEPT !.output = TRUE, !.segment = TRUE, !.pending = TRUE,
                !.after = p.after \/ s.terminal # "none"]

TextDelta(r) ==
  /\ At(r, "stream") /\ ~Dead(r)
  /\ task' = [task EXCEPT ![r] = Committed(r)]
  /\ shown' = [shown EXCEPT ![r] = Buffered(r, @)]
  /\ UNCHANGED <<run, context, timeUp, store, turn, clicks, reviews, faults>>

\* createToolRecord, once per call id.
Proposed(r, c) ==
  record' = [record EXCEPT ![r][c] = IF @ = "absent" THEN "pending" ELSE @]

\* A plain stream collects the calls of a turn, an interactive one has each
\* executed before it goes on.
ProposeCall(r, c) ==
  /\ At(r, "stream") /\ ~Dead(r)
  /\ c \notin task[r].todo
  /\ task[r].stream = "interactive" => task[r].todo = {}
  /\ task' = [task EXCEPT ![r] = [Committed(r) EXCEPT !.todo = @ \cup {c}]]
  /\ Proposed(r, c)
  /\ shown' = [shown EXCEPT ![r] = Sent(Closed(Passed(r, @)))]
  /\ UNCHANGED <<row, run, context, timeUp, turn, clicks, approval, granted, effects, child,
                 reviews, faults>>

CallDuringStream(r) ==
  /\ At(r, "stream") /\ task[r].stream = "interactive"
  /\ \E c \in task[r].todo :
       IF task[r].used < MaxToolCalls
       THEN /\ task' = [task EXCEPT ![r].pc = "tool", ![r].call = c, ![r].todo = {},
                                    ![r].used = @ + 1]
            /\ UNCHANGED <<timeUp, shown, turn>>
       ELSE Fails(r, "error") /\ ReleaseTurn(r)
  /\ UNCHANGED <<run, context, store, clicks, reviews, faults>>

Collected(r) == IF task[r].stream = "plain" THEN task[r].todo ELSE {}

\* The required tool call is missing: asked for once more, then an error.
Missing(r) == r \in Required /\ task[r].used = 0 /\ Collected(r) = {}

Affordable(r) == task[r].used + Cardinality(Collected(r)) <= MaxToolCalls

EndStream(r) ==
  /\ At(r, "stream")
  /\ ReleaseTurn(r)
  /\ LET calls == Collected(r)
         used == task[r].used + Cardinality(calls)
     IN  \/ /\ Missing(r) /\ task[r].misses = 0
            /\ task' = [task EXCEPT ![r].pc = "step", ![r].misses = 1]
            /\ UNCHANGED <<timeUp, shown>>
         \/ /\ ~Missing(r) /\ calls = {}
            /\ task' = [task EXCEPT ![r].pc = "segments", ![r].held = FALSE]
            /\ timeUp' = [timeUp EXCEPT ![r] = FALSE]
            /\ shown' = [shown EXCEPT ![r] = Closed(Passed(r, @))]
         \/ /\ Affordable(r)
            /\ \E c \in calls :
                 task' = [task EXCEPT ![r].pc = "tool", ![r].call = c, ![r].used = used]
            /\ UNCHANGED <<timeUp, shown>>
         \/ /\ (Missing(r) /\ task[r].misses = 1) \/ (calls # {} /\ ~Affordable(r))
            /\ Fails(r, "error")
  /\ UNCHANGED <<run, context, store, clicks, reviews, faults>>

\* The provider's error, the end of the context, a budget, a bad stream.
StreamFails(r) ==
  /\ At(r, "stream")
  /\ ReleaseTurn(r)
  /\ \E cause \in {"eligible", "error"} : Fails(r, IF Dead(r) THEN DeadCause(r) ELSE cause)
  /\ UNCHANGED <<run, context, store, clicks, reviews, faults>>

-----------------------------------------------------------------------------
(* One tool call: executeTool.                                             *)

Call(r) == task[r].call

\* The result goes back to the model.
Answered(r) ==
  IF task[r].stream = "interactive"
  THEN Goto(r, "stream")
  ELSE \/ /\ task[r].todo = {Call(r)}
          /\ task' = [task EXCEPT ![r].pc = "step", ![r].todo = {}]
       \/ \E c \in task[r].todo \ {Call(r)} :
            task' = [task EXCEPT ![r].pc = "tool", ![r].call = c,
                                 ![r].todo = @ \ {Call(r)}]

\* The whole run ends with the call.
Abandoned(r, cause) ==
  /\ Fails(r, cause)
  /\ IF task[r].stream = "interactive" THEN ReleaseTurn(r) ELSE UNCHANGED turn

\* Either the context has ended, or `next`.
Alive(r, next) ==
  IF Dead(r) THEN Abandoned(r, DeadCause(r)) ELSE next /\ UNCHANGED <<timeUp, shown, turn>>

\* desktopToolAuthorizer asks the owner; backgroundToolAuthorizer never does.
Authorize(r) ==
  /\ At(r, "tool")
  /\ Alive(r,
       CASE Call(r) \in task[r].seen -> Answered(r)
         [] Call(r) \notin task[r].seen /\ Call(r) \notin Writes -> Goto(r, "launch")
         [] Call(r) \notin task[r].seen /\ Call(r) \in Writes ->
              IF task[r].kind = "background" THEN Answered(r) ELSE Goto(r, "ask"))
  /\ UNCHANGED <<run, context, store, clicks, reviews, faults>>

\* createApproval: the row is keyed by run and call, so a second one fails.
CreateApproval(r) ==
  /\ At(r, "ask")
  /\ Alive(r, IF approval[r][Call(r)] = "absent" THEN Goto(r, "register") ELSE Answered(r))
  /\ approval' = IF ~Dead(r) /\ approval[r][Call(r)] = "absent"
                 THEN [approval EXCEPT ![r][Call(r)] = "pending"] ELSE approval
  /\ UNCHANGED <<row, run, context, clicks, granted, record, effects, child, reviews, faults>>

RegisterApproval(r) ==
  /\ At(r, "register")
  /\ Alive(r, Goto(r, "annotate"))
  /\ gate' = IF Dead(r) THEN gate ELSE [gate EXCEPT ![r][Call(r)] = "open"]
  /\ UNCHANGED <<run, context, overdue, store, reviews, faults>>

\* The tool row gets the approval's id; then the owner is shown the card.
AnnounceApproval(r) ==
  /\ At(r, "annotate")
  /\ IF Dead(r)
     THEN Abandoned(r, DeadCause(r))
     ELSE /\ Goto(r, "lookup")
          /\ shown' = [shown EXCEPT ![r] = Sent(@)]
          /\ UNCHANGED <<timeUp, turn>>
  /\ UNCHANGED <<run, context, store, clicks, reviews, faults>>

\* ResolveApproval: delivered once, to whoever holds or will hold the gate.
ResolveApproval(r, c, answer) ==
  /\ gate[r][c] = "open"
  /\ gate' = [gate EXCEPT ![r][c] = answer]
  /\ UNCHANGED <<row, run, task, context, timeUp, turn, approval, overdue, granted, record,
                 effects, child, shown, reviews, faults>>

BeginWait(r) ==
  /\ At(r, "lookup") /\ gate[r][Call(r)] # "absent"
  /\ Goto(r, "wait")
  /\ Saved(r, "waiting_approval")
  /\ UNCHANGED <<context, timeUp, turn, clicks, approval, granted, record, effects, child,
                 shown, reviews, faults>>

TakeAnswer(r) ==
  /\ At(r, "wait") /\ gate[r][Call(r)] \in Answers
  /\ task' = [task EXCEPT ![r].pc = "decide", ![r].answer = gate[r][Call(r)]]
  /\ Saved(r, "running")
  /\ UNCHANGED <<context, timeUp, turn, clicks, approval, granted, record, effects, child,
                 shown, reviews, faults>>

TakeExpiry(r) ==
  /\ At(r, "wait") /\ Call(r) \in overdue[r]
  /\ Goto(r, "expire")
  /\ Saved(r, "running")
  /\ UNCHANGED <<context, timeUp, turn, clicks, approval, granted, record, effects, child,
                 shown, reviews, faults>>

Released(r) == gate' = [gate EXCEPT ![r][Call(r)] = "absent"]

(* Mutant: the wait watches the cancellation only.                         *)
WaitEndsCancelled(r) ==
  /\ At(r, "wait") /\ context[r] = "cancelled"
  /\ Abandoned(r, "cancelled")
  /\ Released(r)
  /\ UNCHANGED <<run, context, overdue, store, reviews, faults>>

\* The wait ends with the context; the run stays in waiting_approval.
WaitEnds(r) ==
  /\ At(r, "wait") /\ Dead(r)
  /\ Abandoned(r, DeadCause(r))
  /\ Released(r)
  /\ UNCHANGED <<run, context, overdue, store, reviews, faults>>

(* Mutant: a click is a click, however late.                               *)
ApprovesLate(r) == task[r].answer \in {"approve", "allow_always"}

\* An approving click past expires_at counts as no answer, yet the directory
\* of an "always" is remembered.
Approves(r) == task[r].answer \in {"approve", "allow_always"} /\ Call(r) \notin overdue[r]

RecordAnswer(r) ==
  /\ At(r, "decide")
  /\ approval' = [approval EXCEPT ![r][Call(r)] =
       CASE task[r].answer = "deny" -> "denied"
         [] task[r].answer # "deny" /\ Call(r) \in overdue[r] -> "expired"
         [] task[r].answer # "deny" /\ Call(r) \notin overdue[r] -> "approved"]
  /\ granted' = [granted EXCEPT ![r] =
       IF task[r].answer = "allow_always" THEN @ \cup {Call(r)} ELSE @]
  /\ Goto(r, IF Approves(r) THEN "launch" ELSE "denied")
  /\ Released(r)
  /\ UNCHANGED <<row, run, context, timeUp, turn, overdue, record, effects, child, shown,
                 reviews, faults>>

RecordExpiry(r) ==
  /\ At(r, "expire")
  /\ approval' = [approval EXCEPT ![r][Call(r)] = "expired"]
  /\ Goto(r, "denied")
  /\ Released(r)
  /\ UNCHANGED <<row, run, context, timeUp, turn, overdue, granted, record, effects, child,
                 shown, reviews, faults>>

\* tool.updated, with the status the tool's row gets.
Recorded(r, status) ==
  record' = IF Dead(r) THEN record ELSE [record EXCEPT ![r][Call(r)] = status]

ReportDenial(r) ==
  /\ At(r, "denied")
  /\ Alive(r, Answered(r))
  /\ Recorded(r, "denied")
  /\ UNCHANGED <<row, run, context, clicks, approval, granted, effects, child, reviews, faults>>

LaunchTool(r) ==
  /\ At(r, "launch")
  /\ Alive(r, Goto(r, IF Call(r) \in Delegates THEN "find" ELSE "effect"))
  /\ Recorded(r, "running")
  /\ UNCHANGED <<row, run, context, clicks, approval, granted, effects, child, reviews, faults>>

\* The tool has run: its result is kept under the call's id unless it failed.
Ran(r, ok) ==
  task' = [task EXCEPT ![r].pc = "report", ![r].ok = ok,
                       ![r].seen = IF ok THEN @ \cup {Call(r)} ELSE @]

ExecuteTool(r) ==
  /\ At(r, "effect")
  /\ \E ok \in BOOLEAN :
       /\ Ran(r, ok)
       /\ effects' = IF ok THEN [effects EXCEPT ![r][Call(r)] = @ + 1] ELSE effects
  /\ UNCHANGED <<row, run, context, timeUp, turn, clicks, approval, granted, record, child,
                 shown, reviews, faults>>

\* A tool that ran out of its own time takes the run with it.
ReportTool(r) ==
  /\ At(r, "report")
  /\ IF task[r].cause # "none" /\ ~Dead(r)
     THEN Abandoned(r, task[r].cause)
     ELSE Alive(r, Answered(r))
  /\ Recorded(r, IF task[r].ok THEN "succeeded" ELSE "failed")
  /\ UNCHANGED <<row, run, context, clicks, approval, granted, effects, child, reviews, faults>>

-----------------------------------------------------------------------------
(* agent.delegate: a child run on the parent's model slot.                 *)

ChildAbsent == [run |-> "absent", status |-> "absent"]

ChildrenOf(r) == {c \in CallsOf[r] : child[r][c] # ChildAbsent}

(* Mutant: the child's run is saved without its delegation.                *)
PairSavedHalf(r, to) == child' = [child EXCEPT ![r][Call(r)].run = to]

\* SaveDelegationWithChild: both rows in one transaction, or neither.
PairSaved(r, to) ==
  child' = [child EXCEPT ![r][Call(r)] = [run |-> to, status |-> to]]

\* An answer already stored is given again; an unfinished one never is.
FindDelegation(r) ==
  /\ At(r, "find")
  /\ LET here == child[r][Call(r)]
     IN  IF Dead(r) \/ here # ChildAbsent \/ Cardinality(ChildrenOf(r)) >= MaxDelegations
         THEN Ran(r, ~Dead(r) /\ here.status = "completed") /\ UNCHANGED child
         ELSE Goto(r, "childQueue") /\ PairSaved(r, "created")
  /\ UNCHANGED <<row, run, context, timeUp, turn, clicks, approval, granted, record, effects,
                 shown, reviews, faults>>

\* transitionPair with the parent's context; its failure leaves the pair as is.
MovePair(r, from, to, next) ==
  /\ At(r, from)
  /\ IF Dead(r) THEN Ran(r, FALSE) /\ UNCHANGED child
                ELSE Goto(r, next) /\ PairSaved(r, to)
  /\ UNCHANGED <<row, run, context, timeUp, turn, clicks, approval, granted, record, effects,
                 shown, reviews, faults>>

QueueChild(r) == MovePair(r, "childQueue", "queued", "childRun")
StartChild(r) == MovePair(r, "childRun", "running", "childStart")

\* The child asks for the slot with the parent's lease in its context.
AcquireChildTurn(r) ==
  /\ At(r, "childStart")
  /\ depth[r] > 0 \/ slot = Nobody
  /\ slot' = IF depth[r] > 0 THEN slot ELSE r
  /\ depth' = [depth EXCEPT ![r] = @ + 1]
  /\ task' = [task EXCEPT ![r].pc = "childStream", ![r].nested = depth[r] > 0]
  /\ UNCHANGED <<run, context, timeUp, store, clicks, shown, reviews, faults>>

\* Why the child failed decides how its pair ends, and whether the parent
\* goes on: not after a deadline, which the runtime takes for its own.
ChildFails(r, cause) == task' = [task EXCEPT ![r].pc = "childFail", ![r].cause = cause]

AcquireChildFails(r) ==
  /\ At(r, "childStart") /\ Dead(r)
  /\ ChildFails(r, DeadCause(r))
  /\ UNCHANGED <<run, context, timeUp, store, turn, clicks, shown, reviews, faults>>

\* A turn of the child ends: another one, its answer, an error, its deadline.
ChildTurnEnds(r) ==
  /\ At(r, "childStream")
  /\ slot' = IF task[r].nested THEN slot ELSE Nobody
  /\ depth' = [depth EXCEPT ![r] = @ - 1]
  /\ \/ ~Dead(r) /\ Goto(r, "childStart")
     \/ Goto(r, "childSave")
     \/ \E cause \in {"none", "error"} : ChildFails(r, IF Dead(r) THEN DeadCause(r) ELSE cause)
  /\ UNCHANGED <<run, context, timeUp, store, clicks, shown, reviews, faults>>

CompleteChild(r) ==
  /\ At(r, "childSave")
  /\ Ran(r, ~Dead(r))
  /\ IF Dead(r) THEN UNCHANGED <<child, effects>>
     ELSE PairSaved(r, "completed") /\ effects' = [effects EXCEPT ![r][Call(r)] = @ + 1]
  /\ UNCHANGED <<row, run, context, timeUp, turn, clicks, approval, granted, record, shown,
                 reviews, faults>>

\* failDelegation, on a context of its own.
FailChild(r) ==
  /\ At(r, "childFail")
  /\ IF task[r].cause = "none"
     THEN PairSaved(r, "failed") /\ Ran(r, FALSE)
     ELSE PairSaved(r, "cancelling") /\ Goto(r, "childCancel")
  /\ UNCHANGED <<row, run, context, timeUp, turn, clicks, approval, granted, record, effects,
                 shown, reviews, faults>>

CancelChild(r) ==
  /\ At(r, "childCancel")
  /\ PairSaved(r, "cancelled") /\ Ran(r, FALSE)
  /\ UNCHANGED <<row, run, context, timeUp, turn, clicks, approval, granted, record, effects,
                 shown, reviews, faults>>

-----------------------------------------------------------------------------
(* The end of a run.                                                       *)

\* The first route failed: the other one, if nothing of it was shown yet.
LeaveRoute(r) ==
  /\ At(r, "aborted")
  /\ LET switch == task[r].attempt = 1 /\ Fallback /\ ~task[r].committed
                     /\ task[r].cause = "eligible"
     IN  task' = [task EXCEPT ![r].pc = IF switch THEN "switch" ELSE "fail",
                              ![r].held = FALSE]
  /\ shown' = [shown EXCEPT ![r] = Passed(r, @)]
  /\ UNCHANGED <<run, context, timeUp, store, turn, clicks, reviews, faults>>

\* The messages of the answer.
SaveSegments(r) ==
  /\ At(r, "segments")
  /\ IF context[r] = "cancelled" THEN Failing(r, "cancelled") ELSE Goto(r, "complete")
  /\ UNCHANGED <<run, context, timeUp, store, turn, clicks, shown, reviews, faults>>

CompleteRun(r) ==
  /\ At(r, "complete")
  /\ IF context[r] = "cancelled" \/ ~CanTransition(run[r].state, "completed")
         \/ ~Accepted(r, Moved(run[r], "completed"))
     THEN Failing(r, DeadCause(r)) /\ UNCHANGED <<row, run>>
     ELSE Goto(r, "told") /\ Saved(r, "completed")
  /\ UNCHANGED <<context, timeUp, turn, clicks, approval, granted, record, effects, child,
                 shown, reviews, faults>>

\* failChatRun, on a context of its own; a save that fails is forgotten.
FailRun(r) ==
  /\ At(r, "fail")
  /\ LET cancelled == "cancelled" \in {task[r].cause, context[r]}
         over == run[r].state \in Terminal
         live == run[r].state \in {"running", "waiting_approval"}
     IN  /\ task' = [task EXCEPT
              ![r].pc = IF cancelled /\ ~over THEN "cancelled" ELSE "told",
              ![r].cause = IF cancelled THEN "cancelled" ELSE "error"]
         /\ IF live THEN Saved(r, IF cancelled THEN "cancelling" ELSE "failed")
            ELSE UNCHANGED <<row, run>>
  /\ UNCHANGED <<context, timeUp, turn, clicks, approval, granted, record, effects, child,
                 shown, reviews, faults>>

RecordCancelled(r) ==
  /\ At(r, "cancelled")
  /\ Goto(r, "told")
  /\ Saved(r, "cancelled")
  /\ UNCHANGED <<context, timeUp, turn, clicks, approval, granted, record, effects, child,
                 shown, reviews, faults>>

\* The last event; a completed turn is handed to the background review.
Tell(r) ==
  /\ At(r, "told")
  /\ Goto(r, "close")
  /\ shown' = [shown EXCEPT ![r] =
       Ended(Closed(@), CASE task[r].cause = "none" -> "complete"
                          [] task[r].cause = "cancelled" -> "cancelled"
                          [] task[r].cause \in {"eligible", "error"} -> "error")]
  /\ reviews' = IF task[r].cause = "none" THEN reviews + 1 ELSE reviews
  /\ UNCHANGED <<run, context, timeUp, store, turn, clicks, faults>>

\* releaseApprovals.
Dropped(r) == gate' = [gate EXCEPT ![r] = [c \in Calls |-> "absent"]]

\* The deferred calls: emitter.close makes sure of a last event and drops the
\* run's approvals, then the run's cancel function goes.
Finish(r) ==
  /\ At(r, "close")
  /\ Goto(r, "done")
  /\ shown' = [shown EXCEPT ![r] =
       Ended(Closed(Flushed(@)), IF context[r] = "cancelled" THEN "cancelled" ELSE "error")]
  /\ Dropped(r)
  /\ UNCHANGED <<run, context, timeUp, store, turn, overdue, reviews, faults>>

-----------------------------------------------------------------------------
(* Around the goroutine.                                                   *)

\* The owner, a shutdown, or the scheduler whose job a background run is.
CancelRun(r) ==
  /\ context[r] = "live"
  /\ Registered(r) \/ (task[r].kind = "background" /\ task[r].pc \notin Outside)
  /\ context' = [context EXCEPT ![r] = "cancelled"]
  /\ UNCHANGED <<run, task, timeUp, store, turn, clicks, shown, reviews, faults>>

TimeUp(r) ==
  /\ task[r].pc \in Runtime /\ ~timeUp[r]
  /\ timeUp' = [timeUp EXCEPT ![r] = TRUE]
  /\ UNCHANGED <<run, task, context, store, turn, clicks, shown, reviews, faults>>

ApprovalExpires(r, c) ==
  /\ approval[r][c] = "pending" /\ c \notin overdue[r]
  /\ overdue' = [overdue EXCEPT ![r] = @ \cup {c}]
  /\ UNCHANGED <<run, task, context, timeUp, store, turn, gate, shown, reviews, faults>>

FlushTimer(r) ==
  /\ shown[r].pending
  /\ shown' = [shown EXCEPT ![r] = Sent(@)]
  /\ UNCHANGED <<run, task, context, timeUp, store, turn, clicks, reviews, faults>>

\* Code of a provider or a tool panics.  The deferred recovery ends the run;
\* a stream that was open stays open, and so does its place in the slot.
Panic(r) ==
  /\ panics < MaxPanics
  /\ task[r].pc \in {"setup", "stream", "effect", "childStream"}
  /\ Failing(r, "error")
  /\ timeUp' = [timeUp EXCEPT ![r] = FALSE]
  /\ panics' = panics + 1
  /\ UNCHANGED <<run, context, store, turn, clicks, shown, reviews, crashes>>

\* reviewTurnInBackground: one model call of its own, without any lease.
ReviewBegins ==
  /\ reviews > 0 /\ slot = Nobody
  /\ slot' = Reviewer
  /\ UNCHANGED <<run, task, context, timeUp, depth, store, clicks, shown, reviews, faults>>

ReviewEnds ==
  /\ slot = Reviewer
  /\ slot' = Nobody
  /\ reviews' = reviews - 1
  /\ UNCHANGED <<run, task, context, timeUp, depth, store, clicks, shown, faults>>

\* The review's own deadline passes while it waits.
ReviewGivesUp ==
  /\ reviews > 0 /\ slot # Reviewer
  /\ reviews' = reviews - 1
  /\ UNCHANGED <<run, task, context, timeUp, store, turn, clicks, shown, faults>>

\* The process ends.  The next one starts without goroutines and repairs
\* none of these rows.
Crash ==
  /\ crashes < MaxCrashes
  /\ crashes' = crashes + 1
  /\ task' = [r \in Runs |-> IF task[r].pc \in Outside THEN task[r]
                             ELSE [task[r] EXCEPT !.pc = "lost"]]
  /\ context' = [r \in Runs |-> "live"]
  /\ timeUp' = [r \in Runs |-> FALSE]
  /\ slot' = Nobody
  /\ depth' = [r \in Runs |-> 0]
  /\ gate' = [r \in Runs |-> [c \in Calls |-> "absent"]]
  /\ shown' = [r \in Runs |-> [shown[r] EXCEPT !.pending = FALSE]]
  /\ reviews' = 0
  /\ UNCHANGED <<run, store, overdue, panics>>

-----------------------------------------------------------------------------
Init ==
  /\ row = [r \in Runs |-> Absent]
  /\ run = [r \in Runs |-> Absent]
  /\ task = [r \in Runs |-> [NewTask("interactive", "plain") EXCEPT !.pc = "idle"]]
  /\ context = [r \in Runs |-> "live"]
  /\ timeUp = [r \in Runs |-> FALSE]
  /\ slot = Nobody
  /\ depth = [r \in Runs |-> 0]
  /\ approval = [r \in Runs |-> [c \in Calls |-> "absent"]]
  /\ overdue = [r \in Runs |-> {}]
  /\ gate = [r \in Runs |-> [c \in Calls |-> "absent"]]
  /\ granted = [r \in Runs |-> {}]
  /\ record = [r \in Runs |-> [c \in Calls |-> "absent"]]
  /\ effects = [r \in Runs |-> [c \in Calls |-> 0]]
  /\ child = [r \in Runs |-> [c \in Calls |-> ChildAbsent]]
  /\ shown = [r \in Runs |-> NothingShown]
  /\ reviews = 0 /\ crashes = 0 /\ panics = 0

Preparing(r) ==
  \/ Enqueue(r) \/ Register(r) \/ SetupDone(r) \/ SetupFails(r) \/ SwitchRoute(r)
  \/ AuditSwitch(r) \/ PersistBudget(r) \/ AssembleContext(r)

ModelTurn(r) ==
  \/ BeginRun(r) \/ BeginStep(r) \/ AcquireTurn(r) \/ AcquireFails(r) \/ TextDelta(r)
  \/ \E c \in CallsOf[r] : ProposeCall(r, c)
  \/ CallDuringStream(r) \/ EndStream(r) \/ StreamFails(r)

ToolCall(r) ==
  \/ Authorize(r) \/ CreateApproval(r) \/ RegisterApproval(r) \/ AnnounceApproval(r)
  \/ BeginWait(r) \/ TakeAnswer(r) \/ TakeExpiry(r) \/ WaitEnds(r) \/ RecordAnswer(r)
  \/ RecordExpiry(r) \/ ReportDenial(r) \/ LaunchTool(r) \/ ExecuteTool(r) \/ ReportTool(r)

Delegation(r) ==
  \/ FindDelegation(r) \/ QueueChild(r) \/ StartChild(r) \/ AcquireChildTurn(r)
  \/ AcquireChildFails(r) \/ ChildTurnEnds(r) \/ CompleteChild(r) \/ FailChild(r)
  \/ CancelChild(r)

Ending(r) ==
  \/ LeaveRoute(r) \/ SaveSegments(r) \/ CompleteRun(r) \/ FailRun(r) \/ RecordCancelled(r)
  \/ Tell(r) \/ Finish(r)

Step(r) == Preparing(r) \/ ModelTurn(r) \/ ToolCall(r) \/ Delegation(r) \/ Ending(r)

Review == ReviewBegins \/ ReviewEnds \/ ReviewGivesUp

Clock(r) == TimeUp(r) \/ \E c \in CallsOf[r] : ApprovalExpires(r, c)

Owner(r) ==
  \/ SendMessage(r) \/ CancelRun(r)
  \/ \E c \in CallsOf[r], answer \in Answers : ResolveApproval(r, c, answer)

Next ==
  \/ \E r \in Runs : Step(r) \/ Clock(r) \/ Owner(r) \/ FlushTimer(r) \/ Panic(r)
  \/ Review \/ Crash

Fairness ==
  /\ \A r \in Runs : WF_vars(Step(r)) /\ WF_vars(TimeUp(r))
  /\ WF_vars(ReviewEnds)

Spec == Init /\ [][Next]_vars
FairSpec == Spec /\ Fairness
=============================================================================
