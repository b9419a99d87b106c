-------------------------- MODULE ChatRunsProperties --------------------------
(* What a chat run promises to the owner, to the other runs and to the rows. *)
EXTENDS ChatRuns

TaskType ==
  [pc : Places, kind : {"interactive", "background"}, stream : {"plain", "interactive"},
   attempt : {1, 2}, held : BOOLEAN, committed : BOOLEAN, assembled : BOOLEAN,
   step : 0..MaxSteps, used : 0..MaxToolCalls, misses : {0, 1}, todo : SUBSET Calls, call : Calls,
   seen : SUBSET Calls, ok : BOOLEAN, nested : BOOLEAN, answer : Answers \cup {"none"},
   cause : Causes]

RowType == [state : RunStates \cup {"absent"}, version : Nat, switched : BOOLEAN]

ChildType == [run : RunStates \cup {"absent"}, status : RunStates \cup {"absent"}]

ShownType ==
  [started : BOOLEAN, output : BOOLEAN, pending : BOOLEAN, segment : BOOLEAN,
   terminal : {"none", "complete", "cancelled", "error"}, after : BOOLEAN]

\* Every variable holds a value of its kind.
TypeOK ==
  /\ row \in [Runs -> RowType] /\ run \in [Runs -> RowType]
  /\ task \in [Runs -> TaskType]
  /\ context \in [Runs -> {"live", "cancelled"}] /\ timeUp \in [Runs -> BOOLEAN]
  /\ slot \in Runs \cup {Nobody, Reviewer} /\ depth \in [Runs -> Nat]
  /\ approval \in [Runs -> [Calls -> {"absent", "pending", "approved", "denied", "expired"}]]
  /\ overdue \in [Runs -> SUBSET Calls] /\ granted \in [Runs -> SUBSET Calls]
  /\ gate \in [Runs -> [Calls -> Answers \cup {"absent", "open"}]]
  /\ record \in [Runs -> [Calls ->
       {"absent", "pending", "running", "succeeded", "failed", "denied"}]]
  /\ effects \in [Runs -> [Calls -> Nat]]
  /\ child \in [Runs -> [Calls -> ChildType]] /\ shown \in [Runs -> ShownType]
  /\ reviews \in Nat /\ crashes \in Nat /\ panics \in Nat

\* The run whose stream is open, or whose subagent's stream is, has the slot
\* and counts every stream it has open; without a panic nobody else counts any.
Streaming(r) ==
  \/ task[r].pc \in {"stream", "childStream"}
  \/ /\ task[r].stream = "interactive"
     /\ task[r].pc \in {"tool", "ask", "register", "annotate", "lookup", "wait", "decide",
          "expire", "denied", "launch", "effect", "report", "find", "childQueue", "childRun",
          "childStart", "childSave", "childFail", "childCancel"}

OpenStreams(r) ==
  IF ~Streaming(r) THEN 0
  ELSE IF task[r].pc = "childStream" /\ task[r].nested THEN 2 ELSE 1

\* One model turn at a time, and the slot is free as soon as no stream is open
\* (model_gate.go): a subagent never waits for the slot of its own parent.
TurnIsExclusive ==
  \A r \in Runs :
    /\ depth[r] > 0 <=> slot = r
    /\ panics = 0 => depth[r] = OpenStreams(r)

\* A finished goroutine has told the front end how it ended, exactly once and
\* as the last thing, and told it of success only if the row says completed.
LastWordIsTrue ==
  \A r \in Runs :
    /\ ~shown[r].after
    /\ At(r, "done") /\ row[r].state \notin {"created", "queued"} => shown[r].terminal # "none"
    /\ shown[r].terminal = "complete" => row[r].state = "completed"
    /\ At(r, "done") /\ row[r].state = "completed" => shown[r].terminal = "complete"

\* The ends of a run are told as they are, and one model turn is open at a time:
\* no stream but the holder's.
EndsAreTold == TypeOK /\ LastWordIsTrue /\ TurnIsExclusive

\* A tool that writes took effect only for an answer of the owner recorded as
\* an approval, and no tool call takes effect twice, however often the model
\* repeats its id (chat_approval.go, executeTool).
WritesAreApproved ==
  \A r \in Runs, c \in Calls :
    /\ c \in Writes /\ effects[r][c] > 0 => approval[r][c] = "approved"
    /\ effects[r][c] <= 1

\* An approval that can still be answered belongs to a live goroutine, and a
\* run shown as waiting for one waits for one (releaseApprovals,
\* beginApprovalWait).
ApprovalsBelongToRuns ==
  \A r \in Runs :
    /\ (\E c \in Calls : gate[r][c] # "absent") => task[r].pc \notin Outside
    /\ row[r].state = "waiting_approval" /\ ~At(r, "lost") => At(r, "wait")
         \/ context[r] = "cancelled" \/ task[r].cause # "none"

\* What a run did was approved (desktopToolAuthorizer), and no approval outlives
\* its run.
ApprovalsHold == WritesAreApproved /\ ApprovalsBelongToRuns

\* A completed run leaves no subagent behind that is still under way, and the
\* child's run and its delegation always tell the same (SaveDelegationWithChild).
SubagentsEndFirst ==
  \A r \in Runs, c \in Calls :
    /\ child[r][c].run = child[r][c].status
    /\ row[r].state = "completed" => child[r][c].run \in Terminal \cup {"absent"}

\* The route is changed at most once, and only while the owner has seen
\* nothing of the first one and no tool has been asked for
\* (preOutputAttemptSink, Bridge.switchChatRunToFallback).
FallbackIsSilent ==
  [][\A r \in Runs : row'[r].switched /\ ~row[r].switched =>
       /\ ~shown[r].output /\ shown[r].terminal = "none" /\ task[r].attempt = 1
       /\ \A c \in Calls : record[r][c] = "absent" /\ effects[r][c] = 0]_vars

\* Each row follows the abstract life of a run, one version at a time, whatever
\* the interleaving of saves with the goroutine's own copy.
Lives == INSTANCE RunLife WITH rows <- row
RowsFollowRunLife == Lives!Spec

\* docs/implementation/agent-runtime-and-tools.md: on cancellation or deadline
\* the run becomes cancelled or failed.
CancelledIsRecorded == \A r \in Runs : At(r, "done") /\ shown[r].terminal # "none" => row[r].state \in Terminal

=============================================================================
