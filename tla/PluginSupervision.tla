-------------------------- MODULE PluginSupervision --------------------------
(***************************************************************************)
(* The supervision of one installed plugin: plugins/supervisor.go over the *)
(* child processes of plugins/stdio.go, driven by the bridge's operations  *)
(* in desktop/plugins_lifecycle_authz.go, desktop/plugins_consent.go and   *)
(* the plugin tools of chat runs (desktop/chat_tools.go).                  *)
(*                                                                         *)
(* The bridge keeps at most one supervisor in its map, makes a new one     *)
(* when the map is empty and forgets the old one when the plugin is        *)
(* stopped, so supervisors that calls, watchers and restart loops still    *)
(* hold live on beside the tracked one.  Each action is one critical       *)
(* section of Supervisor.mu or Bridge.mu, one database call, or one call   *)
(* to the child with its answer.                                           *)
(***************************************************************************)
EXTENDS Integers, FiniteSets

CONSTANTS
  Supervisors, NoSupervisor,   \* Supervisor objects, reused when unreachable
  Clients, NoClient,           \* Client objects, each with its child process
  Contexts, NoContext,         \* lifecycle contexts
  Callers,                     \* goroutines that call the bridge or a tool
  MaxAttempts,                 \* RestartPolicy.MaxAttempts
  CrashLimit,                  \* RestartPolicy.MaxRestartsPerWindow
  MaxCalls                     \* bound on the calls of all callers together

ASSUME NamesAssumption ==
  /\ NoSupervisor \notin Supervisors
  /\ NoClient \notin Clients
  /\ NoContext \notin Contexts
  /\ Callers \cap Supervisors = {}
ASSUME PolicyAssumption ==
  /\ MaxAttempts \in Nat
  /\ CrashLimit \in Nat \ {0}
  /\ MaxCalls \in Nat

VARIABLES
  sup,       \* the supervisors' fields
  child,     \* the children: whether they live, their context, their watcher
  ended,     \* contexts that have been cancelled
  task,      \* what each caller and each supervisor's restart loop is doing
  tracked,   \* Bridge.pluginSupervisors at this plugin
  enabled,   \* the plugin row's enabled column
  calls      \* calls made so far

vars == <<sup, child, ended, task, tracked, enabled, calls>>

LifecycleStates ==
  {"stopped", "starting", "running", "stopping", "crashed", "failed"}

\* A restart loop is known by the supervisor it belongs to.
Tasks == Callers \cup Supervisors

Supervisor ==
  [state : LifecycleStates, client : Clients \cup {NoClient},
   lifecycle : Contexts \cup {NoContext}, cancel : Contexts \cup {NoContext},
   restarting : BOOLEAN, crashes : Nat]

Child ==
  [alive : BOOLEAN, context : Contexts \cup {NoContext},
   watcher : Supervisors \cup {NoSupervisor}]

Task ==
  [pc : {"idle", "track", "start", "launch", "handshake", "publish",
         "stop", "close", "cancel", "halt", "disable",
         "invoke", "call",
         "check", "delay", "backoff", "exhaust", "clear"},
   op : {"none", "start", "stop", "disable", "invoke", "restart"},
   sup : Supervisors \cup {NoSupervisor}, client : Clients \cup {NoClient},
   context : Contexts \cup {NoContext}, attempt : 0..MaxAttempts]

\* What NewSupervisor returns.
NewSupervisor ==
  [state |-> "stopped", client |-> NoClient, lifecycle |-> NoContext,
   cancel |-> NoContext, restarting |-> FALSE, crashes |-> 0]

Gone == [alive |-> FALSE, context |-> NoContext, watcher |-> NoSupervisor]

Idle ==
  [pc |-> "idle", op |-> "none", sup |-> NoSupervisor, client |-> NoClient,
   context |-> NoContext, attempt |-> 0]

Init ==
  /\ sup = [s \in Supervisors |-> NewSupervisor]
  /\ child = [c \in Clients |-> Gone]
  /\ ended = {}
  /\ task = [t \in Tasks |-> Idle]
  /\ tracked = NoSupervisor
  /\ enabled = TRUE
  /\ calls = 0

-----------------------------------------------------------------------------
(* Objects nothing refers to any more may be used for new ones.            *)

FreeSupervisors ==
  {s \in Supervisors :
     /\ s # tracked
     /\ \A t \in Tasks : task[t].sup # s
     /\ \A c \in Clients : child[c].watcher # s}

FreeClients ==
  {c \in Clients :
     /\ ~child[c].alive /\ child[c].watcher = NoSupervisor
     /\ \A s \in Supervisors : sup[s].client # c
     /\ \A t \in Tasks : task[t].client # c}

FreeContexts ==
  {k \in Contexts :
     /\ \A s \in Supervisors : k \notin {sup[s].lifecycle, sup[s].cancel}
     /\ \A t \in Tasks : task[t].context # k
     /\ \A c \in Clients : child[c].context # k}

\* A new object: which one does not matter.
AnyOf(free) == {x \in free : x = CHOOSE y \in free : TRUE}

\* Cancelling a context; those nothing refers to are forgotten.
Cancel(k) == (ended \ FreeContexts) \cup ({k} \ {NoContext})

Goto(t, pc) == [task EXCEPT ![t].pc = pc]
Return(t) == [task EXCEPT ![t] = Idle]

Killed(c) == IF c = NoClient THEN child
             ELSE [child EXCEPT ![c] = [@ EXCEPT !.alive = FALSE, !.context = NoContext]]

\* A call that begins: the caller was idle and the bound is not reached.
Calling(t) ==
  /\ task[t].pc = "idle" /\ calls < MaxCalls
  /\ calls' = calls + 1

\* restartAfterCrash, at its first attempt.
RestartLoop(s) == [Idle EXCEPT !.pc = "check", !.op = "restart", !.sup = s]

MoreAttempts(attempt) == attempt < MaxAttempts

\* A Start that fails: the caller gets the error, the restart loop goes on to
\* its next attempt.
StartFailed(t) ==
  IF t \in Callers THEN Return(t)
  ELSE [task EXCEPT ![t] =
          [RestartLoop(t) EXCEPT !.attempt = task[t].attempt + 1,
             !.pc = IF MoreAttempts(task[t].attempt + 1) THEN "check" ELSE "exhaust"]]

-----------------------------------------------------------------------------
(* Supervisor.Start, called by the bridge and by the restart loop.         *)

Startable(s) == sup[s].state \in {"stopped", "crashed", "failed"}

\* Start refuses a plugin that is active or stopping.
StartRefused(t) ==
  /\ task[t].pc = "start" /\ ~Startable(task[t].sup)
  /\ task' = StartFailed(t)
  /\ UNCHANGED <<sup, child, ended, tracked, enabled, calls>>

\* Start takes the supervisor, with a new lifecycle context if the last one is
\* over.
StartBegins(t) ==
  LET s == task[t].sup
      kept == sup[s].lifecycle \in Contexts \ ended
  IN
  /\ task[t].pc = "start" /\ Startable(s)
  /\ \E k \in IF kept THEN {sup[s].lifecycle} ELSE AnyOf(FreeContexts) :
       /\ sup' = [sup EXCEPT ![s] =
                    [@ EXCEPT !.state = "starting", !.lifecycle = k,
                              !.cancel = IF kept THEN sup[s].cancel ELSE k]]
       /\ ended' = IF kept THEN ended ELSE ended \ FreeContexts
       /\ task' = [task EXCEPT ![t] = [@ EXCEPT !.pc = "launch", !.context = k]]
  /\ UNCHANGED <<child, tracked, enabled, calls>>

\* The executable does not resolve, its checksum is wrong or it does not run.
LaunchFails(t) ==
  /\ task[t].pc = "launch"
  /\ sup' = [sup EXCEPT ![task[t].sup].state = "failed"]
  /\ task' = StartFailed(t)
  /\ UNCHANGED <<child, ended, tracked, enabled, calls>>

Launch(t) ==
  /\ task[t].pc = "launch"
  /\ \E c \in AnyOf(FreeClients) :
       /\ child' = [child EXCEPT ![c] = [@ EXCEPT !.alive = TRUE, !.context = task[t].context]]
       /\ task' = [task EXCEPT ![t] = [@ EXCEPT !.pc = "handshake", !.client = c]]
  /\ UNCHANGED <<sup, ended, tracked, enabled, calls>>

\* The child has answered the handshake and the health check.
HandshakeDone(t) ==
  /\ task[t].pc = "handshake" /\ child[task[t].client].alive
  /\ task' = Goto(t, "publish")
  /\ UNCHANGED <<sup, child, ended, tracked, enabled, calls>>

\* It has not: Start closes the child and reports the failure.
HandshakeFails(t) ==
  /\ task[t].pc = "handshake"
  /\ child' = Killed(task[t].client)
  /\ sup' = [sup EXCEPT ![task[t].sup].state = "failed"]
  /\ task' = StartFailed(t)
  /\ UNCHANGED <<ended, tracked, enabled, calls>>

(* Mutant: a start that succeeds forgets the crashes.                      *)
PublishedAfresh(s, c) ==
  [sup[s] EXCEPT !.client = c, !.state = "running", !.crashes = 0]

Published(s, c) == [sup[s] EXCEPT !.client = c, !.state = "running"]

\* The last section of Start, and its watcher.  StartPlugin then records the
\* status, and stops the plugin again when it cannot.
Publish(t) ==
  /\ task[t].pc = "publish"
  /\ sup' = [sup EXCEPT ![task[t].sup] = Published(task[t].sup, task[t].client)]
  /\ child' = [child EXCEPT ![task[t].client].watcher = task[t].sup]
  /\ \E next \in IF t \in Callers
                THEN {Idle, [Idle EXCEPT !.pc = "stop", !.op = "start", !.sup = task[t].sup]}
                ELSE {[RestartLoop(t) EXCEPT !.pc = "clear"]} :
       task' = [task EXCEPT ![t] = next]
  /\ UNCHANGED <<ended, tracked, enabled, calls>>

-----------------------------------------------------------------------------
(* Children and their watchers.                                            *)

\* A child exits whenever it likes; its session is then over (Client.done).
Exit(c) ==
  /\ child[c].alive
  /\ child' = Killed(c)
  /\ UNCHANGED <<sup, ended, task, tracked, enabled, calls>>

\* The session ends when its context does, by killing the child if need be.
CloseOnContext(c) ==
  /\ child[c].alive /\ child[c].context \in ended
  /\ child' = Killed(c)
  /\ UNCHANGED <<sup, ended, task, tracked, enabled, calls>>

(* Mutant: only a running session's exit is recorded.                      *)
ForeignUnlessRunning(s, c) == sup[s].client # c \/ sup[s].state # "running"

(* Mutant: the exit of an older client counts as this one's.               *)
ForeignWhileStopped(s, c) == sup[s].state \in {"stopping", "stopped"}

\* The exit of a client the supervisor does not have, or is stopping.
Foreign(s, c) ==
  sup[s].client # c \/ sup[s].state \in {"stopping", "stopped"}

ExitIgnored(c) ==
  /\ ~child[c].alive /\ child[c].watcher # NoSupervisor
  /\ Foreign(child[c].watcher, c)
  /\ child' = [child EXCEPT ![c].watcher = NoSupervisor]
  /\ UNCHANGED <<sup, ended, task, tracked, enabled, calls>>

Tripped(crashes) == crashes > CrashLimit

\* handleClientExit: the crash is counted and either ends in "failed" or wakes
\* a restart loop, if there is none at work.
HandleClientExit(c) ==
  LET s == child[c].watcher
      crashes == sup[s].crashes + 1
      restart == MaxAttempts > 0 /\ ~Tripped(crashes) /\ ~sup[s].restarting
  IN
  /\ ~child[c].alive /\ s # NoSupervisor
  /\ ~Foreign(s, c)
  /\ child' = [child EXCEPT ![c].watcher = NoSupervisor]
  /\ sup' = [sup EXCEPT ![s] =
               [@ EXCEPT !.client = NoClient, !.lifecycle = NoContext,
                         !.state = IF Tripped(crashes) THEN "failed" ELSE "crashed",
                         !.crashes = crashes, !.restarting = sup[s].restarting \/ restart]]
  /\ ended' = Cancel(sup[s].cancel)
  /\ task' = IF restart THEN [task EXCEPT ![s] = RestartLoop(s)] ELSE task
  /\ UNCHANGED <<tracked, enabled, calls>>

\* A crash gets older than the window, and the next one is counted without it.
WindowSlides(s) ==
  /\ sup[s].crashes > 0
  /\ sup' = [sup EXCEPT ![s].crashes = @ - 1]
  /\ UNCHANGED <<child, ended, task, tracked, enabled, calls>>

-----------------------------------------------------------------------------
(* restartAfterCrash.                                                      *)

\* restartStillWanted.
RestartCheck(s) ==
  /\ task[s].pc = "check"
  /\ task' = Goto(s, CASE sup[s].state # "crashed" -> "clear"
                       [] task[s].attempt = 0 -> "start"
                       [] OTHER -> "delay")
  /\ UNCHANGED <<sup, child, ended, tracked, enabled, calls>>

\* stopSignal: the context the backoff listens to, none after a crash.
RestartDelay(s) ==
  /\ task[s].pc = "delay"
  /\ task' = [task EXCEPT ![s] = [@ EXCEPT !.pc = "backoff", !.context = sup[s].lifecycle]]
  /\ UNCHANGED <<sup, child, ended, tracked, enabled, calls>>

BackoffOver(s) ==
  /\ task[s].pc = "backoff"
  /\ task' = [task EXCEPT ![s] = [@ EXCEPT !.pc = "start", !.context = NoContext]]
  /\ UNCHANGED <<sup, child, ended, tracked, enabled, calls>>

BackoffStopped(s) ==
  /\ task[s].pc = "backoff" /\ task[s].context \in ended
  /\ task' = [task EXCEPT ![s] = [@ EXCEPT !.pc = "clear", !.context = NoContext]]
  /\ UNCHANGED <<sup, child, ended, tracked, enabled, calls>>

ExhaustRestarts(s) ==
  /\ task[s].pc = "exhaust"
  /\ sup' = [sup EXCEPT ![s].state = IF @ = "crashed" THEN "failed" ELSE @]
  /\ task' = Goto(s, "clear")
  /\ UNCHANGED <<child, ended, tracked, enabled, calls>>

ClearRestarting(s) ==
  /\ task[s].pc = "clear"
  /\ sup' = [sup EXCEPT ![s].restarting = FALSE]
  /\ task' = Return(s)
  /\ UNCHANGED <<child, ended, tracked, enabled, calls>>

-----------------------------------------------------------------------------
(* Supervisor.Stop, called by the bridge and by a cancelled tool call.     *)

AfterStop(t) ==
  IF task[t].op = "disable" THEN Goto(t, "disable") ELSE Return(t)

StopNothing(t) ==
  /\ task[t].pc = "stop"
  /\ task[t].sup # NoSupervisor => sup[task[t].sup].state = "stopped"
  /\ task' = AfterStop(t)
  /\ UNCHANGED <<sup, child, ended, tracked, enabled, calls>>

StopBegins(t) ==
  LET s == task[t].sup IN
  /\ task[t].pc = "stop" /\ s # NoSupervisor
  /\ sup[s].state # "stopped"
  /\ sup' = [sup EXCEPT ![s].state = "stopping"]
  /\ task' = [task EXCEPT ![t] =
                [@ EXCEPT !.pc = "close", !.client = sup[s].client,
                          !.context = sup[s].cancel]]
  /\ UNCHANGED <<child, ended, tracked, enabled, calls>>

\* Shutdown is asked of a live child, and may fail; the child is closed anyway.
StopCloses(t) ==
  LET c == task[t].client IN
  /\ task[t].pc = "close"
  /\ child' = Killed(c)
  /\ \E failed \in {FALSE} \cup {c # NoClient /\ child[c].alive} :
       task' = [task EXCEPT ![t] =
                  [@ EXCEPT !.pc = "cancel", !.client = NoClient,
                            !.op = IF failed THEN "stop" ELSE task[t].op]]
  /\ UNCHANGED <<sup, ended, tracked, enabled, calls>>

StopCancels(t) ==
  /\ task[t].pc = "cancel"
  /\ ended' = Cancel(task[t].context)
  /\ task' = [task EXCEPT ![t] = [@ EXCEPT !.pc = "halt", !.context = NoContext]]
  /\ UNCHANGED <<sup, child, tracked, enabled, calls>>

(* Mutant: the client is not dropped.                                      *)
HaltedHolding(s) == [sup[s] EXCEPT !.lifecycle = NoContext, !.state = "stopped"]

Halted(s) ==
  [sup[s] EXCEPT !.client = NoClient, !.lifecycle = NoContext, !.state = "stopped"]

StopEnds(t) ==
  /\ task[t].pc = "halt"
  /\ sup' = [sup EXCEPT ![task[t].sup] = Halted(task[t].sup)]
  /\ task' = AfterStop(t)
  /\ UNCHANGED <<child, ended, tracked, enabled, calls>>

-----------------------------------------------------------------------------
(* The bridge.                                                             *)

EnablePlugin(t) ==
  /\ Calling(t)
  /\ enabled' = TRUE
  /\ UNCHANGED <<sup, child, ended, task, tracked>>

\* The row is read and the package verified before the map is looked at.
StartPlugin(t) ==
  /\ Calling(t) /\ enabled
  /\ task' = [task EXCEPT ![t] = [@ EXCEPT !.pc = "track", !.op = "start"]]
  /\ UNCHANGED <<sup, child, ended, tracked, enabled>>

\* The supervisor of the map, or a new one put there.
TrackSupervisor(t) ==
  /\ task[t].pc = "track"
  /\ \E s \in IF tracked # NoSupervisor THEN {tracked} ELSE AnyOf(FreeSupervisors) :
       /\ tracked' = s
       /\ sup' = IF tracked = s THEN sup ELSE [sup EXCEPT ![s] = NewSupervisor]
       /\ task' = [task EXCEPT ![t] = [@ EXCEPT !.pc = "start", !.sup = s]]
  /\ UNCHANGED <<child, ended, enabled, calls>>

\* The package does not verify, or the grants cannot be read.
StartPluginFails(t) ==
  /\ task[t].pc = "track"
  /\ task' = Return(t)
  /\ UNCHANGED <<sup, child, ended, tracked, enabled, calls>>

\* StopPlugin, alone or as the first part of DisablePlugin.
StopPlugin(t, op) ==
  /\ Calling(t)
  /\ tracked' = NoSupervisor
  /\ task' = [task EXCEPT ![t] = [@ EXCEPT !.pc = "stop", !.op = op, !.sup = tracked]]
  /\ UNCHANGED <<sup, child, ended, enabled>>

\* The rest of DisablePlugin: the grants and the row, if the database lets it.
DisablePlugin(t) ==
  /\ task[t].pc = "disable"
  /\ enabled' \in {enabled, FALSE}
  /\ task' = Return(t)
  /\ UNCHANGED <<sup, child, ended, tracked, calls>>

-----------------------------------------------------------------------------
(* A plugin tool of a chat run.                                            *)

\* chatTools registers the tools of the plugins that run when the turn starts.
ChatTools(t) ==
  /\ Calling(t)
  /\ tracked # NoSupervisor /\ sup[tracked].state = "running"
  /\ task' = [task EXCEPT ![t] = [@ EXCEPT !.pc = "invoke", !.op = "invoke", !.sup = tracked]]
  /\ UNCHANGED <<sup, child, ended, tracked, enabled>>

\* The tool is looked up and authorized, then the session is: any may refuse.
InvokeTool(t) ==
  LET s == task[t].sup IN
  /\ task[t].pc = "invoke"
  /\ \/ task' = Return(t)
     \/ /\ sup[s].client # NoClient /\ sup[s].state = "running"
        /\ task' = [task EXCEPT ![t] = [@ EXCEPT !.pc = "call", !.client = sup[s].client]]
  /\ UNCHANGED <<sup, child, ended, tracked, enabled, calls>>

\* A result or an error, or a cancelled call whose client answers the probe.
ToolReturns(t) ==
  /\ task[t].pc = "call"
  /\ task' = Return(t)
  /\ UNCHANGED <<sup, child, ended, tracked, enabled, calls>>

\* The call was cancelled and its client does not answer the probe in time.
CancelUnanswered(t) ==
  /\ task[t].pc = "call"
  /\ task' = Goto(t, "stop")
  /\ UNCHANGED <<sup, child, ended, tracked, enabled, calls>>

-----------------------------------------------------------------------------

Start(t) ==
  \/ StartRefused(t) \/ StartBegins(t) \/ LaunchFails(t) \/ Launch(t)
  \/ HandshakeDone(t) \/ HandshakeFails(t) \/ Publish(t)

Restart(s) ==
  \/ RestartCheck(s) \/ RestartDelay(s) \/ BackoffOver(s) \/ BackoffStopped(s)
  \/ ExhaustRestarts(s) \/ ClearRestarting(s)

Stop(t) ==
  \/ StopNothing(t) \/ StopBegins(t) \/ StopCloses(t) \/ StopCancels(t) \/ StopEnds(t)

Bridge(t) ==
  \/ EnablePlugin(t) \/ StartPlugin(t) \/ TrackSupervisor(t) \/ StartPluginFails(t)
  \/ StopPlugin(t, "stop") \/ StopPlugin(t, "disable") \/ DisablePlugin(t)

Tool(t) ==
  ChatTools(t) \/ InvokeTool(t) \/ ToolReturns(t) \/ CancelUnanswered(t)

Session(c) ==
  Exit(c) \/ CloseOnContext(c) \/ ExitIgnored(c) \/ HandleClientExit(c)

Next ==
  \/ \E t \in Tasks : Start(t)
  \/ \E t \in Callers : Stop(t) \/ Bridge(t) \/ Tool(t)
  \/ \E s \in Supervisors : Restart(s) \/ WindowSlides(s)
  \/ \E c \in Clients : Session(c)

Spec == Init /\ [][Next]_vars
=============================================================================
