----------------------------- MODULE PluginProofs -----------------------------
(* Proofs about the supervision of a plugin, for every value of the        *)
(* constants: any number of callers, whatever overlaps.                    *)
EXTENDS PluginProperties, TLAPS

Starting == {"start", "launch", "handshake", "publish"}
InFlight == {"handshake", "publish"}

Halting == {"close", "cancel", "halt"}

(* A task at work on a supervisor has one, and a restart loop that may     *)
(* start has attempts left.                                                *)
Belongs(t, r) ==
  /\ r.pc \notin {"idle", "track", "stop", "disable"} => r.sup \in Supervisors
  /\ r.pc \in InFlight => r.client \in Clients
  /\ r.pc = "launch" => r.context \in Contexts
  /\ t \in Supervisors /\ r.pc \in Starting \cup {"check", "delay", "backoff"}
       => r.attempt < MaxAttempts

TasksBelong == \A t \in Tasks : Belongs(t, task[t])

(* The session a Start is preparing is nobody else's yet.                  *)
SessionsAreNew ==
  \A t \in Tasks :
    task[t].pc \in InFlight =>
      /\ child[task[t].client].watcher = NoSupervisor
      /\ \A s \in Supervisors : sup[s].client # task[t].client
      /\ \A u \in Tasks \ {t} : task[u].pc \in InFlight => task[u].client # task[t].client

(* A supervisor that is stopping is being stopped by somebody.             *)
StopsAreAtWork ==
  \A s \in Supervisors : sup[s].state = "stopping" => Stopping(s)

IInv ==
  /\ TypeOK
  /\ TasksBelong
  /\ SessionsAreNew
  /\ StopsAreAtWork
  /\ StateAgreesWithClient
  /\ WatchedUntilRecorded

-----------------------------------------------------------------------------
(* Any choice of a new object is one of the free ones.                     *)
LEMMA AnyOfFree ==
  ASSUME NEW free, NEW x \in AnyOf(free)
  PROVE  x \in free
  BY DEF AnyOf

(* One task, supervisor or child changes and the others stay.              *)
LEMMA TaskWritten ==
  ASSUME TypeOK, NEW t \in Tasks, NEW r \in Task
  PROVE  [task EXCEPT ![t] = r] \in [Tasks -> Task]
  BY DEF TypeOK

(* The same of a supervisor.                                               *)
LEMMA SupWritten ==
  ASSUME TypeOK, NEW s \in Supervisors, NEW r \in Supervisor
  PROVE  [sup EXCEPT ![s] = r] \in [Supervisors -> Supervisor]
  BY DEF TypeOK

(* The same of a child process.                                            *)
LEMMA ChildWritten ==
  ASSUME TypeOK, NEW c \in Clients, NEW r \in Child
  PROVE  [child EXCEPT ![c] = r] \in [Clients -> Child]
  BY DEF TypeOK

(* The records a task is left with have the type of a task.                *)
LEMMA TaskRecords ==
  /\ Idle \in Task
  /\ \A s \in Supervisors : RestartLoop(s) \in Task
<1>1. Idle \in Task
  BY PolicyAssumption DEF Idle, Task
<1> QED BY <1>1 DEF RestartLoop, Task

(* A task that returns from its call is still a task.                      *)
LEMMA TaskReturns ==
  ASSUME TypeOK, NEW t \in Tasks
  PROVE  Return(t) \in [Tasks -> Task]
  BY TaskRecords, TaskWritten DEF Return

(* A failed Start leaves the tasks well typed.                             *)
LEMMA StartFailedTyped ==
  ASSUME TypeOK, TasksBelong, NEW t \in Tasks, task[t].pc \in Starting
  PROVE  StartFailed(t) \in [Tasks -> Task]
<1>1. CASE t \in Callers
  BY <1>1, TaskReturns DEF StartFailed
<1>2. CASE t \in Supervisors
  <2>1. t \notin Callers
    BY <1>2, NamesAssumption
  <2>2. task[t].attempt + 1 \in 0..MaxAttempts
    BY <1>2, PolicyAssumption DEF TasksBelong, Belongs, Starting, TypeOK, Task
  <2> DEFINE r == [RestartLoop(t) EXCEPT !.attempt = task[t].attempt + 1,
             !.pc = IF MoreAttempts(task[t].attempt + 1) THEN "check" ELSE "exhaust"]
  <2>3. r \in Task
    BY <1>2, <2>2, TaskRecords, ZenonT(60) DEF Task
  <2>4. StartFailed(t) = [task EXCEPT ![t] = r]
    BY <2>1 DEF StartFailed
  <2> QED BY <2>3, <2>4, TaskWritten
<1> QED BY <1>1, <1>2 DEF Tasks

(* A child that is killed is still a child.                                *)
LEMMA KilledTyped ==
  ASSUME TypeOK, NEW c \in Clients \cup {NoClient}
  PROVE  Killed(c) \in [Clients -> Child]
<1>1. CASE c = NoClient
  BY <1>1 DEF Killed, TypeOK
<1>2. CASE c \in Clients
  <2>1. [child[c] EXCEPT !.alive = FALSE, !.context = NoContext] \in Child
    BY <1>2 DEF TypeOK, Child
  <2> QED BY <1>2, <2>1, NamesAssumption, ChildWritten DEF Killed
<1> QED BY <1>1, <1>2

(* A cancelled context joins those that are over.                          *)
LEMMA CancelTyped ==
  ASSUME TypeOK, NEW k \in Contexts \cup {NoContext}
  PROVE  Cancel(k) \subseteq Contexts
  BY DEF Cancel, TypeOK

(* Failing a supervisor is a change of one field.                          *)
LEMMA FailedTyped ==
  ASSUME TypeOK, NEW s \in Supervisors, NEW state \in LifecycleStates
  PROVE  [sup EXCEPT ![s].state = state] \in [Supervisors -> Supervisor]
<1>1. [sup[s] EXCEPT !.state = state] \in Supervisor
  BY DEF TypeOK, Supervisor
<1> QED BY <1>1, SupWritten

(* A step of Start keeps the types.                                        *)
LEMMA StartTyped ==
  ASSUME TypeOK, TasksBelong, NEW t \in Tasks, Start(t)
  PROVE  TypeOK'
<1> DEFINE s == task[t].sup
<1>0. task[t] \in Task /\ "failed" \in LifecycleStates
  BY DEF TypeOK, LifecycleStates
<1>1. CASE StartRefused(t)
  BY <1>1, StartFailedTyped DEF StartRefused, Starting, TypeOK
<1>2. CASE StartBegins(t)
  <2> DEFINE kept == sup[s].lifecycle \in Contexts \ ended
  <2>1. s \in Supervisors
    BY <1>2 DEF StartBegins, TasksBelong, Belongs
  <2>2. PICK k \in IF kept THEN {sup[s].lifecycle} ELSE AnyOf(FreeContexts) :
          /\ sup' = [sup EXCEPT ![s] =
                      [@ EXCEPT !.state = "starting", !.lifecycle = k,
                                !.cancel = IF kept THEN sup[s].cancel ELSE k]]
          /\ ended' = IF kept THEN ended ELSE ended \ FreeContexts
          /\ task' = [task EXCEPT ![t] = [@ EXCEPT !.pc = "launch", !.context = k]]
    BY <1>2 DEF StartBegins
  <2>3. k \in Contexts
    BY <2>2, AnyOfFree DEF FreeContexts
  <2>4. [sup[s] EXCEPT !.state = "starting", !.lifecycle = k,
                       !.cancel = IF kept THEN sup[s].cancel ELSE k] \in Supervisor
    <3>1. sup[s] \in Supervisor
      BY <2>1 DEF TypeOK
    <3>2. (IF kept THEN sup[s].cancel ELSE k) \in Contexts \cup {NoContext}
      BY <2>3, <3>1 DEF Supervisor
    <3> HIDE DEF kept
    <3> QED BY <2>3, <3>1, <3>2 DEF Supervisor, LifecycleStates
  <2>5. [task[t] EXCEPT !.pc = "launch", !.context = k] \in Task
    BY <1>0, <2>3 DEF Task
  <2>6. sup' \in [Supervisors -> Supervisor]
    BY <2>1, <2>2, <2>4, SupWritten
  <2>7. task' \in [Tasks -> Task]
    BY <2>2, <2>5, TaskWritten
  <2> QED BY <1>2, <2>2, <2>6, <2>7 DEF StartBegins, TypeOK
<1>3. CASE LaunchFails(t)
  <2>1. s \in Supervisors
    BY <1>3 DEF LaunchFails, TasksBelong, Belongs
  <2> QED BY <1>0, <1>3, <2>1, FailedTyped, StartFailedTyped DEF LaunchFails, Starting, TypeOK
<1>4. CASE Launch(t)
  <2>1. PICK c \in AnyOf(FreeClients) :
          /\ child' = [child EXCEPT ![c] = [@ EXCEPT !.alive = TRUE, !.context = task[t].context]]
          /\ task' = [task EXCEPT ![t] = [@ EXCEPT !.pc = "handshake", !.client = c]]
    BY <1>4 DEF Launch
  <2>2. c \in Clients
    BY <2>1, AnyOfFree DEF FreeClients
  <2>a. task[t].context \in Contexts \cup {NoContext} /\ child[c] \in Child
    BY <1>0, <2>2 DEF Task, TypeOK
  <2>3. [child[c] EXCEPT !.alive = TRUE, !.context = task[t].context] \in Child
    BY <2>a DEF Child
  <2>4. [task[t] EXCEPT !.pc = "handshake", !.client = c] \in Task
    BY <1>0, <2>2 DEF Task
  <2>5. child' \in [Clients -> Child] /\ task' \in [Tasks -> Task]
    BY <2>1, <2>2, <2>3, <2>4, ChildWritten, TaskWritten
  <2> QED BY <1>4, <2>5 DEF Launch, TypeOK
<1>5. CASE HandshakeDone(t)
  BY <1>5 DEF HandshakeDone, Goto, Task, TypeOK
<1>6. CASE HandshakeFails(t)
  <2>1. s \in Supervisors /\ task[t].client \in Clients
    BY <1>6 DEF HandshakeFails, TasksBelong, Belongs, InFlight
  <2> QED BY <1>0, <1>6, <2>1, FailedTyped, StartFailedTyped, KilledTyped
          DEF HandshakeFails, Starting, TypeOK
<1>7. CASE Publish(t)
  <2>1. s \in Supervisors /\ task[t].client \in Clients
    BY <1>7 DEF Publish, TasksBelong, Belongs, InFlight
  <2>a. sup[s] \in Supervisor
    BY <2>1 DEF TypeOK
  <2>2. Published(s, task[t].client) \in Supervisor
    BY <2>1, <2>a DEF Published, Supervisor, LifecycleStates
  <2>3. [child[task[t].client] EXCEPT !.watcher = s] \in Child
    BY <2>1 DEF Child, TypeOK
  <2>4. PICK next \in IF t \in Callers
                      THEN {Idle, [Idle EXCEPT !.pc = "stop", !.op = "start",
                                               !.sup = task[t].sup]}
                      ELSE {[RestartLoop(t) EXCEPT !.pc = "clear"]} :
          task' = [task EXCEPT ![t] = next]
    BY <1>7 DEF Publish
  <2>5. [Idle EXCEPT !.pc = "stop", !.op = "start", !.sup = s] \in Task
    BY <2>1, TaskRecords DEF Task
  <2>6. t \notin Callers => [RestartLoop(t) EXCEPT !.pc = "clear"] \in Task
    BY TaskRecords DEF Task, Tasks
  <2>7. next \in Task
    BY <2>4, <2>5, <2>6, TaskRecords
  <2>8. /\ task' \in [Tasks -> Task]
        /\ sup' \in [Supervisors -> Supervisor]
        /\ child' \in [Clients -> Child]
    BY <1>7, <2>1, <2>2, <2>3, <2>4, <2>7, TaskWritten, SupWritten, ChildWritten DEF Publish
  <2> QED BY <1>7, <2>8 DEF Publish, TypeOK
<1> QED BY <1>1, <1>2, <1>3, <1>4, <1>5, <1>6, <1>7 DEF Start

(* So does a step of a restart loop.                                       *)
LEMMA RestartTyped ==
  ASSUME TypeOK, NEW s \in Supervisors, Restart(s) \/ WindowSlides(s)
  PROVE  TypeOK'
<1>0. s \in Tasks /\ task[s] \in Task /\ sup[s] \in Supervisor
  BY DEF Tasks, TypeOK
<1>1. CASE RestartCheck(s)
  BY <1>0, <1>1 DEF RestartCheck, Goto, Task, TypeOK
<1>2. CASE RestartDelay(s)
  <2>1. [task[s] EXCEPT !.pc = "backoff", !.context = sup[s].lifecycle] \in Task
    BY <1>0 DEF Task, Supervisor
  <2> QED BY <1>0, <1>2, <2>1, TaskWritten DEF RestartDelay, TypeOK
<1>3. CASE BackoffOver(s)
  <2>1. [task[s] EXCEPT !.pc = "start", !.context = NoContext] \in Task
    BY <1>0 DEF Task
  <2> QED BY <1>0, <1>3, <2>1, TaskWritten DEF BackoffOver, TypeOK
<1>4. CASE BackoffStopped(s)
  <2>1. [task[s] EXCEPT !.pc = "clear", !.context = NoContext] \in Task
    BY <1>0 DEF Task
  <2> QED BY <1>0, <1>4, <2>1, TaskWritten DEF BackoffStopped, TypeOK
<1>5. CASE ExhaustRestarts(s)
  <2>1. [sup[s] EXCEPT !.state = IF @ = "crashed" THEN "failed" ELSE @] \in Supervisor
    BY <1>0 DEF Supervisor, LifecycleStates
  <2>2. sup' \in [Supervisors -> Supervisor]
    BY <1>5, <2>1, SupWritten DEF ExhaustRestarts
  <2> QED BY <1>0, <1>5, <2>2 DEF ExhaustRestarts, Goto, Task, TypeOK
<1>6. CASE ClearRestarting(s)
  <2>1. [sup[s] EXCEPT !.restarting = FALSE] \in Supervisor
    BY <1>0 DEF Supervisor
  <2> QED BY <1>0, <1>6, <2>1, SupWritten, TaskReturns DEF ClearRestarting, TypeOK
<1>7. CASE WindowSlides(s)
  <2>1. [sup[s] EXCEPT !.crashes = @ - 1] \in Supervisor
    BY <1>0, <1>7 DEF WindowSlides, Supervisor
  <2> QED BY <1>7, <2>1, SupWritten DEF WindowSlides, TypeOK
<1> QED BY <1>1, <1>2, <1>3, <1>4, <1>5, <1>6, <1>7 DEF Restart

(* So does a step of Stop.                                                 *)
LEMMA StopTyped ==
  ASSUME TypeOK, TasksBelong, NEW t \in Callers, Stop(t)
  PROVE  TypeOK'
<1> DEFINE s == task[t].sup
<1>0. t \in Tasks /\ task[t] \in Task
  BY DEF Tasks, TypeOK
<1>a. AfterStop(t) \in [Tasks -> Task]
  BY <1>0, TaskReturns DEF AfterStop, Goto, Task, TypeOK
<1>1. CASE StopNothing(t)
  BY <1>1, <1>a DEF StopNothing, TypeOK
<1>2. CASE StopBegins(t)
  <2>1. s \in Supervisors
    BY <1>0, <1>2 DEF StopBegins, Task
  <2>2. [task[t] EXCEPT !.pc = "close", !.client = sup[s].client,
                        !.context = sup[s].cancel] \in Task
    BY <1>0, <2>1 DEF Task, Supervisor, TypeOK
  <2>3. "stopping" \in LifecycleStates
    BY DEF LifecycleStates
  <2>4. sup' \in [Supervisors -> Supervisor]
    BY <1>2, <2>1, <2>3, FailedTyped DEF StopBegins
  <2>5. task' \in [Tasks -> Task]
    BY <1>0, <1>2, <2>2, TaskWritten DEF StopBegins
  <2> QED BY <1>2, <2>4, <2>5 DEF StopBegins, TypeOK
<1>3. CASE StopCloses(t)
  <2>1. PICK failed : task' = [task EXCEPT ![t] =
                  [@ EXCEPT !.pc = "cancel", !.client = NoClient,
                            !.op = IF failed THEN "stop" ELSE task[t].op]]
    BY <1>3 DEF StopCloses
  <2>2. [task[t] EXCEPT !.pc = "cancel", !.client = NoClient,
                        !.op = IF failed THEN "stop" ELSE task[t].op] \in Task
    BY <1>0 DEF Task
  <2>3. task' \in [Tasks -> Task]
    BY <1>0, <2>1, <2>2, TaskWritten
  <2>4. child' \in [Clients -> Child]
    BY <1>0, <1>3, KilledTyped DEF StopCloses, Task
  <2> QED BY <1>3, <2>3, <2>4 DEF StopCloses, TypeOK
<1>4. CASE StopCancels(t)
  <2>1. [task[t] EXCEPT !.pc = "halt", !.context = NoContext] \in Task
    BY <1>0 DEF Task
  <2>2. task' \in [Tasks -> Task]
    BY <1>0, <1>4, <2>1, TaskWritten DEF StopCancels
  <2>3. task[t].context \in Contexts \cup {NoContext}
    BY <1>0 DEF Task
  <2> QED BY <1>4, <2>2, <2>3, CancelTyped DEF StopCancels, TypeOK
<1>5. CASE StopEnds(t)
  <2>1. s \in Supervisors
    BY <1>0, <1>5 DEF StopEnds, TasksBelong, Belongs
  <2>2. Halted(s) \in Supervisor
    <3>1. sup[s] \in Supervisor
      BY <2>1 DEF TypeOK
    <3> QED BY <3>1 DEF Halted, Supervisor, LifecycleStates
  <2> QED BY <1>5, <1>a, <2>1, <2>2, SupWritten DEF StopEnds, TypeOK
<1> QED BY <1>1, <1>2, <1>3, <1>4, <1>5 DEF Stop

(* So do the bridge's operations and the tools.                            *)
LEMMA CallerTyped ==
  ASSUME TypeOK, TasksBelong, NEW t \in Callers, Bridge(t) \/ Tool(t)
  PROVE  TypeOK'
<1>0. t \in Tasks /\ task[t] \in Task
  BY DEF Tasks, TypeOK
<1>a. Calling(t) => calls' \in 0..MaxCalls
  BY PolicyAssumption DEF Calling, TypeOK
<1>1. CASE EnablePlugin(t)
  BY <1>1, <1>a DEF EnablePlugin, TypeOK
<1>2. CASE StartPlugin(t)
  <2>1. [task[t] EXCEPT !.pc = "track", !.op = "start"] \in Task
    BY <1>0 DEF Task
  <2> QED BY <1>0, <1>2, <1>a, <2>1, TaskWritten DEF StartPlugin, TypeOK
<1>3. CASE TrackSupervisor(t)
  <2>1. PICK s \in IF tracked # NoSupervisor THEN {tracked} ELSE AnyOf(FreeSupervisors) :
          /\ tracked' = s
          /\ sup' = IF tracked = s THEN sup ELSE [sup EXCEPT ![s] = NewSupervisor]
          /\ task' = [task EXCEPT ![t] = [@ EXCEPT !.pc = "start", !.sup = s]]
    BY <1>3 DEF TrackSupervisor
  <2>2. s \in Supervisors
    BY <2>1, AnyOfFree DEF FreeSupervisors, TypeOK
  <2>3. NewSupervisor \in Supervisor
    BY DEF NewSupervisor, Supervisor, LifecycleStates
  <2>4. [task[t] EXCEPT !.pc = "start", !.sup = s] \in Task
    BY <1>0, <2>2 DEF Task
  <2>5. task' \in [Tasks -> Task]
    BY <1>0, <2>1, <2>4, TaskWritten
  <2>6. sup' \in [Supervisors -> Supervisor]
    BY <2>1, <2>2, <2>3, SupWritten DEF TypeOK
  <2> QED BY <1>3, <2>1, <2>2, <2>5, <2>6 DEF TrackSupervisor, TypeOK
<1>4. ASSUME NEW op \in {"stop", "disable"}, StopPlugin(t, op)
      PROVE  TypeOK'
  <2>1. [task[t] EXCEPT !.pc = "stop", !.op = op, !.sup = tracked] \in Task
    BY <1>0, <1>4 DEF Task, TypeOK
  <2> QED BY <1>0, <1>4, <1>a, <2>1, TaskWritten DEF StopPlugin, TypeOK
<1>5. CASE DisablePlugin(t)
  BY <1>0, <1>5, TaskReturns DEF DisablePlugin, TypeOK
<1>6. CASE ChatTools(t)
  <2>1. [task[t] EXCEPT !.pc = "invoke", !.op = "invoke", !.sup = tracked] \in Task
    BY <1>0 DEF Task, TypeOK
  <2> QED BY <1>0, <1>6, <1>a, <2>1, TaskWritten DEF ChatTools, TypeOK
<1>7. CASE InvokeTool(t)
  <2> DEFINE s == task[t].sup
  <2>1. s \in Supervisors
    BY <1>0, <1>7 DEF InvokeTool, TasksBelong, Belongs
  <2>2. [task[t] EXCEPT !.pc = "call", !.client = sup[s].client] \in Task
    BY <1>0, <2>1 DEF Task, TypeOK, Supervisor
  <2> QED BY <1>0, <1>7, <2>2, TaskWritten, TaskReturns DEF InvokeTool, TypeOK
<1>8. CASE ToolReturns(t) \/ StartPluginFails(t)
  BY <1>0, <1>8, TaskReturns DEF ToolReturns, StartPluginFails, TypeOK
<1>9. CASE CancelUnanswered(t)
  BY <1>0, <1>9 DEF CancelUnanswered, Goto, Task, TypeOK
<1> QED BY <1>1, <1>2, <1>3, <1>4, <1>5, <1>6, <1>7, <1>8, <1>9 DEF Bridge, Tool

(* So do the children and their watchers.                                  *)
LEMMA SessionTyped ==
  ASSUME TypeOK, NEW c \in Clients, Session(c)
  PROVE  TypeOK'
<1>1. CASE Exit(c) \/ CloseOnContext(c)
  BY <1>1, KilledTyped DEF Exit, CloseOnContext, TypeOK
<1>2. CASE ExitIgnored(c)
  <2>1. [child[c] EXCEPT !.watcher = NoSupervisor] \in Child
    BY DEF Child, TypeOK
  <2> QED BY <1>2, <2>1, ChildWritten DEF ExitIgnored, TypeOK
<1>3. CASE HandleClientExit(c)
  <2> DEFINE s == child[c].watcher
             crashes == sup[s].crashes + 1
             restart == MaxAttempts > 0 /\ ~Tripped(crashes) /\ ~sup[s].restarting
             r == [sup[s] EXCEPT !.client = NoClient, !.lifecycle = NoContext,
                     !.state = IF Tripped(crashes) THEN "failed" ELSE "crashed",
                     !.crashes = crashes, !.restarting = sup[s].restarting \/ restart]
  <2>1. s \in Supervisors /\ s \in Tasks
    BY <1>3 DEF HandleClientExit, Child, Tasks, TypeOK
  <2>2. sup[s] \in Supervisor
    BY <2>1 DEF TypeOK
  <2>3. [child[c] EXCEPT !.watcher = NoSupervisor] \in Child
    BY DEF Child, TypeOK
  <2>4. child' \in [Clients -> Child]
    BY <1>3, <2>3, ChildWritten DEF HandleClientExit
  <2>5. r \in Supervisor
    <3>1. (sup[s].restarting \/ restart) \in BOOLEAN
      OBVIOUS
    <3>2. crashes \in Nat
      BY <2>2 DEF Supervisor
    <3>3. (IF Tripped(crashes) THEN "failed" ELSE "crashed") \in LifecycleStates
      BY DEF LifecycleStates
    <3> HIDE DEF restart, crashes
    <3> QED BY <2>2, <3>1, <3>2, <3>3 DEF Supervisor
  <2>6. sup' = [sup EXCEPT ![s] = r]
    BY <1>3 DEF HandleClientExit
  <2>7. sup' \in [Supervisors -> Supervisor]
    BY <2>1, <2>5, <2>6, SupWritten
  <2>8. sup[s].cancel \in Contexts \cup {NoContext}
    BY <2>2 DEF Supervisor
  <2>9. ended' \subseteq Contexts
    BY <1>3, <2>8, CancelTyped DEF HandleClientExit
  <2>10. task' = IF restart THEN [task EXCEPT ![s] = RestartLoop(s)] ELSE task
    BY <1>3 DEF HandleClientExit
  <2>11. task' \in [Tasks -> Task]
    BY <2>1, <2>10, TaskRecords, TaskWritten DEF TypeOK
  <2> QED BY <1>3, <2>4, <2>7, <2>9, <2>11 DEF HandleClientExit, TypeOK
<1> QED BY <1>1, <1>2, <1>3 DEF Session

-----------------------------------------------------------------------------
(* Tasks belong.                                                           *)

(* When one task changes, only that one has to be looked at.               *)
LEMMA BelongsWritten ==
  ASSUME TypeOK, TasksBelong, NEW t \in Tasks, NEW r, Belongs(t, r),
         task' = [task EXCEPT ![t] = r]
  PROVE  TasksBelong'
<1>1. \A u \in Tasks : Belongs(u, task'[u])
  BY DEF TasksBelong, TypeOK
<1> QED BY <1>1 DEF TasksBelong

(* An idle caller is on no supervisor.                                     *)
LEMMA IdleBelongs ==
  ASSUME NEW t
  PROVE  Belongs(t, Idle)
  BY DEF Belongs, Idle, InFlight, Starting

(* A task that returns is on no supervisor any more.                       *)
LEMMA ReturnBelongs ==
  ASSUME TypeOK, TasksBelong, NEW t \in Tasks, task' = Return(t)
  PROVE  TasksBelong'
  BY IdleBelongs, BelongsWritten DEF Return

(* What a restart loop is made of.                                         *)
LEMMA RestartLoopFields ==
  ASSUME NEW s
  PROVE  /\ RestartLoop(s).pc = "check" /\ RestartLoop(s).sup = s
         /\ RestartLoop(s).attempt = 0
  BY DEF RestartLoop, Idle

(* A failed Start leaves a restart loop with attempts left, or none.       *)
LEMMA StartFailedBelongs ==
  ASSUME TypeOK, TasksBelong, NEW t \in Tasks, task[t].pc \in Starting,
         task' = StartFailed(t)
  PROVE  TasksBelong'
<1>1. CASE t \in Callers
  BY <1>1, ReturnBelongs DEF StartFailed
<1>2. CASE t \in Supervisors
  <2> DEFINE r == [RestartLoop(t) EXCEPT !.attempt = task[t].attempt + 1,
             !.pc = IF MoreAttempts(task[t].attempt + 1) THEN "check" ELSE "exhaust"]
  <2>1. task' = [task EXCEPT ![t] = r]
    BY <1>2, NamesAssumption DEF StartFailed
  <2>2. /\ r.pc = IF MoreAttempts(task[t].attempt + 1) THEN "check" ELSE "exhaust"
        /\ r.sup = t /\ r.attempt = task[t].attempt + 1
    BY DEF RestartLoop, Idle
  <2>3. Belongs(t, r)
    <3> HIDE DEF r
    <3> QED BY <1>2, <2>2 DEF Belongs, InFlight, Starting, MoreAttempts
  <2> QED BY <2>1, <2>3, BelongsWritten
<1> QED BY <1>1, <1>2 DEF Tasks

(* Start works on the supervisor it was called for.                        *)
LEMMA StartBelongs ==
  ASSUME TypeOK, TasksBelong, NEW t \in Tasks, Start(t)
  PROVE  TasksBelong'
<1>0. task[t] \in Task /\ Belongs(t, task[t])
  BY DEF TypeOK, TasksBelong
<1>1. CASE StartRefused(t) \/ LaunchFails(t) \/ HandshakeFails(t)
  BY <1>1, StartFailedBelongs DEF StartRefused, LaunchFails, HandshakeFails, Starting
<1>2. CASE StartBegins(t)
  <2>1. PICK k : /\ k \in IF sup[task[t].sup].lifecycle \in Contexts \ ended
                          THEN {sup[task[t].sup].lifecycle} ELSE AnyOf(FreeContexts)
                 /\ task' = [task EXCEPT ![t] = [@ EXCEPT !.pc = "launch", !.context = k]]
    BY <1>2 DEF StartBegins
  <2>2. k \in Contexts
    BY <2>1, AnyOfFree DEF FreeContexts
  <2>3. Belongs(t, [task[t] EXCEPT !.pc = "launch", !.context = k])
    BY <1>0, <1>2, <2>2 DEF StartBegins, Belongs, InFlight, Starting, Task
  <2> QED BY <2>1, <2>3, BelongsWritten
<1>3. CASE Launch(t)
  <2>1. PICK c \in AnyOf(FreeClients) :
          task' = [task EXCEPT ![t] = [@ EXCEPT !.pc = "handshake", !.client = c]]
    BY <1>3 DEF Launch
  <2>2. c \in Clients
    BY <2>1, AnyOfFree DEF FreeClients
  <2>3. Belongs(t, [task[t] EXCEPT !.pc = "handshake", !.client = c])
    BY <1>0, <1>3, <2>2 DEF Launch, Belongs, InFlight, Starting, Task
  <2> QED BY <2>1, <2>3, BelongsWritten
<1>4. CASE HandshakeDone(t)
  <2>1. Belongs(t, [task[t] EXCEPT !.pc = "publish"])
    BY <1>0, <1>4 DEF HandshakeDone, Belongs, InFlight, Starting, Task
  <2> QED BY <1>4, <2>1, BelongsWritten DEF HandshakeDone, Goto
<1>5. CASE Publish(t)
  <2>1. PICK next \in IF t \in Callers
                      THEN {Idle, [Idle EXCEPT !.pc = "stop", !.op = "start",
                                               !.sup = task[t].sup]}
                      ELSE {[RestartLoop(t) EXCEPT !.pc = "clear"]} :
          task' = [task EXCEPT ![t] = next]
    BY <1>5 DEF Publish
  <2>2. Belongs(t, [Idle EXCEPT !.pc = "stop", !.op = "start", !.sup = task[t].sup])
    BY DEF Belongs, Idle, InFlight, Starting
  <2>3. t \in Supervisors => Belongs(t, [RestartLoop(t) EXCEPT !.pc = "clear"])
    BY DEF Belongs, RestartLoop, Idle, InFlight, Starting
  <2>4. Belongs(t, next)
    BY <2>1, <2>2, <2>3, IdleBelongs DEF Tasks
  <2> QED BY <2>1, <2>4, BelongsWritten
<1> QED BY <1>1, <1>2, <1>3, <1>4, <1>5 DEF Start

(* restartAfterCrash goes on only while attempts are left.                 *)
LEMMA RestartBelongs ==
  ASSUME TypeOK, TasksBelong, NEW s \in Supervisors, Restart(s) \/ WindowSlides(s)
  PROVE  TasksBelong'
<1>0. s \in Tasks /\ task[s] \in Task /\ Belongs(s, task[s])
  BY DEF Tasks, TypeOK, TasksBelong
<1>1. CASE RestartCheck(s)
  <2> DEFINE pc == CASE sup[s].state # "crashed" -> "clear"
                     [] task[s].attempt = 0 -> "start"
                     [] OTHER -> "delay"
  <2>1. pc \in {"clear", "start", "delay"}
    OBVIOUS
  <2>2. task' = [task EXCEPT ![s] = [task[s] EXCEPT !.pc = pc]]
    BY <1>1 DEF RestartCheck, Goto
  <2>3. Belongs(s, [task[s] EXCEPT !.pc = pc])
    <3> HIDE DEF pc
    <3> QED BY <1>0, <1>1, <2>1 DEF RestartCheck, Belongs, InFlight, Starting, Task
  <2> HIDE DEF pc
  <2> QED BY <1>0, <2>2, <2>3, BelongsWritten
<1>2. CASE RestartDelay(s)
  <2>1. Belongs(s, [task[s] EXCEPT !.pc = "backoff", !.context = sup[s].lifecycle])
    BY <1>0, <1>2 DEF RestartDelay, Belongs, InFlight, Starting, Task
  <2> QED BY <1>0, <1>2, <2>1, BelongsWritten DEF RestartDelay
<1>3. CASE BackoffOver(s)
  <2>1. Belongs(s, [task[s] EXCEPT !.pc = "start", !.context = NoContext])
    BY <1>0, <1>3 DEF BackoffOver, Belongs, InFlight, Starting, Task
  <2> QED BY <1>0, <1>3, <2>1, BelongsWritten DEF BackoffOver
<1>4. CASE BackoffStopped(s)
  <2>1. Belongs(s, [task[s] EXCEPT !.pc = "clear", !.context = NoContext])
    BY <1>0, <1>4 DEF BackoffStopped, Belongs, InFlight, Starting, Task
  <2> QED BY <1>0, <1>4, <2>1, BelongsWritten DEF BackoffStopped
<1>5. CASE ExhaustRestarts(s)
  <2>1. Belongs(s, [task[s] EXCEPT !.pc = "clear"])
    BY <1>0, <1>5 DEF ExhaustRestarts, Belongs, InFlight, Starting, Task
  <2> QED BY <1>0, <1>5, <2>1, BelongsWritten DEF ExhaustRestarts, Goto
<1>6. CASE ClearRestarting(s)
  BY <1>0, <1>6, ReturnBelongs DEF ClearRestarting
<1>7. CASE WindowSlides(s)
  BY <1>7 DEF WindowSlides, TasksBelong
<1> QED BY <1>1, <1>2, <1>3, <1>4, <1>5, <1>6, <1>7 DEF Restart

(* Stop works on the supervisor it was called for.                         *)
LEMMA StopBelongs ==
  ASSUME TypeOK, TasksBelong, NEW t \in Callers, Stop(t)
  PROVE  TasksBelong'
<1>0. t \in Tasks /\ t \notin Supervisors /\ task[t] \in Task /\ Belongs(t, task[t])
  BY NamesAssumption DEF Tasks, TypeOK, TasksBelong
<1>1. CASE StopNothing(t) \/ StopEnds(t)
  <2>1. task' = Return(t) \/ task' = [task EXCEPT ![t] = [task[t] EXCEPT !.pc = "disable"]]
    BY <1>1 DEF StopNothing, StopEnds, AfterStop, Goto
  <2>2. Belongs(t, [task[t] EXCEPT !.pc = "disable"])
    BY <1>0 DEF Belongs, InFlight, Task
  <2> QED BY <1>0, <2>1, <2>2, BelongsWritten, ReturnBelongs
<1>2. CASE StopBegins(t)
  <2> DEFINE r == [task[t] EXCEPT !.pc = "close", !.client = sup[task[t].sup].client,
                                  !.context = sup[task[t].sup].cancel]
  <2>1. task' = [task EXCEPT ![t] = r]
    BY <1>2 DEF StopBegins
  <2>2. task[t].sup \in Supervisors
    BY <1>0, <1>2 DEF StopBegins, Task
  <2>3. Belongs(t, r)
    BY <1>0, <2>2 DEF Belongs, InFlight, Task
  <2> QED BY <1>0, <2>1, <2>3, BelongsWritten
<1>3. CASE StopCloses(t)
  <2>1. PICK failed : task' = [task EXCEPT ![t] =
                  [@ EXCEPT !.pc = "cancel", !.client = NoClient,
                            !.op = IF failed THEN "stop" ELSE task[t].op]]
    BY <1>3 DEF StopCloses
  <2>2. Belongs(t, [task[t] EXCEPT !.pc = "cancel", !.client = NoClient,
                                   !.op = IF failed THEN "stop" ELSE task[t].op])
    BY <1>0, <1>3 DEF StopCloses, Belongs, InFlight, Task
  <2> QED BY <1>0, <2>1, <2>2, BelongsWritten
<1>4. CASE StopCancels(t)
  <2>1. Belongs(t, [task[t] EXCEPT !.pc = "halt", !.context = NoContext])
    BY <1>0, <1>4 DEF StopCancels, Belongs, InFlight, Task
  <2> QED BY <1>0, <1>4, <2>1, BelongsWritten DEF StopCancels
<1> QED BY <1>1, <1>2, <1>3, <1>4 DEF Stop

(* The bridge and the tools take the supervisor they are to work on.       *)
LEMMA CallerBelongs ==
  ASSUME TypeOK, TasksBelong, NEW t \in Callers, Bridge(t) \/ Tool(t)
  PROVE  TasksBelong'
<1>0. t \in Tasks /\ t \notin Supervisors /\ task[t] \in Task /\ Belongs(t, task[t])
  BY NamesAssumption DEF Tasks, TypeOK, TasksBelong
<1>1. CASE EnablePlugin(t)
  BY <1>1 DEF EnablePlugin, TasksBelong
<1>2. CASE StartPlugin(t)
  <2>1. Belongs(t, [task[t] EXCEPT !.pc = "track", !.op = "start"])
    BY <1>0 DEF Belongs, InFlight, Task
  <2> QED BY <1>0, <1>2, <2>1, BelongsWritten DEF StartPlugin
<1>3. CASE TrackSupervisor(t)
  <2>1. PICK s : /\ s \in IF tracked # NoSupervisor THEN {tracked} ELSE AnyOf(FreeSupervisors)
                 /\ task' = [task EXCEPT ![t] = [@ EXCEPT !.pc = "start", !.sup = s]]
    BY <1>3 DEF TrackSupervisor
  <2>2. s \in Supervisors
    BY <2>1, AnyOfFree DEF FreeSupervisors, TypeOK
  <2>3. Belongs(t, [task[t] EXCEPT !.pc = "start", !.sup = s])
    BY <1>0, <2>2 DEF Belongs, InFlight, Task
  <2> QED BY <1>0, <2>1, <2>3, BelongsWritten
<1>4. ASSUME NEW op, StopPlugin(t, op)
      PROVE  TasksBelong'
  <2>1. Belongs(t, [task[t] EXCEPT !.pc = "stop", !.op = op, !.sup = tracked])
    BY <1>0 DEF Belongs, InFlight, Task
  <2> QED BY <1>0, <1>4, <2>1, BelongsWritten DEF StopPlugin
<1>5. CASE ChatTools(t)
  <2>1. Belongs(t, [task[t] EXCEPT !.pc = "invoke", !.op = "invoke", !.sup = tracked])
    BY <1>0, <1>5 DEF ChatTools, Belongs, InFlight, Task, TypeOK
  <2> QED BY <1>0, <1>5, <2>1, BelongsWritten DEF ChatTools
<1>6. CASE InvokeTool(t)
  <2>1. Belongs(t, [task[t] EXCEPT !.pc = "call", !.client = sup[task[t].sup].client])
    BY <1>0, <1>6 DEF InvokeTool, Belongs, InFlight, Task
  <2> QED BY <1>0, <1>6, <2>1, BelongsWritten, ReturnBelongs DEF InvokeTool
<1>7. CASE CancelUnanswered(t)
  <2>1. Belongs(t, [task[t] EXCEPT !.pc = "stop"])
    BY <1>0 DEF Belongs, InFlight, Task
  <2> QED BY <1>0, <1>7, <2>1, BelongsWritten DEF CancelUnanswered, Goto
<1>8. CASE ToolReturns(t) \/ StartPluginFails(t) \/ DisablePlugin(t)
  BY <1>0, <1>8, ReturnBelongs DEF ToolReturns, StartPluginFails, DisablePlugin
<1> QED BY <1>1, <1>2, <1>3, <1>4, <1>5, <1>6, <1>7, <1>8 DEF Bridge, Tool

(* The end of a session starts a restart loop with all its attempts.       *)
LEMMA SessionBelongs ==
  ASSUME TypeOK, TasksBelong, NEW c \in Clients, Session(c)
  PROVE  TasksBelong'
<1>1. CASE task' = task
  BY <1>1 DEF TasksBelong
<1>2. CASE HandleClientExit(c) /\ task' # task
  <2> DEFINE s == child[c].watcher
  <2>1. s \in Supervisors /\ s \in Tasks
    BY <1>2 DEF HandleClientExit, Child, Tasks, TypeOK
  <2>2. MaxAttempts > 0 /\ task' = [task EXCEPT ![s] = RestartLoop(s)]
    BY <1>2 DEF HandleClientExit
  <2>3. Belongs(s, RestartLoop(s))
    BY <2>1, <2>2, RestartLoopFields DEF Belongs, InFlight, Starting
  <2> QED BY <2>1, <2>2, <2>3, BelongsWritten
<1> QED BY <1>1, <1>2 DEF Session, Exit, CloseOnContext, ExitIgnored

-----------------------------------------------------------------------------
(* Most steps are quiet: no session is begun, published, dropped by its    *)
(* watcher or stopped.                                                     *)

QuietTask(q, r) ==
  /\ r.pc \in InFlight => q.pc \in InFlight /\ r.client = q.client
  /\ q.pc \in Halting => r.pc \in Halting /\ r.sup = q.sup

QuietSup(q, r) ==
  /\ r.client \in {q.client, NoClient}
  /\ r.state \in {"stopping", "crashed"} => q.state = r.state
  /\ r.state = "running" => q.state = "running" /\ r.client = q.client
  /\ r.state = "stopped" => q.state = "stopped" \/ r.client = NoClient

QuietTasks == \A t \in Tasks : QuietTask(task[t], task'[t])
QuietSups == \A s \in Supervisors : QuietSup(sup[s], sup'[s])
QuietChildren == \A c \in Clients : child'[c].watcher = child[c].watcher

Quiet == QuietTasks /\ QuietSups /\ QuietChildren

(* One quiet change of a task makes the tasks quiet.                       *)
LEMMA TaskQuiet ==
  ASSUME TypeOK, NEW t \in Tasks, NEW r, QuietTask(task[t], r),
         task' = [task EXCEPT ![t] = r]
  PROVE  QuietTasks
  BY DEF QuietTasks, QuietTask, TypeOK

(* One quiet change of a supervisor makes the supervisors quiet.           *)
LEMMA SupQuiet ==
  ASSUME TypeOK, NEW s \in Supervisors, NEW r, QuietSup(sup[s], r),
         sup' = [sup EXCEPT ![s] = r]
  PROVE  QuietSups
  BY DEF QuietSups, QuietSup, TypeOK

(* What does not change is quiet.                                          *)
LEMMA SameQuiet ==
  /\ task' = task => QuietTasks
  /\ sup' = sup => QuietSups
  /\ child' = child => QuietChildren
  BY DEF QuietTasks, QuietTask, QuietSups, QuietSup, QuietChildren

(* Killing a child leaves its watcher in place.                            *)
LEMMA KilledQuiet ==
  ASSUME TypeOK, NEW c \in Clients \cup {NoClient}, child' = Killed(c)
  PROVE  QuietChildren
<1>1. CASE c = NoClient
  BY <1>1, SameQuiet DEF Killed
<1>2. CASE c \in Clients
  <2>1. [child[c] EXCEPT !.alive = FALSE, !.context = NoContext].watcher = child[c].watcher
    BY <1>2 DEF TypeOK, Child
  <2>2. child' = [child EXCEPT ![c] =
                    [child[c] EXCEPT !.alive = FALSE, !.context = NoContext]]
    BY <1>2, NamesAssumption DEF Killed
  <2> QED BY <1>2, <2>1, <2>2 DEF QuietChildren, TypeOK
<1> QED BY <1>1, <1>2

(* A return is quiet.                                                      *)
LEMMA ReturnQuiet ==
  ASSUME TypeOK, NEW t \in Tasks, task[t].pc \notin Halting, task' = Return(t)
  PROVE  QuietTasks
<1>1. QuietTask(task[t], Idle)
  BY DEF QuietTask, Idle, InFlight
<1> QED BY <1>1, TaskQuiet DEF Return

(* A quiet step keeps every promise, and reports no crash.                 *)
LEMMA QuietKeeps ==
  ASSUME IInv, Quiet
  PROVE  /\ SessionsAreNew' /\ StopsAreAtWork'
         /\ StateAgreesWithClient' /\ WatchedUntilRecorded'
<1>1. \A s \in Supervisors : Stopping(s) => Stopping(s)'
  BY DEF Stopping, Quiet, QuietTasks, QuietTask, Halting, Tasks
<1>2. SessionsAreNew'
  <2> SUFFICES ASSUME NEW t \in Tasks, task'[t].pc \in InFlight
               PROVE  /\ child'[task'[t].client].watcher = NoSupervisor
                      /\ \A s \in Supervisors : sup'[s].client # task'[t].client
                      /\ \A u \in Tasks \ {t} : task'[u].pc \in InFlight =>
                           task'[u].client # task'[t].client
    BY DEF SessionsAreNew
  <2>1. task[t].pc \in InFlight /\ task'[t].client = task[t].client
    BY DEF Quiet, QuietTasks, QuietTask
  <2>2. task[t].client \in Clients
    BY <2>1 DEF IInv, TasksBelong, Belongs
  <2>3. child'[task[t].client].watcher = NoSupervisor
    BY <2>1, <2>2 DEF IInv, SessionsAreNew, Quiet, QuietChildren
  <2>4. ASSUME NEW s \in Supervisors PROVE sup'[s].client # task[t].client
    BY <2>1, <2>2, NamesAssumption DEF IInv, SessionsAreNew, Quiet, QuietSups, QuietSup
  <2>5. ASSUME NEW u \in Tasks \ {t}, task'[u].pc \in InFlight
        PROVE  task'[u].client # task[t].client
    BY <2>1, <2>5 DEF IInv, SessionsAreNew, Quiet, QuietTasks, QuietTask
  <2> QED BY <2>1, <2>3, <2>4, <2>5
<1>3. StopsAreAtWork'
  BY <1>1 DEF IInv, StopsAreAtWork, Quiet, QuietSups, QuietSup
<1>4. StateAgreesWithClient'
  BY DEF IInv, StateAgreesWithClient, Quiet, QuietSups, QuietSup
<1>5. WatchedUntilRecorded'
  <2> SUFFICES ASSUME NEW s \in Supervisors, sup'[s].client # NoClient
               PROVE  child'[sup'[s].client].watcher = s \/ Stopping(s)'
    BY DEF WatchedUntilRecorded
  <2>1. sup'[s].client = sup[s].client
    BY DEF Quiet, QuietSups, QuietSup
  <2>2. sup[s].client \in Clients
    BY <2>1 DEF IInv, TypeOK, Supervisor
  <2> QED BY <1>1, <2>1, <2>2 DEF IInv, WatchedUntilRecorded, Quiet, QuietChildren
<1> QED BY <1>2, <1>3, <1>4, <1>5

(* What a failed Start does to the tasks is quiet.                         *)
LEMMA StartFailedQuiet ==
  ASSUME TypeOK, NEW t \in Tasks, task[t].pc \in Starting, task' = StartFailed(t)
  PROVE  QuietTasks
<1>0. task[t].pc \notin Halting
  BY DEF Starting, Halting
<1>1. CASE t \in Callers
  BY <1>0, <1>1, ReturnQuiet DEF StartFailed
<1>2. CASE t \in Supervisors
  <2> DEFINE r == [RestartLoop(t) EXCEPT !.attempt = task[t].attempt + 1,
             !.pc = IF MoreAttempts(task[t].attempt + 1) THEN "check" ELSE "exhaust"]
  <2>1. task' = [task EXCEPT ![t] = r]
    BY <1>2, NamesAssumption DEF StartFailed
  <2>2. r.pc = IF MoreAttempts(task[t].attempt + 1) THEN "check" ELSE "exhaust"
    BY DEF RestartLoop, Idle
  <2>3. QuietTask(task[t], r)
    <3> HIDE DEF r
    <3> QED BY <1>0, <2>2 DEF QuietTask, InFlight
  <2> QED BY <2>1, <2>3, TaskQuiet
<1> QED BY <1>1, <1>2 DEF Tasks

(* A supervisor that starts or fails has changed quietly.                  *)
LEMMA FailedQuiet ==
  ASSUME TypeOK, NEW s \in Supervisors, sup' = [sup EXCEPT ![s].state = "failed"]
  PROVE  QuietSups
<1>1. QuietSup(sup[s], [sup[s] EXCEPT !.state = "failed"])
  BY DEF QuietSup, TypeOK, Supervisor
<1> QED BY <1>1, SupQuiet

(* The steps of Start other than Launch and Publish are quiet.             *)
LEMMA StartQuiet ==
  ASSUME TypeOK, TasksBelong, NEW t \in Tasks,
         \/ StartRefused(t) \/ StartBegins(t) \/ LaunchFails(t)
         \/ HandshakeDone(t) \/ HandshakeFails(t)
  PROVE  Quiet
<1> DEFINE s == task[t].sup
<1>0. task[t] \in Task
  BY DEF TypeOK
<1>1. CASE StartRefused(t)
  BY <1>1, StartFailedQuiet, SameQuiet DEF StartRefused, Starting, Quiet
<1>2. CASE StartBegins(t)
  <2> DEFINE kept == sup[s].lifecycle \in Contexts \ ended
  <2>1. s \in Supervisors
    BY <1>2, ZenonT(60) DEF StartBegins, TasksBelong, Belongs
  <2>2. PICK k : /\ sup' = [sup EXCEPT ![s] =
                             [@ EXCEPT !.state = "starting", !.lifecycle = k,
                                       !.cancel = IF kept THEN sup[s].cancel ELSE k]]
                 /\ task' = [task EXCEPT ![t] = [@ EXCEPT !.pc = "launch", !.context = k]]
    BY <1>2 DEF StartBegins
  <2>3. QuietSup(sup[s], [sup[s] EXCEPT !.state = "starting", !.lifecycle = k,
                            !.cancel = IF kept THEN sup[s].cancel ELSE k])
    <3>1. sup[s] \in Supervisor
      BY <2>1 DEF TypeOK
    <3> HIDE DEF kept
    <3> QED BY <3>1 DEF QuietSup, Supervisor
  <2>4. QuietTask(task[t], [task[t] EXCEPT !.pc = "launch", !.context = k])
    BY <1>0, <1>2 DEF StartBegins, QuietTask, InFlight, Halting, Task
  <2>5. QuietSups
    BY <2>1, <2>2, <2>3, SupQuiet
  <2>6. QuietTasks
    BY <2>2, <2>4, TaskQuiet
  <2> QED BY <1>2, <2>5, <2>6, SameQuiet DEF StartBegins, Quiet
<1>3. CASE LaunchFails(t)
  <2>1. s \in Supervisors
    BY <1>3 DEF LaunchFails, TasksBelong, Belongs
  <2> QED BY <1>3, <2>1, FailedQuiet, StartFailedQuiet, SameQuiet
          DEF LaunchFails, Starting, Quiet
<1>4. CASE HandshakeDone(t)
  <2>1. QuietTask(task[t], [task[t] EXCEPT !.pc = "publish"])
    BY <1>0, <1>4 DEF HandshakeDone, QuietTask, InFlight, Halting, Task
  <2> QED BY <1>4, <2>1, TaskQuiet, SameQuiet DEF HandshakeDone, Goto, Quiet
<1>5. CASE HandshakeFails(t)
  <2>1. s \in Supervisors /\ task[t].client \in Clients
    BY <1>5 DEF HandshakeFails, TasksBelong, Belongs, InFlight
  <2> QED BY <1>5, <2>1, FailedQuiet, StartFailedQuiet, KilledQuiet
          DEF HandshakeFails, Starting, Quiet
<1> QED BY <1>1, <1>2, <1>3, <1>4, <1>5

(* The steps of restartAfterCrash are quiet.                               *)
LEMMA RestartQuiet ==
  ASSUME TypeOK, NEW s \in Supervisors, Restart(s) \/ WindowSlides(s)
  PROVE  Quiet
<1>0. s \in Tasks /\ task[s] \in Task /\ sup[s] \in Supervisor
  BY DEF Tasks, TypeOK
<1>a. ASSUME NEW pc \in {"clear", "start", "delay", "backoff"}, NEW k,
             task[s].pc \notin Halting
      PROVE  /\ QuietTask(task[s], [task[s] EXCEPT !.pc = pc])
             /\ QuietTask(task[s], [task[s] EXCEPT !.pc = pc, !.context = k])
  BY <1>0, <1>a DEF QuietTask, InFlight, Task
<1>1. CASE RestartCheck(s)
  <2> DEFINE pc == CASE sup[s].state # "crashed" -> "clear"
                     [] task[s].attempt = 0 -> "start"
                     [] OTHER -> "delay"
  <2>1. pc \in {"clear", "start", "delay", "backoff"}
    OBVIOUS
  <2>2. task' = [task EXCEPT ![s] = [task[s] EXCEPT !.pc = pc]]
    BY <1>1 DEF RestartCheck, Goto
  <2>3. task[s].pc \notin Halting
    BY <1>1 DEF RestartCheck, Halting
  <2> HIDE DEF pc
  <2>4. QuietTask(task[s], [task[s] EXCEPT !.pc = pc])
    BY <1>a, <2>1, <2>3
  <2> QED BY <1>0, <1>1, <2>2, <2>4, TaskQuiet, SameQuiet DEF RestartCheck, Quiet
<1>2. CASE RestartDelay(s)
  <2>1. task[s].pc \notin Halting
    BY <1>2 DEF RestartDelay, Halting
  <2>2. QuietTask(task[s], [task[s] EXCEPT !.pc = "backoff", !.context = sup[s].lifecycle])
    BY <1>a, <2>1
  <2> QED BY <1>0, <1>2, <2>2, TaskQuiet, SameQuiet DEF RestartDelay, Quiet
<1>3. CASE BackoffOver(s)
  <2>1. task[s].pc \notin Halting
    BY <1>3 DEF BackoffOver, Halting
  <2>2. QuietTask(task[s], [task[s] EXCEPT !.pc = "start", !.context = NoContext])
    BY <1>a, <2>1
  <2> QED BY <1>0, <1>3, <2>2, TaskQuiet, SameQuiet DEF BackoffOver, Quiet
<1>4. CASE BackoffStopped(s)
  <2>1. task[s].pc \notin Halting
    BY <1>4 DEF BackoffStopped, Halting
  <2>2. QuietTask(task[s], [task[s] EXCEPT !.pc = "clear", !.context = NoContext])
    BY <1>a, <2>1
  <2> QED BY <1>0, <1>4, <2>2, TaskQuiet, SameQuiet DEF BackoffStopped, Quiet
<1>5. CASE ExhaustRestarts(s)
  <2>1. task[s].pc \notin Halting
    BY <1>5 DEF ExhaustRestarts, Halting
  <2>2. QuietTask(task[s], [task[s] EXCEPT !.pc = "clear"])
    BY <1>a, <2>1
  <2>3. QuietSup(sup[s], [sup[s] EXCEPT !.state =
                            IF sup[s].state = "crashed" THEN "failed" ELSE sup[s].state])
    BY <1>0 DEF QuietSup, Supervisor
  <2>4. QuietSups
    BY <1>5, <2>3, SupQuiet DEF ExhaustRestarts
  <2> QED BY <1>0, <1>5, <2>2, <2>4, TaskQuiet, SameQuiet DEF ExhaustRestarts, Goto, Quiet
<1>6. CASE ClearRestarting(s)
  <2>1. task[s].pc \notin Halting
    BY <1>6 DEF ClearRestarting, Halting
  <2>2. QuietSup(sup[s], [sup[s] EXCEPT !.restarting = FALSE])
    BY <1>0 DEF QuietSup, Supervisor
  <2> QED BY <1>0, <1>6, <2>1, <2>2, SupQuiet, ReturnQuiet, SameQuiet
          DEF ClearRestarting, Quiet
<1>7. CASE WindowSlides(s)
  <2>1. QuietSup(sup[s], [sup[s] EXCEPT !.crashes = @ - 1])
    BY <1>0 DEF QuietSup, Supervisor
  <2> QED BY <1>7, <2>1, SupQuiet, SameQuiet DEF WindowSlides, Quiet
<1> QED BY <1>1, <1>2, <1>3, <1>4, <1>5, <1>6, <1>7 DEF Restart

(* The steps of Stop between its first and its last are quiet.             *)
LEMMA StopQuiet ==
  ASSUME TypeOK, NEW t \in Callers, StopNothing(t) \/ StopCloses(t) \/ StopCancels(t)
  PROVE  Quiet
<1>0. t \in Tasks /\ task[t] \in Task
  BY DEF Tasks, TypeOK
<1>1. CASE StopNothing(t)
  <2>1. task[t].pc \notin Halting
    BY <1>1 DEF StopNothing, Halting
  <2>2. QuietTask(task[t], [task[t] EXCEPT !.pc = "disable"])
    BY <1>0, <2>1 DEF QuietTask, InFlight, Task
  <2>3. task' = Return(t) \/ task' = [task EXCEPT ![t] = [task[t] EXCEPT !.pc = "disable"]]
    BY <1>1 DEF StopNothing, AfterStop, Goto
  <2>4. QuietTasks
    BY <1>0, <2>1, <2>2, <2>3, ReturnQuiet, TaskQuiet
  <2> QED BY <1>1, <2>4, SameQuiet DEF StopNothing, Quiet
<1>2. CASE StopCloses(t)
  <2>1. PICK failed : task' = [task EXCEPT ![t] =
                  [@ EXCEPT !.pc = "cancel", !.client = NoClient,
                            !.op = IF failed THEN "stop" ELSE task[t].op]]
    BY <1>2 DEF StopCloses
  <2>2. QuietTask(task[t], [task[t] EXCEPT !.pc = "cancel", !.client = NoClient,
                              !.op = IF failed THEN "stop" ELSE task[t].op])
    BY <1>0 DEF QuietTask, InFlight, Halting, Task
  <2>3. QuietTasks
    BY <1>0, <2>1, <2>2, TaskQuiet
  <2>4. QuietChildren
    BY <1>0, <1>2, KilledQuiet DEF StopCloses, Task
  <2> QED BY <1>2, <2>3, <2>4, SameQuiet DEF StopCloses, Quiet
<1>3. CASE StopCancels(t)
  <2>1. QuietTask(task[t], [task[t] EXCEPT !.pc = "halt", !.context = NoContext])
    BY <1>0 DEF QuietTask, InFlight, Halting, Task
  <2> QED BY <1>0, <1>3, <2>1, TaskQuiet, SameQuiet DEF StopCancels, Quiet
<1> QED BY <1>1, <1>2, <1>3

(* The bridge's steps and the tools' are quiet.                            *)
LEMMA CallerQuiet ==
  ASSUME TypeOK, NEW t \in Callers, Bridge(t) \/ Tool(t)
  PROVE  Quiet
<1>0. t \in Tasks /\ task[t] \in Task
  BY DEF Tasks, TypeOK
<1>1. CASE EnablePlugin(t)
  BY <1>1, SameQuiet DEF EnablePlugin, Quiet
<1>2. CASE StartPlugin(t)
  <2>1. QuietTask(task[t], [task[t] EXCEPT !.pc = "track", !.op = "start"])
    BY <1>0, <1>2 DEF StartPlugin, Calling, QuietTask, InFlight, Halting, Task
  <2> QED BY <1>0, <1>2, <2>1, TaskQuiet, SameQuiet DEF StartPlugin, Quiet
<1>3. CASE TrackSupervisor(t)
  <2>1. PICK s : /\ s \in IF tracked # NoSupervisor THEN {tracked} ELSE AnyOf(FreeSupervisors)
                 /\ sup' = IF tracked = s THEN sup ELSE [sup EXCEPT ![s] = NewSupervisor]
                 /\ task' = [task EXCEPT ![t] = [@ EXCEPT !.pc = "start", !.sup = s]]
    BY <1>3 DEF TrackSupervisor
  <2>2. s \in Supervisors
    BY <2>1, AnyOfFree DEF FreeSupervisors, TypeOK
  <2>3. QuietSup(sup[s], NewSupervisor)
    BY DEF QuietSup, NewSupervisor
  <2>4. QuietTask(task[t], [task[t] EXCEPT !.pc = "start", !.sup = s])
    BY <1>0, <1>3 DEF TrackSupervisor, QuietTask, InFlight, Halting, Task
  <2>5. QuietSups
    BY <2>1, <2>2, <2>3, SupQuiet, SameQuiet
  <2>6. QuietTasks
    BY <1>0, <2>1, <2>4, TaskQuiet
  <2> QED BY <1>3, <2>5, <2>6, SameQuiet DEF TrackSupervisor, Quiet
<1>4. ASSUME NEW op, StopPlugin(t, op)
      PROVE  Quiet
  <2>1. QuietTask(task[t], [task[t] EXCEPT !.pc = "stop", !.op = op, !.sup = tracked])
    BY <1>0, <1>4 DEF StopPlugin, Calling, QuietTask, InFlight, Halting, Task
  <2> QED BY <1>0, <1>4, <2>1, TaskQuiet, SameQuiet DEF StopPlugin, Quiet
<1>5. CASE ChatTools(t)
  <2>1. QuietTask(task[t], [task[t] EXCEPT !.pc = "invoke", !.op = "invoke", !.sup = tracked])
    BY <1>0, <1>5 DEF ChatTools, Calling, QuietTask, InFlight, Halting, Task
  <2> QED BY <1>0, <1>5, <2>1, TaskQuiet, SameQuiet DEF ChatTools, Quiet
<1>6. CASE InvokeTool(t)
  <2>1. task[t].pc \notin Halting
    BY <1>6 DEF InvokeTool, Halting
  <2>2. QuietTask(task[t], [task[t] EXCEPT !.pc = "call", !.client = sup[task[t].sup].client])
    BY <1>0, <2>1 DEF QuietTask, InFlight, Task
  <2> QED BY <1>0, <1>6, <2>1, <2>2, TaskQuiet, ReturnQuiet, SameQuiet DEF InvokeTool, Quiet
<1>7. CASE CancelUnanswered(t)
  <2>1. QuietTask(task[t], [task[t] EXCEPT !.pc = "stop"])
    BY <1>0, <1>7 DEF CancelUnanswered, QuietTask, InFlight, Halting, Task
  <2> QED BY <1>0, <1>7, <2>1, TaskQuiet, SameQuiet DEF CancelUnanswered, Goto, Quiet
<1>8. CASE ToolReturns(t) \/ StartPluginFails(t) \/ DisablePlugin(t)
  <2>1. task[t].pc \notin Halting
    BY <1>8 DEF ToolReturns, StartPluginFails, DisablePlugin, Halting
  <2> QED BY <1>0, <1>8, <2>1, ReturnQuiet, SameQuiet
          DEF ToolReturns, StartPluginFails, DisablePlugin, Quiet
<1> QED BY <1>1, <1>2, <1>3, <1>4, <1>5, <1>6, <1>7, <1>8 DEF Bridge, Tool

-----------------------------------------------------------------------------
(* The six steps that are not quiet.                                       *)

Promises ==
  /\ SessionsAreNew /\ StopsAreAtWork
  /\ StateAgreesWithClient /\ WatchedUntilRecorded

(* Launch: the new client was free.                                        *)
LEMMA LaunchKeeps ==
  ASSUME IInv, NEW t \in Tasks, Launch(t)
  PROVE  Promises'
<1>1. PICK c \in AnyOf(FreeClients) :
        /\ child' = [child EXCEPT ![c] = [@ EXCEPT !.alive = TRUE, !.context = task[t].context]]
        /\ task' = [task EXCEPT ![t] = [@ EXCEPT !.pc = "handshake", !.client = c]]
  BY DEF Launch
<1>2. /\ c \in Clients /\ child[c].watcher = NoSupervisor
      /\ \A s \in Supervisors : sup[s].client # c
      /\ \A u \in Tasks : task[u].client # c
  BY <1>1, AnyOfFree DEF FreeClients
<1>3. sup' = sup
  BY DEF Launch
<1>4. \A d \in Clients : child'[d].watcher = child[d].watcher
  <2>1. [child[c] EXCEPT !.alive = TRUE, !.context = task[t].context].watcher = child[c].watcher
    BY <1>2 DEF IInv, TypeOK, Child
  <2> QED BY <1>1, <1>2, <2>1 DEF IInv, TypeOK
<1>5. /\ task'[t].pc = "handshake" /\ task'[t].client = c /\ task'[t].sup = task[t].sup
      /\ \A u \in Tasks \ {t} : task'[u] = task[u]
  BY <1>1 DEF IInv, TypeOK, Task
<1>6. task[t].pc = "launch"
  BY DEF Launch
<1>7. \A s \in Supervisors : Stopping(s) => Stopping(s)'
  BY <1>5, <1>6 DEF Stopping, Tasks
<1>8. SessionsAreNew'
  <2> SUFFICES ASSUME NEW v \in Tasks, task'[v].pc \in InFlight
               PROVE  /\ child'[task'[v].client].watcher = NoSupervisor
                      /\ \A s \in Supervisors : sup'[s].client # task'[v].client
                      /\ \A u \in Tasks \ {v} : task'[u].pc \in InFlight =>
                           task'[u].client # task'[v].client
    BY DEF SessionsAreNew
  <2>1. CASE v = t
    BY <1>2, <1>3, <1>4, <1>5, <2>1
  <2>2. CASE v # t
    <3>1. task'[v] = task[v] /\ task[v].pc \in InFlight /\ task[v].client \in Clients
      BY <1>5, <2>2 DEF IInv, TasksBelong, Belongs
    <3>2. /\ child[task[v].client].watcher = NoSupervisor
          /\ \A s \in Supervisors : sup[s].client # task[v].client
          /\ \A u \in Tasks \ {v} : task[u].pc \in InFlight => task[u].client # task[v].client
      BY <3>1 DEF IInv, SessionsAreNew
    <3> QED BY <1>2, <1>3, <1>4, <1>5, <2>2, <3>1, <3>2
  <2> QED BY <2>1, <2>2
<1>9. WatchedUntilRecorded'
  BY <1>3, <1>4, <1>7 DEF IInv, TypeOK, Supervisor, WatchedUntilRecorded
<1> QED BY <1>3, <1>7, <1>8, <1>9
        DEF IInv, Promises, StopsAreAtWork, StateAgreesWithClient

(* Publish: the session goes from the Start that prepared it to the        *)
(* supervisor, with a watcher.                                             *)
LEMMA PublishKeeps ==
  ASSUME IInv, NEW t \in Tasks, Publish(t)
  PROVE  Promises'
<1> DEFINE s == task[t].sup
           c == task[t].client
<1>1. /\ s \in Supervisors /\ c \in Clients
      /\ task[t].pc = "publish" /\ task[t].pc \in InFlight
  BY DEF Publish, IInv, TasksBelong, Belongs, InFlight
<1>2. /\ child[c].watcher = NoSupervisor
      /\ \A u \in Supervisors : sup[u].client # c
      /\ \A u \in Tasks \ {t} : task[u].pc \in InFlight => task[u].client # c
  BY <1>1 DEF IInv, SessionsAreNew
<1>3. /\ sup'[s].client = c /\ sup'[s].state = "running"
      /\ \A u \in Supervisors \ {s} : sup'[u] = sup[u]
  BY <1>1 DEF Publish, Published, IInv, TypeOK, Supervisor
<1>4. /\ child'[c].watcher = s
      /\ \A d \in Clients \ {c} : child'[d] = child[d]
  BY <1>1 DEF Publish, IInv, TypeOK, Child
<1>5. PICK next : /\ next \in IF t \in Callers
                      THEN {Idle, [Idle EXCEPT !.pc = "stop", !.op = "start", !.sup = s]}
                      ELSE {[RestartLoop(t) EXCEPT !.pc = "clear"]}
                  /\ task' = [task EXCEPT ![t] = next]
  BY DEF Publish
<1>6. next.pc \notin InFlight
  <2>1. Idle.pc \notin InFlight
    BY DEF Idle, InFlight
  <2>2. [Idle EXCEPT !.pc = "stop", !.op = "start", !.sup = s].pc \notin InFlight
    BY DEF Idle, InFlight
  <2>3. [RestartLoop(t) EXCEPT !.pc = "clear"].pc \notin InFlight
    BY DEF RestartLoop, Idle, InFlight
  <2> QED BY <1>5, <2>1, <2>2, <2>3
<1>7. /\ task'[t].pc \notin InFlight
      /\ \A u \in Tasks \ {t} : task'[u] = task[u]
  BY <1>5, <1>6 DEF IInv, TypeOK
<1>8. \A u \in Supervisors : Stopping(u) => Stopping(u)'
  BY <1>1, <1>7 DEF Stopping, Tasks
<1>9. SessionsAreNew'
  <2> SUFFICES ASSUME NEW v \in Tasks, task'[v].pc \in InFlight
               PROVE  /\ child'[task'[v].client].watcher = NoSupervisor
                      /\ \A u \in Supervisors : sup'[u].client # task'[v].client
                      /\ \A u \in Tasks \ {v} : task'[u].pc \in InFlight =>
                           task'[u].client # task'[v].client
    BY DEF SessionsAreNew
  <2>1. v # t /\ task'[v] = task[v] /\ task[v].client \in Clients
    BY <1>7 DEF IInv, TasksBelong, Belongs
  <2>2. /\ child[task[v].client].watcher = NoSupervisor
        /\ \A u \in Supervisors : sup[u].client # task[v].client
        /\ \A u \in Tasks \ {v} : task[u].pc \in InFlight => task[u].client # task[v].client
    BY <2>1 DEF IInv, SessionsAreNew
  <2>3. task[v].client # c
    BY <1>2, <2>1
  <2> QED BY <1>3, <1>4, <1>7, <2>1, <2>2, <2>3
<1>10. StopsAreAtWork'
  BY <1>3, <1>8 DEF IInv, StopsAreAtWork
<1>11. StateAgreesWithClient'
  BY <1>1, <1>3, NamesAssumption DEF IInv, StateAgreesWithClient
<1>12. WatchedUntilRecorded'
  <2> SUFFICES ASSUME NEW u \in Supervisors, sup'[u].client # NoClient
               PROVE  child'[sup'[u].client].watcher = u \/ Stopping(u)'
    BY DEF WatchedUntilRecorded
  <2>1. CASE u = s
    BY <1>3, <1>4, <2>1
  <2>2. CASE u # s
    <3>1. sup'[u] = sup[u] /\ sup[u].client \in Clients \ {c}
      BY <1>2, <1>3, <2>2 DEF IInv, TypeOK, Supervisor
    <3> QED BY <1>4, <1>8, <3>1 DEF IInv, WatchedUntilRecorded
  <2> QED BY <2>1, <2>2
<1> QED BY <1>9, <1>10, <1>11, <1>12 DEF Promises

(* An exit is ignored only while a stop is at work on its session.         *)
LEMMA ExitIgnoredKeeps ==
  ASSUME IInv, NEW c \in Clients, ExitIgnored(c)
  PROVE  Promises'
<1>1. /\ sup' = sup /\ task' = task
      /\ child'[c].watcher = NoSupervisor
      /\ \A d \in Clients \ {c} : child'[d] = child[d]
  BY DEF ExitIgnored, IInv, TypeOK, Child
<1>2. \A s \in Supervisors : Stopping(s) <=> Stopping(s)'
  BY <1>1 DEF Stopping
<1>3. SessionsAreNew'
  <2>1. \A t \in Tasks : task[t].pc \in InFlight => task[t].client \in Clients
    BY DEF IInv, TasksBelong, Belongs
  <2> QED BY <1>1, <2>1 DEF IInv, SessionsAreNew
<1>4. WatchedUntilRecorded'
  <2> SUFFICES ASSUME NEW s \in Supervisors, sup[s].client # NoClient
               PROVE  child'[sup[s].client].watcher = s \/ Stopping(s)
    BY <1>1, <1>2 DEF WatchedUntilRecorded
  <2>1. sup[s].client \in Clients
    BY DEF IInv, TypeOK, Supervisor
  <2>2. child[sup[s].client].watcher = s \/ Stopping(s)
    BY DEF IInv, WatchedUntilRecorded
  <2>3. CASE sup[s].client # c
    BY <1>1, <2>1, <2>2, <2>3
  <2>4. CASE sup[s].client = c /\ child[c].watcher = s
    <3>1. sup[s].state \in {"stopping", "stopped"}
      BY <2>4 DEF ExitIgnored, Foreign
    <3>2. sup[s].state # "stopped"
      BY DEF IInv, StateAgreesWithClient
    <3> QED BY <3>1, <3>2 DEF IInv, StopsAreAtWork
  <2> QED BY <2>2, <2>3, <2>4
<1> QED BY <1>1, <1>2, <1>3, <1>4
        DEF IInv, Promises, StopsAreAtWork, StateAgreesWithClient

(* What handleClientExit writes.                                           *)
LEMMA ExitWrites ==
  ASSUME IInv, NEW c \in Clients, HandleClientExit(c)
  PROVE  LET s == child[c].watcher IN
         /\ s \in Supervisors /\ sup[s].client = c /\ ~child[c].alive
         /\ sup'[s].client = NoClient /\ sup'[s].state \in {"failed", "crashed"}
         /\ \A u \in Supervisors \ {s} : sup'[u] = sup[u]
         /\ child'[c].watcher = NoSupervisor
         /\ \A d \in Clients \ {c} : child'[d] = child[d]
         /\ task'[s].pc \in InFlight => task[s].pc \in InFlight /\ task'[s] = task[s]
         /\ \A t \in Tasks \ {s} : task'[t] = task[t]
<1> DEFINE s == child[c].watcher
           crashes == sup[s].crashes + 1
           restart == MaxAttempts > 0 /\ ~Tripped(crashes) /\ ~sup[s].restarting
           r == [sup[s] EXCEPT !.client = NoClient, !.lifecycle = NoContext,
                   !.state = IF Tripped(crashes) THEN "failed" ELSE "crashed",
                   !.crashes = crashes, !.restarting = sup[s].restarting \/ restart]
<1>1. s \in Supervisors /\ s \in Tasks /\ sup[s].client = c /\ ~child[c].alive
  BY DEF HandleClientExit, Foreign, Child, Tasks, IInv, TypeOK
<1>2. sup' = [sup EXCEPT ![s] = r]
  BY DEF HandleClientExit
<1>3. r.client = NoClient /\ r.state \in {"failed", "crashed"}
  <2> HIDE DEF restart
  <2> QED BY <1>1 DEF IInv, TypeOK, Supervisor
<1>4. /\ sup'[s].client = NoClient /\ sup'[s].state \in {"failed", "crashed"}
      /\ \A u \in Supervisors \ {s} : sup'[u] = sup[u]
  <2> HIDE DEF r
  <2> QED BY <1>1, <1>2, <1>3 DEF IInv, TypeOK
<1>5. /\ child'[c].watcher = NoSupervisor
      /\ \A d \in Clients \ {c} : child'[d] = child[d]
  BY DEF HandleClientExit, IInv, TypeOK, Child
<1>6. task' = task \/ task' = [task EXCEPT ![s] = RestartLoop(s)]
  BY DEF HandleClientExit
<1>7. /\ task'[s].pc \in InFlight => task[s].pc \in InFlight /\ task'[s] = task[s]
      /\ \A t \in Tasks \ {s} : task'[t] = task[t]
  BY <1>1, <1>6, RestartLoopFields DEF InFlight, IInv, TypeOK
<1> QED BY <1>1, <1>4, <1>5, <1>7

(* A recorded exit takes the session off its supervisor.                   *)
LEMMA HandleClientExitKeeps ==
  ASSUME IInv, NEW c \in Clients, HandleClientExit(c)
  PROVE  Promises'
<1> DEFINE s == child[c].watcher
<1>1. /\ s \in Supervisors /\ sup[s].client = c
      /\ sup'[s].client = NoClient /\ sup'[s].state \in {"failed", "crashed"}
      /\ \A u \in Supervisors \ {s} : sup'[u] = sup[u]
      /\ child'[c].watcher = NoSupervisor
      /\ \A d \in Clients \ {c} : child'[d] = child[d]
      /\ task'[s].pc \in InFlight => task[s].pc \in InFlight /\ task'[s] = task[s]
      /\ \A t \in Tasks \ {s} : task'[t] = task[t]
  BY ExitWrites
<1>2. \A u \in Supervisors : Stopping(u) <=> Stopping(u)'
  BY <1>1, NamesAssumption DEF Stopping, Tasks
<1>3. SessionsAreNew'
  <2> SUFFICES ASSUME NEW v \in Tasks, task'[v].pc \in InFlight
               PROVE  /\ child'[task'[v].client].watcher = NoSupervisor
                      /\ \A u \in Supervisors : sup'[u].client # task'[v].client
                      /\ \A u \in Tasks \ {v} : task'[u].pc \in InFlight =>
                           task'[u].client # task'[v].client
    BY DEF SessionsAreNew
  <2>1. task'[v] = task[v] /\ task[v].pc \in InFlight /\ task[v].client \in Clients
    BY <1>1 DEF IInv, TasksBelong, Belongs
  <2>2. /\ child[task[v].client].watcher = NoSupervisor
        /\ \A u \in Supervisors : sup[u].client # task[v].client
        /\ \A u \in Tasks \ {v} : task[u].pc \in InFlight => task[u].client # task[v].client
    BY <2>1 DEF IInv, SessionsAreNew
  <2>3. child'[task[v].client].watcher = NoSupervisor
    BY <1>1, <2>1, <2>2
  <2>4. \A u \in Supervisors : sup'[u].client # task[v].client
    BY <1>1, <2>1, <2>2, NamesAssumption
  <2>5. \A u \in Tasks \ {v} : task'[u].pc \in InFlight => task'[u].client # task[v].client
    BY <1>1, <2>2
  <2> QED BY <2>1, <2>3, <2>4, <2>5
<1>4. StopsAreAtWork'
  BY <1>1, <1>2 DEF IInv, StopsAreAtWork
<1>5. StateAgreesWithClient'
  BY <1>1 DEF IInv, StateAgreesWithClient
<1>6. WatchedUntilRecorded'
  <2> SUFFICES ASSUME NEW u \in Supervisors, sup'[u].client # NoClient
               PROVE  child'[sup'[u].client].watcher = u \/ Stopping(u)'
    BY DEF WatchedUntilRecorded
  <2>1. u # s /\ sup'[u] = sup[u] /\ sup[u].client \in Clients
    BY <1>1 DEF IInv, TypeOK, Supervisor
  <2>2. child[sup[u].client].watcher = u \/ Stopping(u)
    BY <2>1 DEF IInv, WatchedUntilRecorded
  <2> QED BY <1>1, <1>2, <2>1, <2>2
<1> QED BY <1>3, <1>4, <1>5, <1>6 DEF Promises

(* A stop that begins is at work; one that ends leaves nothing behind.     *)
LEMMA StopBeginsKeeps ==
  ASSUME IInv, NEW t \in Callers, StopBegins(t)
  PROVE  Promises'
<1> DEFINE s == task[t].sup
<1>0. t \in Tasks
  BY DEF Tasks
<1>1. s \in Supervisors /\ task[t].pc = "stop" /\ child' = child
  BY <1>0 DEF StopBegins, IInv, TypeOK, Task
<1>2. /\ sup'[s].state = "stopping" /\ sup'[s].client = sup[s].client
      /\ \A u \in Supervisors \ {s} : sup'[u] = sup[u]
  BY <1>1 DEF StopBegins, IInv, TypeOK, Supervisor
<1>3. /\ task'[t].pc = "close" /\ task'[t].sup = s
      /\ \A u \in Tasks \ {t} : task'[u] = task[u]
  BY <1>0 DEF StopBegins, IInv, TypeOK, Task
<1>4. Stopping(s)' /\ \A u \in Supervisors : Stopping(u) => Stopping(u)'
  BY <1>0, <1>1, <1>3 DEF Stopping, Tasks
<1>5. SessionsAreNew'
  <2>1. task'[t].pc \notin InFlight
    BY <1>3 DEF InFlight
  <2> QED BY <1>1, <1>2, <1>3, <2>1 DEF IInv, SessionsAreNew
<1>6. StopsAreAtWork'
  <2>1. ASSUME NEW u \in Supervisors, sup'[u].state = "stopping"
        PROVE  Stopping(u)'
    <3>1. CASE u = s
      BY <1>0, <1>3, <3>1 DEF Stopping, Tasks
    <3>2. CASE u # s
      <4>1. sup[u].state = "stopping"
        BY <1>2, <2>1, <3>2
      <4> QED BY <1>4, <4>1 DEF IInv, StopsAreAtWork
    <3> QED BY <3>1, <3>2
  <2> QED BY <2>1 DEF StopsAreAtWork
<1>7. StateAgreesWithClient'
  BY <1>2 DEF IInv, StateAgreesWithClient
<1>8. WatchedUntilRecorded'
  BY <1>1, <1>2, <1>4 DEF IInv, WatchedUntilRecorded
<1> QED BY <1>5, <1>6, <1>7, <1>8 DEF Promises

(* A stop that ends leaves its supervisor stopped, without a session.      *)
LEMMA StopEndsKeeps ==
  ASSUME IInv, NEW t \in Callers, StopEnds(t)
  PROVE  Promises'
<1> DEFINE s == task[t].sup
<1>0. t \in Tasks
  BY DEF Tasks
<1>1. s \in Supervisors /\ task[t].pc = "halt" /\ child' = child
  BY <1>0 DEF StopEnds, IInv, TasksBelong, Belongs
<1>2. /\ sup'[s].state = "stopped" /\ sup'[s].client = NoClient
      /\ \A u \in Supervisors \ {s} : sup'[u] = sup[u]
  BY <1>1 DEF StopEnds, Halted, IInv, TypeOK, Supervisor
<1>3. /\ task'[t].pc \notin InFlight
      /\ \A u \in Tasks \ {t} : task'[u] = task[u]
  <2>1. task' = [task EXCEPT ![t] = Idle]
          \/ task' = [task EXCEPT ![t] = [task[t] EXCEPT !.pc = "disable"]]
    BY DEF StopEnds, AfterStop, Goto, Return
  <2>2. Idle.pc \notin InFlight
    BY DEF Idle, InFlight
  <2>3. [task[t] EXCEPT !.pc = "disable"].pc \notin InFlight
    BY <1>0 DEF InFlight, IInv, TypeOK, Task
  <2> QED BY <1>0, <2>1, <2>2, <2>3 DEF IInv, TypeOK
<1>4. \A u \in Supervisors \ {s} : Stopping(u) => Stopping(u)'
  BY <1>1, <1>3 DEF Stopping, Tasks
<1>5. SessionsAreNew'
  <2> SUFFICES ASSUME NEW v \in Tasks, task'[v].pc \in InFlight
               PROVE  /\ child'[task'[v].client].watcher = NoSupervisor
                      /\ \A u \in Supervisors : sup'[u].client # task'[v].client
                      /\ \A u \in Tasks \ {v} : task'[u].pc \in InFlight =>
                           task'[u].client # task'[v].client
    BY DEF SessionsAreNew
  <2>1. v # t /\ task'[v] = task[v] /\ task[v].client \in Clients
    BY <1>3 DEF IInv, TasksBelong, Belongs
  <2>2. /\ child[task[v].client].watcher = NoSupervisor
        /\ \A u \in Supervisors : sup[u].client # task[v].client
        /\ \A u \in Tasks \ {v} : task[u].pc \in InFlight => task[u].client # task[v].client
    BY <2>1 DEF IInv, SessionsAreNew
  <2> QED BY <1>1, <1>2, <1>3, <2>1, <2>2, NamesAssumption
<1>6. StopsAreAtWork'
  <2>1. ASSUME NEW u \in Supervisors, sup'[u].state = "stopping"
        PROVE  Stopping(u)'
    <3>1. u # s /\ sup[u].state = "stopping"
      BY <1>2, <2>1
    <3> QED BY <1>4, <3>1 DEF IInv, StopsAreAtWork
  <2> QED BY <2>1 DEF StopsAreAtWork
<1>7. StateAgreesWithClient'
  BY <1>2 DEF IInv, StateAgreesWithClient
<1>8. WatchedUntilRecorded'
  BY <1>1, <1>2, <1>4 DEF IInv, WatchedUntilRecorded
<1> QED BY <1>5, <1>6, <1>7, <1>8 DEF Promises

-----------------------------------------------------------------------------
(* Theorems.                                                               *)

(* At the start nothing runs.                                              *)
LEMMA InitHolds ==
  ASSUME Init
  PROVE  IInv
<1>1. NewSupervisor \in Supervisor
  BY DEF NewSupervisor, Supervisor, LifecycleStates
<1>2. Gone \in Child
  BY DEF Gone, Child
<1>3. TypeOK
  BY <1>1, <1>2, TaskRecords, PolicyAssumption DEF Init, TypeOK
<1>4. /\ \A t \in Tasks : task[t] = Idle
      /\ \A s \in Supervisors : sup[s] = NewSupervisor
  BY DEF Init
<1>5. TasksBelong
  BY <1>4, IdleBelongs DEF TasksBelong
<1>6. Idle.pc \notin InFlight
  BY DEF Idle, InFlight
<1>7. NewSupervisor.state = "stopped" /\ NewSupervisor.client = NoClient
  BY DEF NewSupervisor
<1> QED BY <1>3, <1>4, <1>5, <1>6, <1>7
        DEF IInv, SessionsAreNew, StopsAreAtWork, StateAgreesWithClient, WatchedUntilRecorded

(* One step.                                                               *)
LEMMA StepHolds ==
  ASSUME IInv, [Next]_vars
  PROVE  IInv'
<1> USE DEF IInv
<1>1. CASE UNCHANGED vars
  BY <1>1 DEF vars, TypeOK, TasksBelong, SessionsAreNew, StopsAreAtWork, Stopping,
              StateAgreesWithClient, WatchedUntilRecorded
<1>2. ASSUME NEW t \in Tasks, Start(t)
      PROVE  IInv'
  <2>1. TypeOK' /\ TasksBelong'
    BY <1>2, StartTyped, StartBelongs
  <2>2. CASE Launch(t) \/ Publish(t)
    BY <2>1, <2>2, LaunchKeeps, PublishKeeps DEF Promises
  <2>3. CASE \/ StartRefused(t) \/ StartBegins(t) \/ LaunchFails(t)
             \/ HandshakeDone(t) \/ HandshakeFails(t)
    BY <2>1, <2>3, StartQuiet, QuietKeeps
  <2> QED BY <1>2, <2>2, <2>3 DEF Start
<1>3. ASSUME NEW t \in Callers, Stop(t)
      PROVE  IInv'
  <2>1. TypeOK' /\ TasksBelong'
    BY <1>3, StopTyped, StopBelongs
  <2>2. CASE StopBegins(t) \/ StopEnds(t)
    BY <2>1, <2>2, StopBeginsKeeps, StopEndsKeeps DEF Promises
  <2>3. CASE StopNothing(t) \/ StopCloses(t) \/ StopCancels(t)
    BY <2>1, <2>3, StopQuiet, QuietKeeps
  <2> QED BY <1>3, <2>2, <2>3 DEF Stop
<1>4. ASSUME NEW t \in Callers, Bridge(t) \/ Tool(t)
      PROVE  IInv'
  BY <1>4, CallerTyped, CallerBelongs, CallerQuiet, QuietKeeps
<1>5. ASSUME NEW s \in Supervisors, Restart(s) \/ WindowSlides(s)
      PROVE  IInv'
  BY <1>5, RestartTyped, RestartBelongs, RestartQuiet, QuietKeeps
<1>6. ASSUME NEW c \in Clients, Session(c)
      PROVE  IInv'
  <2>1. TypeOK' /\ TasksBelong'
    BY <1>6, SessionTyped, SessionBelongs
  <2>2. CASE ExitIgnored(c) \/ HandleClientExit(c)
    BY <2>1, <2>2, ExitIgnoredKeeps, HandleClientExitKeeps DEF Promises
  <2>3. CASE Exit(c) \/ CloseOnContext(c)
    <3>1. Quiet
      BY <2>3, KilledQuiet, SameQuiet DEF Exit, CloseOnContext, Quiet
    <3> QED BY <2>1, <3>1, QuietKeeps
  <2> QED BY <1>6, <2>2, <2>3 DEF Session
<1> QED BY <1>1, <1>2, <1>3, <1>4, <1>5, <1>6 DEF Next

(* The strengthened invariant holds in every state.                        *)
THEOREM Invariance == Spec => []IInv
<1>1. Init => IInv
  BY InitHolds
<1>2. IInv /\ [Next]_vars => IInv'
  BY StepHolds
<1> QED BY <1>1, <1>2, PTL DEF Spec

(* Every variable keeps its type, and no restart loop makes more attempts  *)
(* than the policy allows (restartAfterCrash).                             *)
THEOREM PluginTypeCorrect == Spec => []TypeOK
<1>1. IInv => TypeOK
  BY DEF IInv
<1> QED BY <1>1, Invariance, PTL

(* The state a supervisor reports agrees with the session it holds,        *)
(* whatever Start, Stop and exit overlap.                                  *)
THEOREM StateAgreesHolds == Spec => []StateAgreesWithClient
<1>1. IInv => StateAgreesWithClient
  BY DEF IInv
<1> QED BY <1>1, Invariance, PTL

(* A session a supervisor holds is watched until its exit is recorded or a *)
(* stop is at work (watch, handleClientExit, Stop).                        *)
THEOREM WatchedHolds == Spec => []WatchedUntilRecorded
<1>1. IInv => WatchedUntilRecorded
  BY DEF IInv
<1> QED BY <1>1, Invariance, PTL

(* A crash is reported only when the session in use has died.              *)
THEOREM CrashesAreReal == Spec => CrashIsReal
<1> DEFINE Real == \A s \in Supervisors :
       sup[s].state # "crashed" /\ sup'[s].state = "crashed" =>
         sup[s].client # NoClient /\ ~child[sup[s].client].alive
<1>1. IInv /\ [Next]_vars => [Real]_vars
  <2> SUFFICES ASSUME IInv, Next PROVE Real
    OBVIOUS
  <2>1. ASSUME Quiet PROVE Real
    BY <2>1 DEF Quiet, QuietSups, QuietSup
  <2>2. ASSUME NEW t \in Tasks, Start(t) PROVE Real
    <3>1. CASE Launch(t)
      BY <3>1 DEF Launch
    <3>2. CASE Publish(t)
      <4>1. task[t].sup \in Supervisors
        BY <3>2 DEF Publish, IInv, TasksBelong, Belongs
      <4>2. Published(task[t].sup, task[t].client).state = "running"
        BY <4>1 DEF Published, IInv, TypeOK, Supervisor
      <4> QED BY <3>2, <4>1, <4>2 DEF Publish, IInv, TypeOK
    <3> QED BY <2>1, <2>2, <3>1, <3>2, StartQuiet DEF Start, IInv
  <2>3. ASSUME NEW t \in Callers, Stop(t) PROVE Real
    <3>0. t \in Tasks
      BY DEF Tasks
    <3>1. CASE StopBegins(t)
      <4>1. task[t].sup \in Supervisors
        BY <3>0, <3>1 DEF StopBegins, IInv, TypeOK, Task
      <4> QED BY <3>1, <4>1 DEF StopBegins, IInv, TypeOK, Supervisor
    <3>2. CASE StopEnds(t)
      <4>1. task[t].sup \in Supervisors
        BY <3>0, <3>2 DEF StopEnds, IInv, TasksBelong, Belongs
      <4>2. Halted(task[t].sup).state = "stopped"
        BY <4>1 DEF Halted, IInv, TypeOK, Supervisor
      <4> QED BY <3>2, <4>1, <4>2 DEF StopEnds, IInv, TypeOK
    <3> QED BY <2>1, <2>3, <3>1, <3>2, StopQuiet DEF Stop, IInv
  <2>4. ASSUME NEW c \in Clients, Session(c) PROVE Real
    <3>1. CASE HandleClientExit(c)
      BY <3>1, ExitWrites, NamesAssumption
    <3> QED BY <2>4, <3>1 DEF Session, Exit, CloseOnContext, ExitIgnored
  <2> QED BY <2>1, <2>2, <2>3, <2>4, CallerQuiet, RestartQuiet DEF Next, IInv
<1> QED BY <1>1, Invariance, PTL DEF Spec, CrashIsReal
=============================================================================
