--------------------------- MODULE PluginProperties ---------------------------
(* What the supervision of a plugin promises.                              *)
EXTENDS PluginSupervision

(* Every variable has its type.                                            *)
TypeOK ==
  /\ sup \in [Supervisors -> Supervisor]
  /\ child \in [Clients -> Child]
  /\ ended \subseteq Contexts
  /\ task \in [Tasks -> Task]
  /\ tracked \in Supervisors \cup {NoSupervisor}
  /\ enabled \in BOOLEAN
  /\ calls \in 0..MaxCalls

Stopping(s) == \E t \in Callers : task[t].pc \in {"close", "cancel", "halt"} /\ task[t].sup = s

(* The state a supervisor reports agrees with the session it holds,        *)
(* whatever Start, Stop and exit overlap: "running" always has a client,   *)
(* "crashed" and "stopped" never do (Start, Stop, handleClientExit).       *)
StateAgreesWithClient ==
  \A s \in Supervisors :
    /\ sup[s].state = "running" => sup[s].client # NoClient
    /\ sup[s].state \in {"crashed", "stopped"} => sup[s].client = NoClient

(* A session a supervisor holds is watched until its exit is recorded, or  *)
(* a Stop is at work that will drop it: no dead session is left that no    *)
(* goroutine will report (watch, handleClientExit, Stop).                  *)
WatchedUntilRecorded ==
  \A s \in Supervisors :
    sup[s].client # NoClient => child[sup[s].client].watcher = s \/ Stopping(s)

(* A crash is reported only when the session in use has died, never for    *)
(* the late exit of an earlier one (handleClientExit).                     *)
CrashIsReal ==
  [][\A s \in Supervisors :
       sup[s].state # "crashed" /\ sup'[s].state = "crashed" =>
         sup[s].client # NoClient /\ ~child[sup[s].client].alive]_vars

NewChild == \E c \in Clients : ~child[c].alive /\ child'[c].alive

(* A plugin that keeps crashing is given up: children are launched for     *)
(* ever only if crashes keep leaving the window (recordCrashLocked, the    *)
(* circuit breaker).                                                       *)
CrashLoopEnds ==
  \/ <>[][~NewChild]_vars
  \/ []<><<\E s \in Supervisors : WindowSlides(s)>>_vars

-----------------------------------------------------------------------------
(* Goroutines go on; calls to a child end with their deadline, except the  *)
(* handshake of a restart, which has none and ends only with the child.    *)
Fairness ==
  /\ \A c \in Clients :
       /\ WF_vars(CloseOnContext(c))
       /\ WF_vars(ExitIgnored(c) \/ HandleClientExit(c))
  /\ \A t \in Callers :
       /\ WF_vars(Start(t))
       /\ WF_vars(Stop(t))
       /\ WF_vars(TrackSupervisor(t) \/ StartPluginFails(t) \/ DisablePlugin(t))
       /\ WF_vars(InvokeTool(t) \/ ToolReturns(t) \/ CancelUnanswered(t))
  /\ \A s \in Supervisors :
       /\ WF_vars(Restart(s))
       /\ WF_vars(StartRefused(s) \/ StartBegins(s) \/ LaunchFails(s) \/ Launch(s) \/ Publish(s))
       /\ WF_vars(HandshakeFails(s) /\ ~child[task[s].client].alive)

FairSpec == Spec /\ Fairness

(* No supervisor goes on reporting a dead session: its exit is noticed.    *)
DeathNoticed ==
  \A s \in Supervisors : \A c \in Clients :
    sup[s].client = c /\ ~child[c].alive ~> sup[s].client # c

(* So a plugin that dies is always found out, and restarted only so often. *)
CrashesAreAnswered == DeathNoticed /\ CrashLoopEnds

-----------------------------------------------------------------------------
(* A statement of the repository that the code does not keep.              *)

(* plugins_lifecycle_authz.go:109-111: a plugin must be enabled before it  *)
(* can start; supervisor.go:661-662: Stop always closes the process.  So   *)
(* when no caller is at work, a disabled plugin has no running session     *)
(* that is not being closed.                                               *)
DisabledIsDown ==
  ~enabled /\ (\A t \in Callers : task[t].pc = "idle") =>
    \A s \in Supervisors :
      sup[s].state = "running" =>
        \/ ~child[sup[s].client].alive
        \/ child[sup[s].client].context \in ended
=============================================================================
