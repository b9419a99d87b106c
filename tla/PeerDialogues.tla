---------------------------- MODULE PeerDialogues ----------------------------
(***************************************************************************)
(* Dialogues between two named agents (desktop/peer_dialogue*.go, domain/  *)
(* peer_dialogue.go, storage/sqlite/peer_dialogues.go and the triggers of  *)
(* migration 000026).  A dialogue is asked for by a tool call of a chat    *)
(* run, by the owner, or by the reviewer of a finished turn; a goroutine   *)
(* of its own then lets the two agents answer in turn, one child run per   *)
(* answer, until a limit or an answer ends it.                             *)
(*                                                                         *)
(* The id of a dialogue is computed from the call that asks for it, so one *)
(* constant Dialogues stands for both.  Each action is one call of the     *)
(* database or of the model; cancellations, the deadline, a shutdown and a *)
(* crash come between any two.                                             *)
(***************************************************************************)
EXTENDS Integers, FiniteSets

CONSTANTS
  Agents, Dialogues, Turns,
  Initiator, Partner,  \* [Dialogues -> Agents]
  Trigger,             \* [Dialogues -> Turns]: the root run that asks
  Kind,                \* [Dialogues -> {"tool", "manual", "auto"}]
  Cooldown,            \* [Agents -> Nat]: the initiator's own budget
  AutoCooldown,        \* cooldown of the default budget
  Lasts,               \* MaxDurationSeconds of every dialogue, in ticks
  MinTurns, MaxTurns, MaxTokens, MaxAttempts,
  Usage,               \* tokens one model call may report
  DailyLimit, PolicyCooldown, DayLength,
  MaxTime, MaxCrashes, MaxPanics

ASSUME DialogueAssumption ==
  /\ Initiator \in [Dialogues -> Agents] /\ Partner \in [Dialogues -> Agents]
  /\ \A d \in Dialogues : Initiator[d] # Partner[d]
  /\ Trigger \in [Dialogues -> Turns]
  /\ Kind \in [Dialogues -> {"tool", "manual", "auto"}]
  /\ Cooldown \in [Agents -> Nat] /\ AutoCooldown \in Nat /\ Lasts \in Nat \ {0}
ASSUME BudgetAssumption ==
  /\ MinTurns \in Nat \ {0} /\ MaxTurns \in Nat /\ MinTurns <= MaxTurns
  /\ MaxTokens \in Nat \ {0} /\ Usage \subseteq Nat /\ MaxAttempts \in Nat \ {0}
  /\ DailyLimit \in Nat \ {0} /\ PolicyCooldown \in Nat /\ DayLength \in Nat \ {0}
  /\ MaxTime \in Nat /\ MaxCrashes \in Nat /\ MaxPanics \in Nat

VARIABLES
  row,       \* peer_dialogues: status, version, turns, tokens, reason, created
  messages,  \* peer_dialogue_messages of each dialogue, the opener included
  turn,      \* the root runs: "open" while they may call tools, then "over"
  caller,    \* the goroutine that asks for each dialogue
  worker,    \* the goroutine that conducts it, with its copy of the row
  child,     \* the agent_runs row of the answer being made
  registry,  \* Bridge.peerDialogueRuns: dialogues that can be cancelled
  cancelled, \* dialogues whose context was cancelled
  gate,      \* is Bridge.peerTriggerGate taken?
  now,
  phase,     \* "up", "closing" after Shutdown, "down"
  crashes, panics

vars == <<row, messages, turn, caller, worker, child, registry, cancelled, gate,
          now, phase, crashes, panics>>
store == <<row, messages, turn, child>>
asking == <<caller, gate>>
working == <<worker, registry>>
world == <<cancelled, now, phase, crashes, panics>>

-----------------------------------------------------------------------------
(* The aggregate.                                                          *)

Live == {"queued", "running", "cancelling"}

Final == {"completed", "failed", "cancelled", "expired"}

Statuses == {"absent"} \cup Live \cup Final

CanTransition(from, to) ==
  \/ from = "queued" /\ to \in {"running", "failed", "cancelled", "expired"}
  \/ from = "running" /\ to \in {"completed", "failed", "cancelling", "expired"}
  \/ from = "cancelling" /\ to \in {"cancelled", "failed"}

\* NewPeerDialogue, before Create gives it its time.
Unwritten ==
  [status |-> "absent", version |-> 0, turns |-> 0, tokens |-> 0, reason |-> "",
   created |-> 0]

\* Transition leaves the aggregate alone when it refuses, and forgets the
\* reason of a dialogue that does not complete.
Moved(old, to) ==
  IF CanTransition(old.status, to)
  THEN [old EXCEPT !.status = to, !.version = @ + 1,
                   !.reason = IF to = "completed" THEN @ ELSE ""]
  ELSE old

\* What Validate demands of every row that is saved.
Valid(r) ==
  /\ r.turns \in 0..MaxTurns /\ r.tokens \in 0..MaxTokens
  /\ r.reason # "" => r.status = "completed"
  /\ r.reason = "semantic" => r.turns >= MinTurns
  /\ r.status = "completed" => r.turns > 0

\* Save: the next version of the stored row, and a valid one.
Accepted(d, new) == new.version = row[d].version + 1 /\ Valid(new)

Saved(d, new) ==
  row' = IF Accepted(d, new) THEN [row EXCEPT ![d] = new] ELSE row

-----------------------------------------------------------------------------
(* Who may talk to whom.                                                   *)

Pair(d) == {Initiator[d], Partner[d]}

CooldownOf(d) == IF Kind[d] = "auto" THEN AutoCooldown ELSE Cooldown[Initiator[d]]

SamePair(d) == {e \in Dialogues : Pair(e) = Pair(d) /\ row[e].status # "absent"}

\* HasRecentPair, as the initiator's own cooldown sees it.
RecentlyTalked(d) ==
  CooldownOf(d) > 0 /\ \E e \in SamePair(d) : row[e].created >= now - CooldownOf(d)

\* The unique index on the live dialogues of a pair.
PairBusy(d) == \E e \in SamePair(d) : row[e].status \in Live

\* The insert trigger: the longer cooldown of the two dialogues counts.
PairCooling(d, at) ==
  \E e \in SamePair(d) :
    LET c == IF CooldownOf(e) > CooldownOf(d) THEN CooldownOf(e) ELSE CooldownOf(d)
    IN  row[e].status \notin Live /\ c > 0 /\ row[e].created >= at - c

(* Mutant: nothing but the tool's own check guards the cooldown.           *)
InsertableUnguarded(d, at) == row[d].status = "absent" /\ ~PairBusy(d)

Insertable(d, at) ==
  row[d].status = "absent" /\ ~PairBusy(d) /\ ~PairCooling(d, at)

Today(t) == t \div DayLength

\* The dialogues ListAutonomousByInitiator gives to the policy.
Autonomous(a) ==
  {d \in Dialogues : Kind[d] = "auto" /\ Initiator[d] = a /\ row[d].status # "absent"}

\* The policy restored from those rows, asked about one more of them.
Allows(a) ==
  /\ Cardinality({d \in Autonomous(a) : Today(row[d].created) = Today(now)}) < DailyLimit
  /\ \A d \in Autonomous(a) : now >= row[d].created + PolicyCooldown

-----------------------------------------------------------------------------
(* Asking.                                                                 *)

Asked(pc, at) == [pc |-> pc, at |-> at]

\* Where a caller goes when it has its answer: an autonomous review and a
\* click come once, a tool call may be made again.
Back(d) == IF Kind[d] = "tool" THEN "idle" ELSE "spent"

To(d, pc) == caller' = [caller EXCEPT ![d].pc = pc]

\* A manual dialogue has a root run of its own, and closes it.
Finish(d, outcome) ==
  turn' = IF Kind[d] = "manual" /\ turn[Trigger[d]] = "running"
          THEN [turn EXCEPT ![Trigger[d]] = outcome] ELSE turn

CallTool(d) ==
  /\ phase # "down" /\ Kind[d] = "tool" /\ caller[d].pc = "idle"
  /\ turn[Trigger[d]] = "open"
  /\ To(d, "lookup")
  /\ UNCHANGED <<store, gate, working, world>>

\* StartPeerDialogue creates the root run and brings it to "running".
StartPeerDialogue(d) ==
  /\ phase # "down" /\ Kind[d] = "manual" /\ caller[d].pc \in {"idle", "run"}
  /\ IF turn[Trigger[d]] = "open"
     THEN turn' = [turn EXCEPT ![Trigger[d]] = "created"] /\ To(d, "run")
     ELSE IF turn[Trigger[d]] = "created"
     THEN turn' = [turn EXCEPT ![Trigger[d]] = "queued"] /\ To(d, "run")
     ELSE turn' = [turn EXCEPT ![Trigger[d]] = "running"] /\ To(d, "lookup")
  /\ UNCHANGED <<row, messages, child, gate, working, world>>

\* Execute: a call that already has its dialogue gets it back.
FindExisting(d) ==
  /\ caller[d].pc = "lookup"
  /\ IF row[d].status # "absent"
     THEN To(d, Back(d)) /\ Finish(d, "completed")
     ELSE To(d, "cooldown") /\ UNCHANGED turn
  /\ UNCHANGED <<row, messages, child, gate, working, world>>

CheckCooldown(d) ==
  /\ caller[d].pc = "cooldown"
  /\ IF RecentlyTalked(d)
     THEN To(d, Back(d)) /\ Finish(d, "failed")
     ELSE caller' = [caller EXCEPT ![d] = Asked("create", now)] /\ UNCHANGED turn
  /\ UNCHANGED <<row, messages, child, gate, working, world>>

Leave(d) == gate' = IF Kind[d] = "auto" THEN FALSE ELSE gate

\* CreatePeerDialogueWithMessage: the row and its opener in one transaction.
Create(d) ==
  /\ caller[d].pc = "create"
  /\ IF Insertable(d, caller[d].at)
     THEN /\ row' = [row EXCEPT ![d] = [Unwritten EXCEPT
               !.status = "queued", !.version = 1, !.created = caller[d].at]]
          /\ messages' = [messages EXCEPT ![d] = 1]
          /\ To(d, "start")
          /\ UNCHANGED <<turn, gate>>
     ELSE /\ To(d, Back(d)) /\ Leave(d) /\ Finish(d, "failed")
          /\ UNCHANGED <<row, messages>>
  /\ UNCHANGED <<child, working, world>>

Begun(d) ==
  [pc |-> "begin", copy |-> row[d], attempt |-> 0, spent |-> 0, cause |-> "",
   reply |-> ""]

\* startPeerDialogue: while the application closes nothing is started.
Start(d) ==
  /\ caller[d].pc = "start"
  /\ IF phase = "closing"
     THEN Saved(d, Moved(row[d], "failed")) /\ Finish(d, "failed") /\ UNCHANGED working
     ELSE /\ worker' = [worker EXCEPT ![d] = Begun(d)]
          /\ registry' = registry \cup {d}
          /\ Finish(d, "completed")
          /\ UNCHANGED row
  /\ To(d, Back(d)) /\ Leave(d)
  /\ UNCHANGED <<messages, child, world>>

\* The caller's context ends before the dialogue is written.
GiveUp(d) ==
  /\ caller[d].pc \in {"run", "lookup", "cooldown", "create", "trigger", "review"}
  /\ To(d, Back(d)) /\ Leave(d) /\ Finish(d, "cancelled")
  /\ UNCHANGED <<row, messages, child, working, world>>

EndTurn(r) ==
  /\ phase # "down" /\ turn[r] = "open"
  /\ \A d \in Dialogues : Trigger[d] = r =>
       Kind[d] # "manual" /\ (Kind[d] = "tool" => caller[d].pc = "idle")
  /\ turn' = [turn EXCEPT ![r] = "over"]
  /\ UNCHANGED <<row, messages, child, asking, working, world>>

\* maybeStartAutonomousPeerDialogue: one review at a time, others are skipped.
ReviewTurn(d) ==
  /\ phase = "up" /\ Kind[d] = "auto" /\ caller[d].pc = "idle"
  /\ turn[Trigger[d]] = "over"
  /\ To(d, IF gate THEN "spent" ELSE "trigger") /\ gate' = TRUE
  /\ UNCHANGED <<store, working, world>>

\* HasByTriggerRun.
Opened(d) ==
  \E e \in Dialogues : /\ Initiator[e] = Initiator[d] /\ Trigger[e] = Trigger[d]
                       /\ row[e].status # "absent"

\* The time of the dialogue is taken here, before the model is asked.
Preflight(d) ==
  /\ caller[d].pc = "trigger"
  /\ IF Opened(d) \/ ~Allows(Initiator[d])
     THEN To(d, "spent") /\ gate' = FALSE
     ELSE caller' = [caller EXCEPT ![d] = Asked("review", now)] /\ UNCHANGED gate
  /\ UNCHANGED <<store, working, world>>

\* The reviewer proposes a dialogue, or none.
Propose(d) ==
  /\ caller[d].pc = "review"
  /\ \/ To(d, "create") /\ UNCHANGED gate
     \/ To(d, "spent") /\ gate' = FALSE
  /\ UNCHANGED <<store, working, world>>

-----------------------------------------------------------------------------
(* Conducting a dialogue.                                                  *)

ExpiresAt(d) == row[d].created + Lasts

Late(d) == now > ExpiresAt(d)

\* The context of a dialogue ends when it is cancelled or at its deadline.
Dead(d) == d \in cancelled \/ now >= ExpiresAt(d)

At(d, pc) == phase # "down" /\ worker[d].pc = pc

Goes(d, pc) == worker' = [worker EXCEPT ![d].pc = pc]

Fails(d) == Goes(d, "fail") /\ UNCHANGED <<store, asking, registry, world>>

\* executePeerDialogue.
Begin(d) ==
  /\ At(d, "begin")
  /\ IF Dead(d) THEN Fails(d)
     ELSE LET new == Moved(worker[d].copy, "running")
          IN  /\ Saved(d, new)
              /\ worker' = [worker EXCEPT ![d].copy = new, ![d].pc = "read"]
              /\ UNCHANGED <<messages, turn, child, asking, registry, world>>

\* ListByDialogue; the last message tells who answers.
ReadMessages(d) ==
  /\ At(d, "read")
  /\ IF Dead(d) THEN Fails(d)
     ELSE /\ worker' = [worker EXCEPT ![d].pc = "open", ![d].attempt = 1, ![d].spent = 0]
          /\ UNCHANGED <<store, asking, registry, world>>

Remaining(d) == MaxTokens - worker[d].copy.tokens - worker[d].spent

Errs(d, cause) == worker' = [worker EXCEPT ![d].pc = "usage", ![d].cause = cause]

\* runPeerDialogueTurn: the run of the answer, row by row until it runs.
OpenRun(d) ==
  /\ At(d, "open")
  /\ IF Remaining(d) <= 0
     THEN Errs(d, "budget") /\ UNCHANGED child
     ELSE IF Dead(d)
     THEN /\ Errs(d, "context")
          /\ child' = [child EXCEPT ![d] =
                         IF @ \in {"created", "queued"} THEN "cancelled" ELSE @]
     ELSE IF child[d] = "created"
     THEN child' = [child EXCEPT ![d] = "queued"] /\ UNCHANGED worker
     ELSE IF child[d] = "queued"
     THEN child' = [child EXCEPT ![d] = "running"] /\ Goes(d, "model")
     ELSE child' = [child EXCEPT ![d] = "created"] /\ UNCHANGED worker
  /\ UNCHANGED <<row, messages, turn, asking, registry, world>>

\* The profiles, the route or the context of the responder cannot be had.
OpenFails(d) ==
  /\ At(d, "open") /\ child[d] \notin {"created", "queued"} /\ Remaining(d) > 0
  /\ Errs(d, "failure")
  /\ UNCHANGED <<store, asking, registry, world>>

Spent(d, tokens) == [worker[d] EXCEPT !.spent = @ + tokens]

\* An answer, well formed: it says whether the dialogue is over, or is plain.
Answer(d) ==
  /\ At(d, "model") /\ ~Dead(d)
  /\ \E tokens \in Usage, reply \in {"complete", "continue", "plain"} :
       /\ tokens <= Remaining(d)
       /\ worker' = [worker EXCEPT ![d] = [Spent(d, tokens) EXCEPT
            !.pc = "answered", !.reply = reply]]
  /\ UNCHANGED <<store, asking, registry, world>>

Retries(d) == worker[d].attempt < MaxAttempts

\* The call fails, answers rubbish, costs too much or takes too long.
AnswerFails(d) ==
  /\ At(d, "model")
  /\ \E tokens \in Usage, cause \in {"failure", "transient", "budget", "context"} :
       /\ cause = "budget" <=> tokens > Remaining(d)
       /\ Dead(d) => cause = "context"
       /\ worker' = [worker EXCEPT ![d] = [Spent(d, tokens) EXCEPT
            !.pc = IF cause = "transient" /\ Retries(d) THEN "pause"
                   ELSE "usage",
            !.cause = IF cause = "transient" THEN "failure" ELSE cause]]
       /\ child' = [child EXCEPT ![d] = IF cause = "context" THEN "cancelled" ELSE "failed"]
  /\ UNCHANGED <<row, messages, turn, asking, registry, world>>

\* The run of an answer is completed; if that is refused it stays running.
CloseRun(d) ==
  /\ At(d, "answered")
  /\ IF Dead(d) THEN Errs(d, "context") /\ UNCHANGED child
     ELSE Goes(d, "append") /\ child' = [child EXCEPT ![d] = "completed"]
  /\ UNCHANGED <<row, messages, turn, asking, registry, world>>

\* runPeerDialogueTurnWithRetry waits before it asks again.
Retry(d) ==
  /\ At(d, "pause")
  /\ IF Dead(d) THEN Errs(d, "context")
     ELSE worker' = [worker EXCEPT ![d].pc = "open", ![d].attempt = @ + 1]
  /\ UNCHANGED <<store, asking, registry, world>>

\* RecordFailedUsage: failed attempts count, as far as the budget reaches.
Charged(d) ==
  LET left == MaxTokens - worker[d].copy.tokens
  IN  IF worker[d].spent < left THEN worker[d].spent ELSE left

Enough(d) == worker[d].copy.turns >= MinTurns

(* Mutant: the charged copy is kept although its save failed.              *)
ChargedCopyAlways(d, saved, new) == new

\* A charge that could not be saved is forgotten.
ChargedCopy(d, saved, new) == IF saved THEN new ELSE worker[d].copy

RecordFailedUsage(d) ==
  /\ At(d, "usage")
  /\ LET old == worker[d].copy
         new == [old EXCEPT !.tokens = @ + Charged(d), !.version = @ + 1]
         kept == ~Dead(d) /\ Charged(d) > 0 /\ Accepted(d, new)
         soft == worker[d].cause = "budget" /\ Enough(d)
     IN  /\ row' = IF kept THEN [row EXCEPT ![d] = new] ELSE row
         /\ worker' = [worker EXCEPT
              ![d].copy = [ChargedCopy(d, kept, new) EXCEPT
                             !.reason = IF soft THEN "max_tokens" ELSE @],
              ![d].pc = IF soft THEN "complete"
                        ELSE IF worker[d].cause = "context" THEN "finish" ELSE "fail"]
  /\ UNCHANGED <<messages, turn, child, asking, registry, world>>

\* Why a dialogue ends after an answer; "" if it goes on.
Ended(r, reply) ==
  IF r.turns >= MaxTurns THEN "max_turns"
  ELSE IF r.tokens >= MaxTokens THEN "max_tokens"
  ELSE IF r.turns >= MinTurns /\ reply = "complete" THEN "semantic"
  ELSE IF r.turns >= MinTurns /\ reply = "plain" THEN "implicit"
  ELSE ""

Taken(d) ==
  [worker[d].copy EXCEPT !.turns = @ + 1, !.tokens = @ + worker[d].spent,
                         !.version = @ + 1]

\* AppendPeerDialogueTurn: the counters and the message in one transaction.
Append(d) ==
  /\ At(d, "append")
  /\ LET new == Taken(d)
         why == Ended(new, worker[d].reply)
     IN  IF Dead(d) \/ ~Accepted(d, new) \/ row[d].status # "running"
            \/ messages[d] # new.turns
         THEN Fails(d)
         ELSE /\ row' = [row EXCEPT ![d] = new]
              /\ messages' = [messages EXCEPT ![d] = @ + 1]
              /\ worker' = [worker EXCEPT
                   ![d].copy = [new EXCEPT !.reason = why],
                   ![d].pc = IF why = "" THEN "read" ELSE "complete"]
              /\ UNCHANGED <<turn, child, asking, registry, world>>

\* Complete and its save.  After it the memories and impressions are derived,
\* under contexts of their own, before the goroutine ends.
Complete(d) ==
  /\ At(d, "complete")
  /\ LET new == Moved(worker[d].copy, "completed")
     IN  IF Dead(d) \/ ~Accepted(d, new)
         THEN Fails(d)
         ELSE /\ row' = [row EXCEPT ![d] = new]
              /\ worker' = [worker EXCEPT ![d].copy = new, ![d].pc = "leave"]
              /\ UNCHANGED <<messages, turn, child, asking, registry, world>>

(* Mutant: an error is saved over the reason of a completion that failed.  *)
FailKeepingReason(d) ==
  /\ At(d, "fail")
  /\ Saved(d, [Moved(worker[d].copy, "failed") EXCEPT !.reason = worker[d].copy.reason])
  /\ Goes(d, "leave")
  /\ UNCHANGED <<messages, turn, child, asking, registry, world>>

\* failPeerDialogue, under a context of its own.
Fail(d) ==
  /\ At(d, "fail")
  /\ Saved(d, Moved(worker[d].copy, "failed"))
  /\ Goes(d, "leave")
  /\ UNCHANGED <<messages, turn, child, asking, registry, world>>

\* finishCancelledOrFailedPeerDialogue: expired, or cancelled in two saves.
FinishCancelled(d) ==
  /\ At(d, "finish")
  /\ LET to == IF worker[d].copy.status = "cancelling" THEN "cancelled"
               ELSE IF Late(d) THEN "expired" ELSE "cancelling"
         new == Moved(worker[d].copy, to)
     IN  /\ Saved(d, new)
         /\ worker' = [worker EXCEPT ![d].copy = new,
                         ![d].pc = IF to = "cancelling" THEN "finish" ELSE "leave"]
  /\ UNCHANGED <<messages, turn, child, asking, registry, world>>

Conducting ==
  {"begin", "read", "open", "model", "answered", "pause", "usage", "append",
   "complete", "fail", "finish"}

\* A panic: the deferred handler reads the row again and fails it.
Panic(d) ==
  /\ panics < MaxPanics /\ phase # "down" /\ worker[d].pc \in Conducting
  /\ panics' = panics + 1
  /\ row' = IF row[d].status \in Live
            THEN [row EXCEPT ![d] = Moved(@, "failed")] ELSE row
  /\ Goes(d, "leave")
  /\ UNCHANGED <<messages, turn, child, asking, registry, cancelled, now, phase, crashes>>

\* The goroutine ends and the dialogue can no longer be cancelled.
Done(d) ==
  /\ At(d, "leave")
  /\ Goes(d, "none") /\ registry' = registry \ {d}
  /\ UNCHANGED <<store, asking, world>>

-----------------------------------------------------------------------------
(* The owner, the clock, the end of the process.                           *)

CancelPeerDialogue(d) ==
  /\ phase # "down" /\ d \in registry /\ cancelled' = cancelled \cup {d}
  /\ UNCHANGED <<store, asking, working, now, phase, crashes, panics>>

Tick ==
  /\ now < MaxTime /\ now' = now + 1
  /\ UNCHANGED <<store, asking, working, cancelled, phase, crashes, panics>>

Shutdown ==
  /\ phase = "up" /\ crashes < MaxCrashes /\ phase' = "closing"
  /\ cancelled' = cancelled \cup registry /\ registry' = {}
  /\ UNCHANGED <<store, asking, worker, now, crashes, panics>>

Idle ==
  [pc |-> "none", copy |-> Unwritten, attempt |-> 0, spent |-> 0, cause |-> "",
   reply |-> ""]

\* The process ends: its goroutines with it.
Stop ==
  /\ phase # "down" /\ crashes < MaxCrashes /\ crashes' = crashes + 1
  /\ phase' = "down"
  /\ worker' = [d \in Dialogues |-> Idle] /\ registry' = {} /\ cancelled' = {}
  /\ gate' = FALSE
  /\ caller' = [d \in Dialogues |-> Asked(
                  IF caller[d].pc \in {"idle", "spent"} THEN caller[d].pc ELSE "spent", 0)]
  /\ turn' = [r \in Turns |-> IF turn[r] = "open" THEN "lost" ELSE turn[r]]
  /\ UNCHANGED <<row, messages, child, now, panics>>

(* Mutant: dialogues that have ended are not left out.                     *)
RecoveredAll(r) ==
  IF r.status = "absent" THEN r
  ELSE [r EXCEPT !.status = "failed", !.version = @ + 1, !.reason = ""]

Recovered(r) ==
  IF r.status = "queued" THEN Moved(r, "cancelled")
  ELSE IF r.status \in Live THEN Moved(r, "failed") ELSE r

\* NewBridge: RecoverInterrupted, in one transaction.
Restart ==
  /\ phase = "down" /\ phase' = "up"
  /\ row' = [d \in Dialogues |-> Recovered(row[d])]
  /\ UNCHANGED <<messages, turn, child, asking, working, cancelled, now, crashes, panics>>

-----------------------------------------------------------------------------
Init ==
  /\ row = [d \in Dialogues |-> Unwritten] /\ messages = [d \in Dialogues |-> 0]
  /\ turn = [r \in Turns |-> "open"]
  /\ caller = [d \in Dialogues |-> Asked("idle", 0)]
  /\ worker = [d \in Dialogues |-> Idle] /\ child = [d \in Dialogues |-> "none"]
  /\ registry = {} /\ cancelled = {} /\ gate = FALSE
  /\ now = 0 /\ phase = "up" /\ crashes = 0 /\ panics = 0

Asks(d) ==
  \/ FindExisting(d) \/ CheckCooldown(d) \/ Create(d) \/ Start(d)
  \/ Preflight(d) \/ Propose(d)

Works(d) ==
  \/ Begin(d) \/ ReadMessages(d) \/ OpenRun(d) \/ Answer(d) \/ AnswerFails(d)
  \/ CloseRun(d) \/ Retry(d) \/ RecordFailedUsage(d) \/ Append(d) \/ Complete(d)
  \/ Fail(d) \/ FinishCancelled(d) \/ Done(d)

Next ==
  \/ \E d \in Dialogues :
       \/ CallTool(d) \/ StartPeerDialogue(d) \/ GiveUp(d) \/ ReviewTurn(d)
       \/ Asks(d) \/ Works(d) \/ OpenFails(d) \/ Panic(d) \/ CancelPeerDialogue(d)
  \/ \E r \in Turns : EndTurn(r)
  \/ Tick \/ Shutdown \/ Stop \/ Restart

Spec == Init /\ [][Next]_vars

\* Goroutines are scheduled, model calls end with their context, and a process
\* that ended is started again.
FairSpec ==
  /\ Spec /\ WF_vars(Restart)
  /\ \A d \in Dialogues : WF_vars(Asks(d)) /\ WF_vars(Works(d))
=============================================================================
