---------------------------- MODULE PeerProperties ----------------------------
(* What dialogues between agents must keep.                                *)
EXTENDS PeerDialogues

Reasons == {"", "semantic", "implicit", "max_turns", "max_tokens"}

RowType ==
  [status : Statuses, version : Nat, turns : Nat, tokens : Nat, reason : Reasons,
   created : 0..MaxTime]

CallerType ==
  [pc : {"idle", "run", "lookup", "cooldown", "trigger", "review", "create", "start", "spent"},
   at : 0..MaxTime]

WorkerType ==
  [pc : Conducting \cup {"none", "leave"}, copy : RowType, attempt : 0..MaxAttempts, spent : Nat,
   cause : {"", "failure", "budget", "context"}, reply : {"", "complete", "continue", "plain"}]

\* The shape of every variable; a row that is stored is a valid one.
PeerTypeOK ==
  /\ row \in [Dialogues -> RowType] /\ \A d \in Dialogues : Valid(row[d])
  /\ messages \in [Dialogues -> 0..MaxTurns + 1]
  /\ turn \in [Turns -> {"open", "created", "queued", "running", "completed", "failed",
                         "cancelled", "over", "lost"}]
  /\ caller \in [Dialogues -> CallerType] /\ worker \in [Dialogues -> WorkerType]
  /\ child \in [Dialogues -> {"none", "created", "queued", "running", "completed", "failed",
                              "cancelled"}]
  /\ registry \subseteq Dialogues /\ cancelled \subseteq Dialogues /\ gate \in BOOLEAN
  /\ now \in 0..MaxTime /\ phase \in {"up", "closing", "down"}
  /\ crashes \in Nat /\ panics \in Nat

Lives == INSTANCE PeerLife WITH rows <- row, PairOf <- [d \in Dialogues |-> Pair(d)]

\* The rows and the transcript that the callers, the conducting goroutines,
\* panics and restarts leave behind are those the store promises (PeerLife).
DialoguesFollowPeerLife == Lives!Spec

\* A goroutine that conducts a dialogue never works from a stale copy: what
\* it saves next is the next version, so no save of a status is lost to a
\* conflict, whatever was cancelled, panicked or restarted in between.
CopyIsCurrent ==
  \A d \in Dialogues :
    worker[d].pc \in Conducting =>
      /\ worker[d].copy.version = row[d].version
      /\ worker[d].copy.status = row[d].status

\* The variables are in order and every conductor's copy is current.
DialoguesHold == PeerTypeOK /\ CopyIsCurrent

\* A pair cools down between two dialogues for the longer of the cooldowns of
\* the two, although each caller checks only its own cooldown, before another
\* caller may write (HasRecentPair against the insert trigger).
PairCoolsDown ==
  [][\A d, e \in Dialogues :
       ( /\ row[d].status = "absent" /\ row'[d].status = "queued"
         /\ e \in SamePair(d) /\ row[e].created <= row'[d].created )
       => \A c \in {CooldownOf(d), CooldownOf(e)} :
            c > 0 => row'[d].created > row[e].created + c]_vars

\* Agents talk unasked no more often than the owner allows: per initiator and
\* day at most DailyLimit times, PolicyCooldown apart, and never in a turn
\* that has opened a dialogue itself.
AutonomyIsRationed ==
  \A d \in Dialogues :
    ( Kind[d] = "auto" /\ row[d].status # "absent" ) =>
      /\ Cardinality({e \in Autonomous(Initiator[d]) :
                        Today(row[e].created) = Today(row[d].created)}) <= DailyLimit
      /\ \A e \in Autonomous(Initiator[d]) \ {d} :
           \/ row[e].created >= row[d].created + PolicyCooldown
           \/ row[d].created >= row[e].created + PolicyCooldown
      /\ \A e \in Dialogues \ {d} :
           Trigger[e] = Trigger[d] /\ Initiator[e] = Initiator[d]
             => row[e].status = "absent"

\* A dialogue that is written comes to an end: no error, cancellation, panic,
\* shutdown or crash leaves its row live, which would lock its pair for good.
DialogueEnds ==
  \A d \in Dialogues : row[d].status \in Live ~> row[d].status \in Final
=============================================================================
