------------------------------ MODULE Reflection ------------------------------
(***************************************************************************)
(* How an agent's character changes (desktop/reflection_runtime.go,        *)
(* desktop/peer_social_reflection.go, desktop/personality.go, package      *)
(* reflection, storage/sqlite/{persona,relationship,affect_*,peer_social,  *)
(* personalization,reflection_state}.go).  Persona, relationship to the    *)
(* owner, opinion of a peer and affect are append-only chains of versions. *)
(* A turn review reads them, asks a model and appends at most one version  *)
(* to each in one transaction; a social review does the same for the two   *)
(* observers of a completed dialogue; the owner edits the same chains.     *)
(*                                                                         *)
(* A version keeps one trait, a small integer; a model's proposal moves it *)
(* by one.  Evidence, prompts and opinions only decide whether a proposal  *)
(* is refused: that is an Abandon.                                         *)
(***************************************************************************)
EXTENDS Integers, Sequences, FiniteSets

CONSTANTS
  Agents,
  TurnReviews,   \* the background reviews of finished turns
  TurnAgent,     \* [TurnReviews -> Agents]
  SocialReviews, \* the reviews of completed dialogues ...
  Retried,       \* ... and those of them the reconciliation starts
  DialogueOf,    \* [SocialReviews -> Dialogues]
  Dialogues, Observers, \* [Dialogues -> two agents, initiator first]
  Profile,       \* the agent whose profile is open
  Cooldown,      \* of durable updates, in ticks
  MaxTrait, SeedTrait, StoreStep,
  MaxTime, MaxEdits, MaxSwitches, Locks

ASSUME ReflectionAssumption ==
  /\ TurnAgent \in [TurnReviews -> Agents] /\ Retried \subseteq SocialReviews
  /\ TurnReviews \cap SocialReviews = {} /\ TurnReviews \cap (Dialogues \X Agents) = {}
  /\ <<>> \notin TurnReviews \cup SocialReviews   \* nobody is no review
  /\ DialogueOf \in [SocialReviews -> Dialogues]
  /\ Observers \in [Dialogues -> Agents \X Agents]
  /\ \A d \in Dialogues : Observers[d][1] # Observers[d][2]
  /\ Profile \in Agents /\ Cooldown \in Nat /\ MaxTrait \in Nat
  /\ SeedTrait \in 0..MaxTrait /\ StoreStep \in Nat \ {0}
  /\ MaxTime \in Nat /\ MaxEdits \in Nat /\ MaxSwitches \in Nat
  /\ Locks \subseteq {"persona", "owner", "peer", "affect"}

VARIABLES
  history,  \* the version chains, by kind and agent
  policy,   \* the evolution policy of each agent: its mode and locked fields
  auto,     \* config.Persona.AutoEvolution
  record,   \* peer_social_reflections: <<dialogue, observer>>
  review,   \* the reviews' goroutines
  gate,     \* who holds Bridge.reflectionGate
  running,  \* the review each profile's gate of the coordinator lets run
  now, edits, switches

mindVars == <<history, policy, auto, record, review, gate, running, now, edits, switches>>

Kinds == {"persona", "owner", "peer", "affect"}

NoRun == <<>>

Reviews == TurnReviews \cup SocialReviews

Nobody == <<>>

-----------------------------------------------------------------------------
(* Versions.                                                               *)

Version(op, author, at, trait, pinned) ==
  [op |-> op, author |-> author, at |-> at, trait |-> trait, pinned |-> pinned]

Exists(k, a) == history[k][a] # <<>>

HeadOf(k, a) == history[k][a][Len(history[k][a])]

Appended(k, a, v) == [history EXCEPT ![k][a] = Append(@, v)]

PersonaSeed == Version("seed", NoRun, now, SeedTrait, FALSE)

OwnerSeed == Version("seed", NoRun, now, SeedTrait, FALSE)

PeerSeed == Version("seed", NoRun, now, SeedTrait, FALSE)

AffectSeed == Version("seed", NoRun, now, SeedTrait, FALSE)

\* What the store checks of an automatic version against the current one.
PersonaEvolves(a, trait) ==
  LET d == trait - HeadOf("persona", a).trait
  IN  d \in -StoreStep..StoreStep /\ (HeadOf("persona", a).pinned => d = 0)

RelationshipEvolves(k, a, trait) == trait - HeadOf(k, a).trait \in -StoreStep..StoreStep

Evolves(k, a, trait) ==
  CASE k = "persona" -> PersonaEvolves(a, trait)
    [] k = "affect" -> TRUE
    [] OTHER -> RelationshipEvolves(k, a, trait)

\* LastDurableUpdateAt, as the snapshot computes it from two heads.
DurableAt(versions) ==
  LET durable == {v \in versions : v.n > 1 /\ v.author # NoRun}
  IN  IF durable = {} THEN -1
      ELSE CHOOSE t \in {v.at : v \in durable} : \A v \in durable : v.at <= t

-----------------------------------------------------------------------------
(* The reviews.                                                            *)

\* What one pass over one agent reads, in order.
Steps(r) == IF r \in TurnReviews THEN <<"persona", "owner", "affect", "policy">>
            ELSE <<"record", "persona", "affect", "policy", "peer">>

Agent(r) == Head(review[r].left)

RunOf(r) == IF r \in TurnReviews THEN r ELSE <<DialogueOf[r], Agent(r)>>

Proposable(r) == IF r \in TurnReviews THEN {"persona", "owner", "affect"}
                 ELSE {"peer", "affect"}

Unread(pc, left) ==
  [pc |-> pc, left |-> left, seen |-> <<>>, locked |-> {}, paused |-> FALSE,
   decayed |-> FALSE, plan |-> <<>>, at |-> 0]

Unstarted == Unread("idle", <<>>)

\* The version of k the review has read: chains only grow.
SeenVersion(r, k) ==
  LET i == CHOOSE j \in DOMAIN review[r].seen : Steps(r)[j] = k
  IN  review[r].seen[i]

Basis(r, k) == history[k][Agent(r)][SeenVersion(r, k)]

To(r, pc) == [review EXCEPT ![r].pc = pc]

\* The review is done with this agent: a turn review ends and frees the gate,
\* a social review goes on to the other observer.
NextAgent(r) ==
  LET left == Tail(review[r].left)
  IN  Unread(IF left = <<>> THEN "over" ELSE "read", left)

Leave(r) ==
  /\ review' = [review EXCEPT ![r] = NextAgent(r)]
  /\ gate' = IF gate = r THEN Nobody ELSE gate

GateFree == gate = Nobody

\* reflectOnTurn: the switch is on and no other turn is being reviewed.
StartTurnReview(r) ==
  /\ r \in TurnReviews /\ review[r].pc = "idle"
  /\ IF auto /\ GateFree
     THEN /\ gate' = r
          /\ review' = [review EXCEPT ![r].pc = "read", ![r].left = <<TurnAgent[r]>>]
     ELSE review' = To(r, "over") /\ UNCHANGED gate
  /\ UNCHANGED <<history, policy, auto, record, running, now, edits, switches>>

\* reflectOnPeerDialogueParticipants, which the reconciliation calls only for
\* a dialogue that misses a record.
StartSocialReview(r) ==
  /\ r \in SocialReviews /\ review[r].pc = "idle"
  /\ LET d == DialogueOf[r]
         missing == \E i \in {1, 2} : <<d, Observers[d][i]>> \notin record
     IN  review' = IF auto /\ (r \in Retried => missing)
                   THEN [review EXCEPT ![r].pc = "read", ![r].left = Observers[d]]
                   ELSE To(r, "over")
  /\ UNCHANGED <<history, policy, auto, record, gate, running, now, edits, switches>>

Saw(r, n) ==
  review' = [review EXCEPT ![r].seen = Append(@, n),
               ![r].pc = IF Len(review[r].seen) + 1 = Len(Steps(r)) THEN "enter" ELSE "read"]

\* ReflectionEnabled: the agent's own mode, or the switch of the installation.
MayReflect(a) ==
  policy[a].mode = "enabled" \/ (policy[a].mode = "inherit" /\ auto)

ReadPolicy(r) ==
  IF MayReflect(Agent(r))
  THEN /\ review' = [review EXCEPT ![r].seen = Append(@, 0),
                        ![r].locked = policy[Agent(r)].locked,
                        ![r].pc = IF r \in TurnReviews THEN "enter" ELSE "read"]
       /\ UNCHANGED <<history, gate>>
  ELSE Leave(r) /\ UNCHANGED history

\* Whether the dialogue has shaped this observer before.
ReadRecord(r) ==
  IF auto /\ <<DialogueOf[r], Agent(r)>> \notin record
  THEN Saw(r, 0) /\ UNCHANGED <<history, gate>>
  ELSE Leave(r) /\ UNCHANGED history

\* GetOrCreateRelationshipForProfile begins the chain of an opinion.
ReadPeer(r) ==
  /\ IF Exists("peer", Agent(r))
     THEN Saw(r, Len(history["peer"][Agent(r)])) /\ UNCHANGED history
     ELSE Saw(r, 1) /\ history' = Appended("peer", Agent(r), PeerSeed)
  /\ UNCHANGED gate

ReadChain(r, k) ==
  /\ IF Exists(k, Agent(r)) THEN Saw(r, Len(history[k][Agent(r)])) /\ UNCHANGED gate
                            ELSE Leave(r)
  /\ UNCHANGED history

\* One read of the snapshot; what is read is not read again.
Read(r) ==
  /\ review[r].pc = "read"
  /\ LET what == Steps(r)[Len(review[r].seen) + 1]
     IN  CASE what = "record" -> ReadRecord(r)
           [] what = "policy" -> ReadPolicy(r)
           [] what = "peer" -> ReadPeer(r)
           [] OTHER -> ReadChain(r, what)
  /\ UNCHANGED <<policy, auto, record, running, now, edits, switches>>

\* The durable heads of the snapshot, for a turn review.
Heads(r) ==
  {[n |-> SeenVersion(r, k), author |-> Basis(r, k).author, at |-> Basis(r, k).at] :
     k \in {"persona", "owner"} \cap Proposable(r)}

Paused(r) == DurableAt(Heads(r)) # -1 /\ now < DurableAt(Heads(r)) + Cooldown

\* DecayAffect: what was felt weakens with time.
AffectFades(r) == Basis(r, "affect").trait > 0 /\ now > Basis(r, "affect").at

\* Coordinator.acquire: one run per profile; the others wait for its end.
Acquire(r) ==
  /\ review[r].pc = "enter"
  /\ LET a == Agent(r)
     IN  IF running[a] = Nobody
         THEN /\ running' = [running EXCEPT ![a] = r]
              /\ review' = [review EXCEPT ![r].pc = "model", ![r].paused = Paused(r),
                                          ![r].decayed = AffectFades(r)]
         ELSE review' = To(r, "parked") /\ UNCHANGED running
  /\ UNCHANGED <<history, policy, auto, record, gate, now, edits, switches>>

\* close(gate.done): everyone parked at this profile tries again.
Woken(rev, a) ==
  [q \in Reviews |-> IF rev[q].pc = "parked" /\ Head(rev[q].left) = a
                     THEN [rev[q] EXCEPT !.pc = "enter"] ELSE rev[q]]

Release(a) == running' = [running EXCEPT ![a] = Nobody]

\* The kinds a proposal still changes once the cooldown has its way.
Kept(r, kinds) == IF review[r].paused THEN kinds \ {"persona", "owner"} ELSE kinds

\* The trait of k after decay and the step the model proposes.
Projected(r, k, step) ==
  Basis(r, k).trait + step - (IF k = "affect" /\ review[r].decayed THEN 1 ELSE 0)

\* The engine's guards: within the ranges, nothing pinned.
Guarded(r, kinds, step) ==
  /\ \A k \in Kept(r, kinds) : Projected(r, k, step) \in 0..MaxTrait
  /\ "persona" \in Kept(r, kinds) => ~Basis(r, "persona").pinned

\* reflectionMutation, peerSocialMutation: the new trait of every kind to
\* change, decay included, without the kinds the policy that was read locks.
Mutation(r, kinds, step) ==
  LET kept == Kept(r, kinds)
      moved == kept \cup (IF review[r].decayed THEN {"affect"} ELSE {})
  IN  [k \in moved \ review[r].locked |-> Projected(r, k, IF k \in kept THEN step ELSE 0)]

\* The model answers and the coordinator lets the next review in.
Answer(r) ==
  /\ review[r].pc = "model"
  /\ \E kinds \in SUBSET Proposable(r), step \in {-1, 1} :
       /\ Guarded(r, kinds, step)
       /\ review' = Woken([review EXCEPT ![r].pc = "apply", ![r].at = now,
                             ![r].plan = Mutation(r, kinds, step)], Agent(r))
  /\ Release(Agent(r))
  /\ UNCHANGED <<history, policy, auto, record, gate, now, edits, switches>>

\* Every error, panic, timeout or shutdown on the way: the coordinator and the
\* gate are released by deferred calls.
Abandon(r) ==
  /\ review[r].pc \in {"read", "parked", "model", "apply"}
  /\ LET a == Agent(r)
     IN  IF running[a] = r
         THEN /\ Release(a)
              /\ review' = Woken([review EXCEPT ![r] = NextAgent(r)], a)
              /\ gate' = IF gate = r THEN Nobody ELSE gate
         ELSE Leave(r) /\ UNCHANGED running
  /\ UNCHANGED <<history, policy, auto, record, now, edits, switches>>

\* Mutant: nobody compares the versions.
CurrentUnchecked(r, k) == TRUE

\* The optimistic check of one chain.
Current(r, k) == SeenVersion(r, k) = Len(history[k][Agent(r)])

Accepted(r) ==
  \A k \in DOMAIN review[r].plan :
    Current(r, k) /\ Evolves(k, Agent(r), review[r].plan[k])

\* All chains of the plan in one transaction.
Applied(r) ==
  [k \in Kinds |->
     IF k \in DOMAIN review[r].plan
     THEN [history[k] EXCEPT ![Agent(r)] =
             Append(@, Version("update", RunOf(r), review[r].at, review[r].plan[k],
                               HeadOf(k, Agent(r)).pinned))]
     ELSE history[k]]

ApplyReflectionState(r) ==
  /\ r \in TurnReviews /\ review[r].pc = "apply"
  /\ history' = IF Accepted(r) THEN Applied(r) ELSE history
  /\ Leave(r)
  /\ UNCHANGED <<policy, auto, record, running, now, edits, switches>>

Unrecorded(r) == RunOf(r) \notin record

\* PeerSocialRepository.Apply: the record of the dialogue goes with the rest,
\* also when nothing changes.
ApplySocial(r) ==
  /\ r \in SocialReviews /\ review[r].pc = "apply"
  /\ IF Accepted(r) /\ Unrecorded(r)
     THEN history' = Applied(r) /\ record' = record \cup {RunOf(r)}
     ELSE UNCHANGED <<history, record>>
  /\ Leave(r)
  /\ UNCHANGED <<policy, auto, running, now, edits, switches>>

-----------------------------------------------------------------------------
(* The owner, and the bridge on the owner's behalf.                        *)

mind == <<policy, auto, record, review, gate, running, now, switches>>

\* ensurePersonaStateFor: the first chain that is missing gets its seed.
EnsurePersonaState(a) ==
  /\ history' = CASE ~Exists("persona", a) -> Appended("persona", a, PersonaSeed)
                   [] ~Exists("owner", a) -> Appended("owner", a, OwnerSeed)
                   [] OTHER -> Appended("affect", a, AffectSeed)
  /\ ~Exists("affect", a)
  /\ UNCHANGED <<mind, edits>>

\* reconcileInitialOwnerRelationshipSeed.
ReconcileOwnerSeed(a) ==
  /\ Exists("affect", a) /\ Len(history["owner"][a]) = 1 /\ HeadOf("owner", a).op = "legacy"
  /\ history' = Appended("owner", a, [OwnerSeed EXCEPT !.op = "reset"])
  /\ UNCHANGED <<mind, edits>>

\* The owner edits the open profile.  Every edit names the version it has read
\* and fails on another: it is one step.
Edits(k, a, v) ==
  /\ a = Profile /\ edits < MaxEdits /\ edits' = edits + 1
  /\ history' = Appended(k, a, v)
  /\ UNCHANGED mind

\* PinTrait keeps the author of the version it pins a trait of.
SetPersonaTraitPinned(a) ==
  /\ Exists("persona", a)
  /\ LET v == HeadOf("persona", a)
     IN  Edits("persona", a, Version("pin", v.author, now, v.trait, ~v.pinned))

\* A rollback copies an older version, its author and its pins included.
RolledBack(k, a, n) == [history[k][a][n] EXCEPT !.op = "rollback", !.at = now]

RollbackPersona(a) ==
  \E n \in DOMAIN history["persona"][a] : Edits("persona", a, RolledBack("persona", a, n))

RollbackRelationship(a) ==
  \E n \in DOMAIN history["owner"][a] : Edits("owner", a, RolledBack("owner", a, n))

RollbackPeerRelationship(a) ==
  \E n \in DOMAIN history["peer"][a] : Edits("peer", a, RolledBack("peer", a, n))

ResetToFirst(k, a) == [history[k][a][1] EXCEPT !.op = "reset", !.at = now]

ResetPersona(a) ==
  Exists("persona", a) /\ Edits("persona", a, ResetToFirst("persona", a))

ResetPeerRelationship(a) ==
  Exists("peer", a) /\ Edits("peer", a, ResetToFirst("peer", a))

\* The relationship to the owner starts again from the current owner seed.
ResetRelationship(a) ==
  Exists("owner", a) /\ Edits("owner", a, [OwnerSeed EXCEPT !.op = "reset"])

\* UpdateActiveAgentPersonalization: a new version of the policy.
UpdatePolicy(a) ==
  /\ a = Profile /\ switches < MaxSwitches /\ switches' = switches + 1
  /\ \E p \in [mode : {"inherit", "enabled", "disabled"}, locked : SUBSET Locks] :
       p # policy[a] /\ policy' = [policy EXCEPT ![a] = p]
  /\ UNCHANGED <<history, auto, record, review, gate, running, now, edits>>

\* SetPersonaAutoEvolution; a failing audit puts the old value back.
SetPersonaAutoEvolution ==
  /\ switches < MaxSwitches /\ switches' = switches + 1 /\ auto' = ~auto
  /\ UNCHANGED <<history, policy, record, review, gate, running, now, edits>>

Tick ==
  /\ now < MaxTime /\ now' = now + 1
  /\ UNCHANGED <<history, policy, auto, record, review, gate, running, edits, switches>>

-----------------------------------------------------------------------------
\* Agents in `seeded` have their chains, with an owner relationship that
\* predates the owner seed.
MindInitWith(reviews, seeded, at, edited, switched) ==
  /\ history = [k \in Kinds |-> [a \in Agents |->
       IF a \notin seeded \/ k = "peer" THEN <<>>
       ELSE <<Version(IF k = "owner" THEN "legacy" ELSE "seed", NoRun, 0, SeedTrait, FALSE)>>]]
  /\ policy = [a \in Agents |-> [mode |-> "inherit", locked |-> {}]]
  /\ auto = TRUE /\ record = {}
  /\ review = reviews
  /\ gate = Nobody /\ running = [a \in Agents |-> Nobody]
  /\ now = at /\ edits = edited /\ switches = switched

MindInit == MindInitWith([r \in Reviews |-> Unstarted], {}, 0, 0, 0)

MindNext ==
  \/ \E r \in Reviews :
       \/ StartTurnReview(r) \/ StartSocialReview(r) \/ Read(r) \/ Acquire(r)
       \/ Answer(r) \/ Abandon(r) \/ ApplyReflectionState(r) \/ ApplySocial(r)
  \/ \E a \in Agents :
       \/ EnsurePersonaState(a) \/ ReconcileOwnerSeed(a) \/ SetPersonaTraitPinned(a)
       \/ RollbackPersona(a) \/ RollbackRelationship(a) \/ RollbackPeerRelationship(a)
       \/ ResetPersona(a) \/ ResetRelationship(a) \/ ResetPeerRelationship(a)
       \/ UpdatePolicy(a)
  \/ SetPersonaAutoEvolution \/ Tick

MindSpec == MindInit /\ [][MindNext]_mindVars
=============================================================================
