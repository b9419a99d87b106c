-------------------------------- MODULE Memory --------------------------------
(***************************************************************************)
(* What an agent remembers (packages memory and storage/sqlite,            *)
(* desktop/memory_runtime.go, desktop/memories.go,                         *)
(* desktop/peer_dialogue_memory.go).  A memory is a chain of versions with *)
(* a head; every write names the version it was made from and is refused   *)
(* when the head has moved on.  Each chat turn projects the episodes of    *)
(* the owner's seed onto memories, recalls some, and reviews itself in the *)
(* background: idle memories become dormant, new ones are learnt.  The     *)
(* owner edits the same memories and the seed; a finished dialogue leaves  *)
(* one memory to each of its two agents.                                   *)
(*                                                                         *)
(* Only the head of a chain is kept: no step reads an older version.  A    *)
(* write is prepared from rows read before and lands in a later step.      *)
(* Scores, ranking and wording decide which rows a recall returns: any may *)
(* be.  Time is one bit of a row, whether decay would find it too old.     *)
(***************************************************************************)
EXTENDS Naturals, FiniteSets

CONSTANTS
  Turns,       \* chat turns of the agent, each with its background review
  Owner, Deriver, \* the memory window; the derivation of dialogue memories
  Episodes,    \* episodes of the backstory, which are also their memories' ids
  Legacy,      \* the episode an unstructured narrative is cut into
  Facts,       \* ids a review may draw for a new memory
  PeerMemories,\* the ids derived from a dialogue and its participants
  Keys,        \* canonical keys of facts
  Texts, None,
  MaxVersion, MaxSeed, MaxQuits

ASSUME MemoryAssumption ==
  /\ Legacy \in Episodes /\ Texts # {} /\ None \notin Texts
  /\ Cardinality({Owner, Deriver}) = 2 /\ {Owner, Deriver} \cap Turns = {}
  /\ Episodes \cap (Facts \cup PeerMemories) = {} /\ Facts \cap PeerMemories = {}
  /\ MaxVersion \in Nat \ {0} /\ MaxSeed \in Nat \ {0} /\ MaxQuits \in Nat

VARIABLES
  head,   \* the current row of every memory
  seed,   \* the head of the owner's personalization seed
  actor,  \* what every turn, the owner and the deriver is in the middle of
  quits   \* how often somebody was cut off so far

vars == <<head, seed, actor, quits>>

Ids == Episodes \cup Facts \cup PeerMemories
Actors == Turns \cup {Owner, Deriver}
Lives == {"none", "active", "dormant", "deleted"}

-----------------------------------------------------------------------------
(* Rows.                                                                   *)

Row(life, text, key) ==
  [ver |-> IF life = "none" THEN 0 ELSE 1, life |-> life, text |-> text, key |-> key,
   pinned |-> FALSE, shared |-> FALSE, old |-> FALSE]

NoRow == Row("none", None, None)

\* A version made from r: UpdatedAt is now, so decay starts over.
Revised(r) == [r EXCEPT !.ver = @ + 1, !.old = FALSE]

\* A recall counts itself beside the versions.
Touched(r) == [r EXCEPT !.old = FALSE]

WithLife(r, life) == [Revised(r) EXCEPT !.life = life]

Live(r) == r.life \in {"active", "dormant"}

\* ListMemories of a review: the agent's private rows that are not deleted.
Listed(r) == Live(r) /\ ~r.shared

Recallable(r) == r.life = "active"

\* The fiction of the seed never decays (it is permanent), nor a pinned row.
Decays(m) == head[m].life = "active" /\ ~head[m].pinned /\ head[m].old /\ Listed(head[m])
             /\ m \notin Episodes

Dormant(r) == WithLife(r, "dormant")

-----------------------------------------------------------------------------
(* The seed.                                                               *)

Wanted(s) == {e \in Episodes : s.eps[e] # None}

Revision(s, eps, narrative) == [ver |-> s.ver + 1, eps |-> eps, narrative |-> narrative]

\* Every reader of the seed first cuts an unstructured narrative to episodes.
Migrates(s) == s.narrative # None /\ Wanted(s) = {} /\ s.ver < MaxSeed

Migrated(s) ==
  IF Migrates(s) THEN Revision(s, [s.eps EXCEPT ![Legacy] = s.narrative], s.narrative)
  ELSE s

-----------------------------------------------------------------------------
(* Actors.                                                                 *)

NoWrite == <<>>

\* A prepared write: what it becomes, the row it was made from, and whose.
Write(op, m, base, next) == [op |-> op, id |-> m, base |-> base, next |-> next]

Idle == [at |-> "idle", seed |-> None, todo |-> {}, list |-> {},
         recalled |-> {}, write |-> NoWrite]

Becomes(p, a) == actor' = [actor EXCEPT ![p] = a]

Prepare(p, a, w) == Becomes(p, [a EXCEPT !.write = w])

\* The version check of every write: a new memory must not exist, a version
\* must follow the one it was made from.
Fresh(m, base) == head[m].ver = base.ver

Lands(w) == head' = [head EXCEPT ![w.id] = w.next]

-----------------------------------------------------------------------------
(* Hydration: projecting the episodes of a seed that was read before.      *)

Hydrate(s) == [Idle EXCEPT !.at = "episodes", !.seed = s, !.todo = Wanted(s)]

\* A turn without episodes skips hydration, and with it the sweep.
StartTurn(t) ==
  LET s == Migrated(seed) IN
  /\ t \in Turns /\ actor[t].at = "idle"
  /\ seed' = s
  /\ Becomes(t, IF Wanted(s) = {} THEN [Idle EXCEPT !.at = "recall"] ELSE Hydrate(s))
  /\ UNCHANGED <<head, quits>>

EpisodeMemory(e, text) == Row("active", text, e)

\* Mutant: a tombstone is hydrated like any other row.
EpisodeUpdatesTombstones(e, r, text) ==
  CASE r.life = "none" -> {Write("create", e, r, EpisodeMemory(e, text))}
    [] r.life # "deleted" /\ r.text = text -> {}
    [] OTHER -> {Write("update", e, r, [Revised(r) EXCEPT !.text = text, !.life = "active"])}

\* What the hydration of an episode writes over row r: nothing over a
\* tombstone, and nothing when the text is there already.
EpisodeUpdates(e, r, text) ==
  CASE r.life = "none" -> {Write("create", e, r, EpisodeMemory(e, text))}
    [] r.life = "deleted" \/ r.text = text -> {}
    [] OTHER -> {Write("update", e, r, [Revised(r) EXCEPT !.text = text])}

HydrateEpisode(p) ==
  LET a == actor[p]  e == CHOOSE x \in a.todo : TRUE
      writes == EpisodeUpdates(e, head[e], a.seed.eps[e]) IN
  /\ a.at = "episodes" /\ a.write = NoWrite /\ a.todo # {}
  /\ IF writes = {} THEN Becomes(p, [a EXCEPT !.todo = @ \ {e}])
     ELSE \E w \in writes : w.next.ver <= MaxVersion /\ Prepare(p, a, w)
  /\ UNCHANGED <<head, seed, quits>>

\* The memories of episodes the snapshot of the seed does not have.
ListStrays(p) ==
  LET a == actor[p] IN
  /\ a.at = "episodes" /\ a.write = NoWrite /\ a.todo = {}
  /\ Becomes(p, [a EXCEPT !.at = "sweep",
                          !.list = {e \in Episodes : Listed(head[e])} \ Wanted(a.seed)])
  /\ UNCHANGED <<head, seed, quits>>

Tombstone(r) == WithLife(r, "deleted")

SweepStray(p) ==
  LET a == actor[p]  e == CHOOSE x \in a.list : TRUE IN
  /\ a.at = "sweep" /\ a.write = NoWrite /\ a.list # {}
  /\ IF head[e].life = "deleted" THEN Becomes(p, [a EXCEPT !.list = @ \ {e}])
     ELSE /\ head[e].ver < MaxVersion
          /\ Prepare(p, a, Write("sweep", e, head[e], Tombstone(head[e])))
  /\ UNCHANGED <<head, seed, quits>>

Hydrated(p) ==
  /\ actor[p].at = "sweep" /\ actor[p].write = NoWrite /\ actor[p].list = {}
  /\ Becomes(p, IF p = Owner THEN Idle ELSE [Idle EXCEPT !.at = "recall"])
  /\ UNCHANGED <<head, seed, quits>>
-----------------------------------------------------------------------------
(* A turn after its hydration: recall, then the background review.         *)

\* A recall touches what it returns, without a new version.
Recall(t) ==
  /\ actor[t].at = "recall"
  /\ \E S \in SUBSET {m \in Ids : Recallable(head[m])} :
       /\ head' = [m \in Ids |-> IF m \in S THEN Touched(head[m]) ELSE head[m]]
       /\ Becomes(t, [Idle EXCEPT !.at = "decay", !.recalled = S \cap Episodes])
  /\ UNCHANGED <<seed, quits>>

ListIdle(t) ==
  /\ actor[t].at = "decay"
  /\ Becomes(t, [actor[t] EXCEPT !.at = "decaying",
       !.list = {Write("decay", m, head[m], Dormant(head[m])) : m \in {n \in Ids : Decays(n)}}])
  /\ UNCHANGED <<head, seed, quits>>

\* One refused write ends the pass; the review goes on either way.
DecayOne(t) ==
  LET a == actor[t] IN
  /\ a.at = "decaying"
  /\ \E w \in a.list :
       /\ w.next.ver <= MaxVersion
       /\ IF Fresh(w.id, w.base) THEN Lands(w) /\ Becomes(t, [a EXCEPT !.list = @ \ {w}])
          ELSE head' = head /\ Becomes(t, [a EXCEPT !.list = {}])
  /\ UNCHANGED <<seed, quits>>

Decayed(t) ==
  /\ actor[t].at = "decaying" /\ actor[t].list = {}
  /\ Becomes(t, [actor[t] EXCEPT !.at = "learn"])
  /\ UNCHANGED <<head, seed, quits>>

\* Where a candidate of key k belongs: a listed memory of that key.
Matches(k) == {m \in Facts \cup PeerMemories : Listed(head[m]) /\ head[m].key = k}

\* The versions consolidation may make of a row it found: the candidate's text
\* replaces the row's when it is the surer of the two, the row's life stays.
Merged(r, text) == {[Revised(r) EXCEPT !.text = x] : x \in {text, r.text}}

\* An unknown key makes a memory under a new id, a known one merges.
Learnt(k, text) ==
  IF Matches(k) = {}
  THEN {Write("learn", m, head[m], Row("active", text, k)) : m \in {n \in Facts : head[n].ver = 0}}
  ELSE UNION {{Write("learn", m, head[m], r) : r \in Merged(head[m], text)} : m \in Matches(k)}

\* The episodes the turn recalled that may still be interpreted.
Interpretable(t) == {e \in actor[t].recalled : Live(head[e])}

\* What the model extracts: facts, and readings of recalled episodes.
Candidates(t) == Keys \cup Interpretable(t)

Learn(t) ==
  LET a == actor[t] IN
  /\ a.at = "learn" /\ a.write = NoWrite
  /\ \E k \in Candidates(t), text \in Texts : \E w \in Learnt(k, text) :
       w.next.ver <= MaxVersion /\ Prepare(t, a, w)
  /\ UNCHANGED <<head, seed, quits>>

EndReview(t) ==
  /\ actor[t].at = "learn" /\ actor[t].write = NoWrite
  /\ Becomes(t, Idle)
  /\ UNCHANGED <<head, seed, quits>>

-----------------------------------------------------------------------------
(* The owner.                                                              *)

\* The memory window reads a row, then writes it: the text and the pin, ...
OwnerEdits ==
  \E m \in Facts \cup PeerMemories, text \in Texts, pin \in BOOLEAN :
    LET r == head[m] IN
    /\ actor[Owner].at = "idle" /\ r.ver \in 1..(MaxVersion - 1)
    /\ Prepare(Owner, [Idle EXCEPT !.at = "edit"],
                Write("edit", m, r, [Revised(r) EXCEPT !.text = text, !.pinned = pin]))
    /\ UNCHANGED <<head, seed, quits>>

\* ... its life, which a deletion does not touch twice, ...
OwnerSetsLife ==
  \E m \in Facts \cup PeerMemories, life \in Lives \ {"none"} :
    LET r == head[m] IN
    /\ actor[Owner].at = "idle" /\ r.ver \in 1..(MaxVersion - 1)
    /\ r.life # "deleted" \/ life # "deleted"
    /\ Prepare(Owner, [Idle EXCEPT !.at = "edit"],
                Write("life", m, r, WithLife(r, life)))
    /\ UNCHANGED <<head, seed, quits>>

\* ... whether other agents see it ...
OwnerShares ==
  \E m \in Facts \cup PeerMemories :
    LET r == head[m] IN
    /\ actor[Owner].at = "idle" /\ r.ver \in 1..(MaxVersion - 1)
    /\ r.key \notin Episodes
    /\ Prepare(Owner, [Idle EXCEPT !.at = "edit"],
                Write("share", m, r, [Revised(r) EXCEPT !.shared = ~@]))
    /\ UNCHANGED <<head, seed, quits>>

\* ... and, for an episode, only its tombstone, ...
OwnerDisables ==
  \E e \in Episodes :
    /\ actor[Owner].at = "idle" /\ Live(head[e]) /\ head[e].ver < MaxVersion
    /\ Prepare(Owner, [Idle EXCEPT !.at = "edit"],
                Write("disable", e, head[e], Tombstone(head[e])))
    /\ UNCHANGED <<head, seed, quits>>

Rehydrated(r, text) == [WithLife(r, "active") EXCEPT !.text = text]

\* ... or its return with the text of the current seed.
OwnerRehydrates ==
  \E e \in Episodes :
    LET s == Migrated(seed)  r == head[e] IN
    /\ actor[Owner].at = "idle" /\ r.ver \in 1..(MaxVersion - 1)
    /\ e \in Wanted(s) /\ (r.life # "active" \/ r.text # s.eps[e])
    /\ seed' = s
    /\ Prepare(Owner, [Idle EXCEPT !.at = "edit"],
                Write("rehydrate", e, r, Rehydrated(r, s.eps[e])))
    /\ UNCHANGED <<head, quits>>

\* The seed editor: a new version in one transaction with its audit event,
\* then the hydration, whose failure is left to a later turn.
OwnerRevisesSeed ==
  \E eps \in [Episodes -> Texts \cup {None}], narrative \in {seed.narrative, None} :
    LET s == Revision(seed, eps, narrative) IN
    /\ actor[Owner].at = "idle" /\ seed.ver < MaxSeed
    /\ seed' = s
    /\ Becomes(Owner, Hydrate(s))
    /\ UNCHANGED <<head, quits>>

\* Editing an episode's memory edits the seed, which has to have the episode.
OwnerEditsEpisode ==
  \E e \in Episodes, text \in Texts :
    LET s == Migrated(seed)  n == Revision(s, [s.eps EXCEPT ![e] = text], s.narrative) IN
    /\ actor[Owner].at = "idle" /\ head[e].ver > 0 /\ n.ver <= MaxSeed
    /\ e \in Wanted(s) /\ s.eps[e] # text
    /\ seed' = n
    /\ Becomes(Owner, Hydrate(n))
    /\ UNCHANGED <<head, quits>>

-----------------------------------------------------------------------------
(* The memories of a finished dialogue: derived when it ends, and again at *)
(* the next start for what was left over.                                  *)

PeerMemory(m) == Row("active", CHOOSE x \in Texts : TRUE, m)

StartDeriving ==
  /\ actor[Deriver].at = "idle" /\ \E m \in PeerMemories : head[m].ver = 0
  /\ Becomes(Deriver, [Idle EXCEPT !.at = "derive", !.todo = PeerMemories])
  /\ UNCHANGED <<head, seed, quits>>

\* A memory that exists, a deleted one too, is not derived again.
Derivable(m) == head[m].ver = 0

DeriveOne ==
  LET a == actor[Deriver]  m == CHOOSE x \in a.todo : TRUE IN
  /\ a.at = "derive" /\ a.write = NoWrite /\ a.todo # {}
  /\ IF Derivable(m) THEN Prepare(Deriver, a, Write("derive", m, head[m], PeerMemory(m)))
     ELSE Becomes(Deriver, [a EXCEPT !.todo = @ \ {m}])
  /\ UNCHANGED <<head, seed, quits>>

Derived ==
  /\ actor[Deriver].at = "derive" /\ actor[Deriver].write = NoWrite
  /\ actor[Deriver].todo = {} /\ Becomes(Deriver, Idle)
  /\ UNCHANGED <<head, seed, quits>>

-----------------------------------------------------------------------------
(* Writes.                                                                 *)

\* What is left to do once the write of a is in.
Wrote(a) ==
  CASE a.at = "episodes" -> [a EXCEPT !.write = NoWrite, !.todo = @ \ {a.write.id}]
    [] a.at = "sweep" -> [a EXCEPT !.write = NoWrite, !.list = @ \ {a.write.id}]
    [] a.at = "derive" -> [a EXCEPT !.write = NoWrite, !.todo = @ \ {a.write.id}]
    [] a.at = "learn" -> [a EXCEPT !.write = NoWrite]
    [] OTHER -> Idle

\* What is left to do when it was refused.  An episode somebody else created
\* is looked at again, and one that got the very same text is done; any other
\* refusal is an error and ends the actor's work.
Refused(a) ==
  CASE a.write.op = "create" -> [a EXCEPT !.write = NoWrite]
    [] a.write.op = "update" /\ head[a.write.id].text = a.write.next.text -> Wrote(a)
    [] a.write.op = "derive" -> Wrote(a)
    [] OTHER -> Idle

Land(p) ==
  LET a == actor[p] IN
  /\ a.write # NoWrite
  /\ IF Fresh(a.write.id, a.write.base) THEN Lands(a.write) /\ Becomes(p, Wrote(a))
     ELSE head' = head /\ Becomes(p, Refused(a))
  /\ UNCHANGED <<seed, quits>>

-----------------------------------------------------------------------------
(* The world: time passes over a row; a context ends or the program quits. *)

Age ==
  \E m \in Ids :
    /\ head[m].life = "active" /\ ~head[m].old
    /\ head' = [head EXCEPT ![m].old = TRUE]
    /\ UNCHANGED <<seed, actor, quits>>

CutOff(p) ==
  /\ actor[p].at # "idle" /\ quits < MaxQuits
  /\ Becomes(p, Idle) /\ quits' = quits + 1
  /\ UNCHANGED <<head, seed>>

Hydration(p) == HydrateEpisode(p) \/ ListStrays(p) \/ SweepStray(p) \/ Hydrated(p)

Review(t) ==
  Recall(t) \/ ListIdle(t) \/ DecayOne(t) \/ Decayed(t) \/ Learn(t) \/ EndReview(t)

OwnerActs ==
  \/ OwnerEdits \/ OwnerSetsLife \/ OwnerShares \/ OwnerDisables \/ OwnerRehydrates
  \/ OwnerRevisesSeed \/ OwnerEditsEpisode

InitWith(eps, narrative, rows) ==
  /\ head = [m \in Ids |-> IF m \in DOMAIN rows THEN rows[m] ELSE NoRow]
  /\ seed = [ver |-> 1, eps |-> eps, narrative |-> narrative]
  /\ actor = [p \in Actors |-> Idle]
  /\ quits = 0

Init == InitWith([e \in Episodes |-> None], None, <<>>)

Next ==
  \/ \E t \in Turns : StartTurn(t) \/ Review(t)
  \/ \E p \in Turns \cup {Owner} : Hydration(p)
  \/ \E p \in Actors : Land(p) \/ CutOff(p)
  \/ StartDeriving \/ DeriveOne \/ Derived
  \/ OwnerActs \/ Age

Spec == Init /\ [][Next]_vars
=============================================================================
