--------------------------- MODULE MemoryProperties ---------------------------
(* What the versions of a memory protect from the writers that race on it. *)
EXTENDS Memory

Rows ==
  [ver : 0..MaxVersion, life : Lives, text : Texts \cup {None},
   key : Keys \cup Episodes \cup PeerMemories \cup {None},
   pinned : BOOLEAN, shared : BOOLEAN, old : BOOLEAN]

\* The owner's own write is landing.
OwnerLands == actor[Owner].at = "edit" /\ actor'[Owner] = Idle

\* What the owner decides about a memory stands: a background review that
\* listed it before the owner pinned, published or revoked it neither undoes
\* that nor makes a pinned memory dormant (memory/engine_lifecycle.go:14).
OwnerMarksSurvive ==
  [][\A m \in Ids :
       head'[m] # head[m] =>
         \/ OwnerLands
         \/ /\ head'[m].pinned = head[m].pinned /\ head'[m].shared = head[m].shared
            /\ head[m].pinned => (head'[m].life = "dormant" => head[m].life = "dormant")]_vars

\* A deleted memory stays deleted, whoever hydrates, derives or reviews from
\* what it read before, until the owner restores it
\* (memory/backstory.go:224, desktop/peer_dialogue_memory.go:71).
TombstonesHold ==
  [][\A m \in Ids :
       head[m].life = "deleted" => head'[m].life = "deleted" \/ OwnerLands]_vars

\* The rows of a type, and no memory of the seed published or decayed.
MemoryTypeOK ==
  /\ head \in [Ids -> Rows]
  /\ \A m \in Ids : head[m].ver = 0 <=> head[m].life = "none"
  /\ \A e \in Episodes : ~head[e].shared /\ ~head[e].pinned /\ head[e].life # "dormant"
  /\ seed.ver \in 1..MaxSeed

\* docs/ARCHITECTURE.md:138: the episodes absent from the current owner seed
\* get a tombstone.  So a turn's hydration never buries one the seed has.
SweepSparesTheSeed ==
  [][\A e \in Wanted(seed), t \in Turns :
       actor[t].at = "sweep" /\ actor'[t] # actor[t] =>
         (head'[e].life = "deleted" => head[e].life = "deleted")]_vars

\* Memories: what the owner pinned, published, revoked or deleted stays so.
MemoriesHold ==
  []MemoryTypeOK /\ OwnerMarksSurvive /\ TombstonesHold
=============================================================================
