------------------------------ MODULE MindsProofs ------------------------------
(***************************************************************************)
(* Proofs about what the assistant remembers and how reviews change it, for *)
(* any memories, actors, agents, dialogues, turns and kinds of trait.  The *)
(* memories come first: what holds of every row, of every write in flight  *)
(* against the row it was read from, and of every actor between two of its *)
(* writes.  Then the reviews: what holds of a chain of versions, of a      *)
(* review's snapshot against it, and of the gate that lets one review of   *)
(* an agent write at a time.                                               *)
(***************************************************************************)
EXTENDS MemoryProperties, ReflectionProperties, FiniteSetTheorems, TLAPS

-----------------------------------------------------------------------------
(* Memories: rows, what is about to be written over them, and by whom.     *)

AnyRows ==
  [ver : Nat, life : Lives, text : Texts \cup {None},
   key : Keys \cup Episodes \cup PeerMemories \cup {None},
   pinned : BOOLEAN, shared : BOOLEAN, old : BOOLEAN]

Ops == {"create", "update", "sweep", "decay", "learn", "edit", "life", "share", "disable",
        "rehydrate", "derive"}
Writes == [op : Ops, id : Ids, base : AnyRows, next : AnyRows]

Seeds ==
  [ver : 1..MaxSeed, eps : [Episodes -> Texts \cup {None}], narrative : Texts \cup {None}]

Ats == {"idle", "episodes", "sweep", "recall", "decay", "decaying", "learn", "edit", "derive"}
Acts ==
  [at : Ats, seed : Seeds \cup {None}, todo : SUBSET Ids, list : SUBSET (Ids \cup Writes),
   recalled : SUBSET Episodes, write : Writes \cup {NoWrite}]

\* A recall and the passing of time change a row without a new version.
Same(r, q) ==
  r.life = q.life /\ r.text = q.text /\ r.key = q.key /\ r.pinned = q.pinned /\ r.shared = q.shared
Onward(r, q) == r.ver <= q.ver /\ (r.ver = q.ver => Same(r, q))

RowFits(m, r) ==
  /\ r \in AnyRows /\ r.ver <= MaxVersion
  /\ r.ver = 0 <=> r.life = "none"
  /\ r.ver = 0 => ~r.pinned /\ ~r.shared
  /\ m \in Episodes => ~r.shared /\ ~r.pinned /\ r.life # "dormant"

\* A version follows the one it was made from, which the head was or still is.
Proper(w) ==
  /\ w \in Writes /\ w.next.ver = w.base.ver + 1 /\ w.next.life # "none"
  /\ w.id \in Episodes => ~w.next.shared /\ ~w.next.pinned /\ w.next.life # "dormant"
Follows(w, h) == Proper(w) /\ Onward(w.base, h[w.id])

\* Nobody but the owner's window changes what the owner has decided.
Modest(w) ==
  /\ w.next.pinned = w.base.pinned /\ w.next.shared = w.base.shared
  /\ w.base.pinned /\ w.next.life = "dormant" => w.base.life = "dormant"
  /\ w.base.life = "deleted" => w.next.life = "deleted"

ActFits(p, a, h) ==
  /\ a \in Acts /\ (a.at = "edit" => p = Owner)
  /\ a.at = "episodes" => a.seed \in Seeds /\ a.todo \subseteq Episodes
  /\ a.at = "sweep" => a.list \subseteq Episodes
  /\ a.at = "derive" => a.todo \subseteq PeerMemories
  /\ a.at = "decaying" => \A w \in a.list : Follows(w, h) /\ Modest(w)
  /\ a.write # NoWrite => /\ Follows(a.write, h) /\ a.write.next.ver <= MaxVersion
                          /\ a.at # "edit" => Modest(a.write)

MemoryInv ==
  /\ head \in [Ids -> AnyRows] /\ seed \in Seeds /\ actor \in [Actors -> Acts]
  /\ \A m \in Ids : RowFits(m, head[m])
  /\ \A p \in Actors : ActFits(p, actor[p], head)

\* What a step may do to the rows.
Respects ==
  /\ \A m \in Ids :
       head'[m] # head[m] =>
         \/ OwnerLands
         \/ /\ head'[m].pinned = head[m].pinned /\ head'[m].shared = head[m].shared
            /\ head[m].pinned => (head'[m].life = "dormant" => head[m].life = "dormant")
  /\ \A m \in Ids : head[m].life = "deleted" => head'[m].life = "deleted" \/ OwnerLands

-----------------------------------------------------------------------------
(* Rows and writes.                                                        *)

LEMMA RevisedRow ==
  ASSUME NEW r \in AnyRows
  PROVE  /\ Revised(r) \in AnyRows /\ Revised(r).ver = r.ver + 1 /\ Same(Revised(r), r)
<1>1. r.ver + 1 \in Nat
  BY DEF AnyRows
<1> QED
  BY <1>1 DEF AnyRows, Revised, Same

LEMMA TouchedRow ==
  ASSUME NEW r \in AnyRows
  PROVE  Touched(r) \in AnyRows /\ Touched(r).ver = r.ver /\ Same(Touched(r), r)
  BY DEF AnyRows, Touched, Same

LEMMA TextRow ==
  ASSUME NEW r \in AnyRows, NEW text \in Texts \cup {None}
  PROVE  LET n == [Revised(r) EXCEPT !.text = text] IN
           /\ n \in AnyRows /\ n.ver = r.ver + 1 /\ n.life = r.life /\ n.text = text
           /\ n.pinned = r.pinned /\ n.shared = r.shared
<1> DEFINE q == Revised(r)
<1>1. q \in AnyRows /\ q.ver = r.ver + 1 /\ Same(q, r)
  BY RevisedRow
<1> HIDE DEF q
<1>2. [q EXCEPT !.text = text] \in AnyRows
  BY <1>1 DEF AnyRows
<1> QED
  BY <1>1, <1>2 DEF q, Same, AnyRows

LEMMA LifeRow ==
  ASSUME NEW r \in AnyRows, NEW life \in Lives
  PROVE  /\ WithLife(r, life) \in AnyRows /\ WithLife(r, life).ver = r.ver + 1
         /\ WithLife(r, life).life = life /\ WithLife(r, life).pinned = r.pinned
         /\ WithLife(r, life).shared = r.shared
<1> DEFINE q == Revised(r)
<1>1. q \in AnyRows /\ q.ver = r.ver + 1 /\ Same(q, r)
  BY RevisedRow
<1> HIDE DEF q
<1>2. [q EXCEPT !.life = life] \in AnyRows
  BY <1>1 DEF AnyRows
<1> QED
  BY <1>1, <1>2 DEF q, Same, AnyRows, WithLife

LEMMA NewRow ==
  ASSUME NEW text \in Texts \cup {None}, NEW key \in Keys \cup Episodes \cup PeerMemories
  PROVE  LET n == Row("active", text, key) IN
           n \in AnyRows /\ n.ver = 1 /\ n.life = "active" /\ n.text = text /\ ~n.pinned /\ ~n.shared
  BY DEF Row, AnyRows, Lives

LEMMA NoRowIsNew ==
  /\ NoRow \in AnyRows /\ NoRow.ver = 0 /\ NoRow.life = "none" /\ ~NoRow.pinned /\ ~NoRow.shared
  BY DEF NoRow, Row, AnyRows, Lives

LEMMA WriteMade ==
  ASSUME NEW op \in Ops, NEW m \in Ids, NEW base \in AnyRows, NEW next \in AnyRows
  PROVE  LET w == Write(op, m, base, next) IN
           w \in Writes /\ w.op = op /\ w.id = m /\ w.base = base /\ w.next = next
  BY DEF Write, Writes

LEMMA OnwardIsReflexive ==
  ASSUME NEW r \in AnyRows
  PROVE  Onward(r, r)
  BY DEF Onward, Same, AnyRows

LEMMA OnwardIsTransitive ==
  ASSUME NEW r \in AnyRows, NEW q \in AnyRows, NEW s \in AnyRows, Onward(r, q), Onward(q, s)
  PROVE  Onward(r, s)
<1>1. r.ver \in Nat /\ q.ver \in Nat /\ s.ver \in Nat
  BY DEF AnyRows
<1>2. r.ver = s.ver => r.ver = q.ver /\ q.ver = s.ver
  BY <1>1 DEF Onward
<1> QED
  BY <1>1, <1>2 DEF Onward, Same

\* A write that was just prepared from the head.
LEMMA PreparedFits ==
  ASSUME MemoryAssumption, MemoryInv, NEW op \in Ops, NEW m \in Ids, NEW next \in AnyRows,
         next.ver = head[m].ver + 1, next.life # "none",
         m \in Episodes => ~next.shared /\ ~next.pinned /\ next.life # "dormant"
  PROVE  LET w == Write(op, m, head[m], next) IN
           /\ Follows(w, head) /\ w \in Writes /\ w.next = next /\ w.base = head[m] /\ w.id = m /\ w.op = op
<1> DEFINE w == Write(op, m, head[m], next)
<1>1. head[m] \in AnyRows
  BY DEF MemoryInv
<1>2. w \in Writes /\ w.id = m /\ w.base = head[m] /\ w.next = next /\ w.op = op
  BY <1>1, WriteMade
<1> HIDE DEF w
<1>3. Follows(w, head)
  BY <1>1, <1>2, OnwardIsReflexive DEF Follows, Proper
<1> QED
  BY <1>2, <1>3 DEF w

-----------------------------------------------------------------------------
(* Actors.                                                                 *)

LEMMA IdleFits ==
  ASSUME NEW p \in Actors, NEW h
  PROVE  /\ ActFits(p, Idle, h) /\ Idle \in Acts /\ Idle.at = "idle" /\ Idle.write = NoWrite
         /\ Idle.todo = {} /\ Idle.list = {} /\ Idle.recalled = {}
<1>1. Idle \in Acts /\ Idle.at = "idle" /\ Idle.write = NoWrite
      /\ Idle.todo = {} /\ Idle.list = {} /\ Idle.recalled = {}
  BY DEF Idle, Acts, Ats
<1> QED
  BY <1>1 DEF ActFits

\* Somebody who has less to do than before.
LEMMA LighterFits ==
  ASSUME NEW p \in Actors, NEW h, NEW a, ActFits(p, a, h), NEW b \in Acts,
         b.at = a.at, b.seed = a.seed, b.todo \subseteq a.todo, b.list \subseteq a.list,
         b.write \in {NoWrite, a.write}
  PROVE  ActFits(p, b, h)
  BY DEF ActFits

\* Somebody who has begun something with nothing prepared.
LEMMA AtFits ==
  ASSUME NEW p \in Actors, NEW h, NEW a \in Acts, a.write = NoWrite,
         a.at \in {"idle", "recall", "decay", "learn"}
  PROVE  ActFits(p, a, h)
  BY DEF ActFits

LEMMA PrepareFits ==
  ASSUME NEW p \in Actors, NEW h, NEW a, ActFits(p, a, h), NEW w \in Writes, Follows(w, h),
         w.next.ver <= MaxVersion, a.at = "edit" \/ Modest(w)
  PROVE  ActFits(p, [a EXCEPT !.write = w], h)
<1> DEFINE b == [a EXCEPT !.write = w]
<1>1. a \in Acts
  BY DEF ActFits
<1>2. b \in Acts
  BY <1>1 DEF Acts
<1>3. b.at = a.at /\ b.seed = a.seed /\ b.todo = a.todo /\ b.list = a.list /\ b.write = w
  BY <1>1 DEF Acts
<1> HIDE DEF b
<1>4. ActFits(p, b, h)
  BY <1>2, <1>3 DEF ActFits
<1> QED
  BY <1>4 DEF b

LEMMA FitsGoOn ==
  ASSUME MemoryInv, head' \in [Ids -> AnyRows], \A m \in Ids : Onward(head[m], head'[m]),
         NEW q, NEW a, ActFits(q, a, head)
  PROVE  ActFits(q, a, head')
<1>1. ASSUME NEW w, Follows(w, head)
      PROVE  Follows(w, head')
  <2>1. w.id \in Ids /\ w.base \in AnyRows
    BY <1>1 DEF Follows, Proper, Writes
  <2> QED
    BY <1>1, <2>1, OnwardIsTransitive DEF Follows, MemoryInv
<1> QED
  BY <1>1 DEF ActFits

\* The rows go on, and so do the others.
LEMMA ActorsGoOn ==
  ASSUME MemoryInv, NEW p \in Actors, NEW a, Becomes(p, a), ActFits(p, a, head'), seed' \in Seeds,
         head' \in [Ids -> AnyRows], \A m \in Ids : RowFits(m, head'[m]) /\ Onward(head[m], head'[m])
  PROVE  MemoryInv'
<1>1. a \in Acts
  BY DEF ActFits
<1>2. actor' \in [Actors -> Acts] /\ actor'[p] = a /\ \A q \in Actors \ {p} : actor'[q] = actor[q]
  BY <1>1 DEF MemoryInv, Becomes
<1>3. ASSUME NEW q \in Actors
      PROVE  ActFits(q, actor'[q], head')
  <2>1. CASE q = p
    BY <1>2, <2>1
  <2>2. CASE q # p
    BY <1>2, <2>2, FitsGoOn DEF MemoryInv
  <2> QED
    BY <2>1, <2>2
<1> QED
  BY <1>2, <1>3 DEF MemoryInv

\* A step that leaves the rows as they are.
LEMMA ActorMoves ==
  ASSUME MemoryInv, NEW p \in Actors, NEW a, Becomes(p, a), ActFits(p, a, head), seed' \in Seeds,
         head' = head
  PROVE  MemoryInv' /\ Respects
<1>1. \A m \in Ids : RowFits(m, head'[m]) /\ Onward(head[m], head'[m])
  BY OnwardIsReflexive DEF MemoryInv
<1>2. MemoryInv'
  BY <1>1, ActorsGoOn DEF MemoryInv
<1> QED
  BY <1>2 DEF Respects

\* A write that lands on the row it was made from.
LEMMA WriteLands ==
  ASSUME MemoryInv, NEW w, Follows(w, head), w.next.ver <= MaxVersion,
         Fresh(w.id, w.base), Lands(w)
  PROVE  /\ head' \in [Ids -> AnyRows] /\ \A m \in Ids : RowFits(m, head'[m]) /\ Onward(head[m], head'[m])
         /\ Modest(w) => Respects
<1> DEFINE i == w.id
<1>1. /\ i \in Ids /\ w.base \in AnyRows /\ w.next \in AnyRows /\ w.next.ver = w.base.ver + 1
      /\ w.next.life # "none" /\ (i \in Episodes => ~w.next.shared /\ ~w.next.pinned /\ w.next.life # "dormant")
  BY DEF Follows, Proper, Writes
<1>2. head[i] \in AnyRows /\ head[i].ver = w.base.ver /\ Same(w.base, head[i])
  BY <1>1 DEF Follows, Onward, Fresh, MemoryInv
<1>3. head' \in [Ids -> AnyRows] /\ head'[i] = w.next /\ \A m \in Ids \ {i} : head'[m] = head[m]
  BY <1>1 DEF Lands, MemoryInv
<1>4. w.base.ver \in Nat
  BY <1>1 DEF AnyRows
<1>5. RowFits(i, w.next) /\ Onward(head[i], w.next)
  BY <1>1, <1>2, <1>4 DEF RowFits, Onward
<1>6. \A m \in Ids : RowFits(m, head'[m]) /\ Onward(head[m], head'[m])
  BY <1>3, <1>5, OnwardIsReflexive DEF MemoryInv
<1>7. ASSUME Modest(w)
      PROVE  Respects
  <2>1. /\ w.next.pinned = head[i].pinned /\ w.next.shared = head[i].shared
        /\ head[i].pinned /\ w.next.life = "dormant" => head[i].life = "dormant"
        /\ head[i].life = "deleted" => w.next.life = "deleted"
    BY <1>2, <1>7 DEF Modest, Same
  <2> HIDE DEF i
  <2> QED
    BY <1>3, <2>1 DEF Respects
<1> QED
  BY <1>3, <1>6, <1>7


-----------------------------------------------------------------------------
(* Memories: hydration.                                                    *)

LEMMA MigratedIsSeed ==
  ASSUME MemoryAssumption, NEW s \in Seeds
  PROVE  Migrated(s) \in Seeds
<1>1. CASE ~Migrates(s)
  BY <1>1 DEF Migrated
<1>2. CASE Migrates(s)
  <2> DEFINE eps == [s.eps EXCEPT ![Legacy] = s.narrative]
  <2>1. eps \in [Episodes -> Texts \cup {None}] /\ s.narrative \in Texts \cup {None}
    BY DEF MemoryAssumption, Seeds
  <2>2. s.ver + 1 \in 1..MaxSeed
    BY <1>2 DEF MemoryAssumption, Seeds, Migrates
  <2> HIDE DEF eps
  <2>3. Revision(s, eps, s.narrative) \in Seeds
    BY <2>1, <2>2 DEF Revision, Seeds
  <2> QED
    BY <1>2, <2>3 DEF Migrated, eps
<1> QED
  BY <1>1, <1>2

LEMMA HydrateFits ==
  ASSUME NEW p \in Actors, NEW h, NEW s \in Seeds
  PROVE  ActFits(p, Hydrate(s), h)
<1>1. Wanted(s) \subseteq Episodes /\ Wanted(s) \in SUBSET Ids
  BY DEF Wanted, Ids
<1>2. Idle \in Acts /\ Idle.write = NoWrite
  BY IdleFits
<1> DEFINE b == Hydrate(s)
<1>3. b \in Acts /\ b.at = "episodes" /\ b.seed = s /\ b.todo = Wanted(s) /\ b.write = NoWrite
  BY <1>1, <1>2 DEF Hydrate, Acts, Ats
<1> HIDE DEF b
<1>4. ActFits(p, b, h)
  BY <1>1, <1>3 DEF ActFits
<1> QED
  BY <1>4 DEF b

\* Somebody idle who begins, with nothing prepared.
LEMMA BeginsAt ==
  ASSUME NEW p \in Actors, NEW h, NEW at \in {"recall", "decay", "learn"}
  PROVE  ActFits(p, [Idle EXCEPT !.at = at], h)
<1> DEFINE b == [Idle EXCEPT !.at = at]
<1>1. Idle \in Acts /\ Idle.write = NoWrite
  BY IdleFits
<1>2. b \in Acts /\ b.at = at /\ b.write = NoWrite
  BY <1>1 DEF Acts, Ats
<1> HIDE DEF b
<1>3. ActFits(p, b, h)
  BY <1>2, AtFits
<1> QED
  BY <1>3 DEF b

LEMMA ActorsAre ==
  /\ Turns \subseteq Actors /\ Owner \in Actors /\ Deriver \in Actors
  BY DEF Actors

LEMMA StartTurnKeeps ==
  ASSUME MemoryAssumption, MemoryInv, NEW t \in Turns, StartTurn(t)
  PROVE  MemoryInv' /\ Respects
<1> DEFINE s == Migrated(seed)
           a == IF Wanted(s) = {} THEN [Idle EXCEPT !.at = "recall"] ELSE Hydrate(s)
<1>1. s \in Seeds /\ t \in Actors
  BY MigratedIsSeed, ActorsAre DEF MemoryInv
<1>2. ActFits(t, a, head)
  BY <1>1, HydrateFits, BeginsAt
<1>3. Becomes(t, a) /\ seed' = s /\ head' = head
  BY DEF StartTurn
<1> HIDE DEF s, a
<1> QED
  BY <1>1, <1>2, <1>3, ActorMoves

\* What the hydration writes over a row that fits.
LEMMA EpisodeUpdatesFit ==
  ASSUME MemoryAssumption, MemoryInv, NEW e \in Episodes, NEW text \in Texts \cup {None},
         NEW w \in EpisodeUpdates(e, head[e], text)
  PROVE  w \in Writes /\ Follows(w, head) /\ Modest(w)
<1> DEFINE r == head[e]
<1>1. e \in Ids /\ r \in AnyRows /\ RowFits(e, r)
  BY DEF MemoryInv, Ids
<1>2. CASE r.life = "none"
  <2> DEFINE n == EpisodeMemory(e, text)
  <2>1. w = Write("create", e, r, n)
    BY <1>2 DEF EpisodeUpdates
  <2>2. n \in AnyRows /\ n.ver = 1 /\ n.life = "active" /\ ~n.pinned /\ ~n.shared
    BY NewRow DEF EpisodeMemory
  <2>3. r.ver = 0 /\ ~r.pinned /\ ~r.shared
    BY <1>1, <1>2 DEF RowFits
  <2>4. n.pinned \in BOOLEAN /\ n.shared \in BOOLEAN /\ r.pinned \in BOOLEAN /\ r.shared \in BOOLEAN
    BY <1>1, <2>2 DEF AnyRows
  <2>5. "create" \in Ops
    BY DEF Ops
  <2> HIDE DEF n
  <2>6. w \in Writes /\ Follows(w, head) /\ w.next = n /\ w.base = r
    BY <1>1, <2>1, <2>2, <2>3, <2>5, PreparedFits
  <2>7. Modest(w)
    BY <1>2, <2>2, <2>3, <2>4, <2>6 DEF Modest
  <2> QED
    BY <2>6, <2>7
<1>3. CASE r.life # "none"
  <2> DEFINE n == [Revised(r) EXCEPT !.text = text]
  <2>1. r.life # "deleted" /\ w = Write("update", e, r, n)
    BY <1>3 DEF EpisodeUpdates
  <2>2. n \in AnyRows /\ n.ver = r.ver + 1 /\ n.life = r.life /\ n.pinned = r.pinned /\ n.shared = r.shared
    BY <1>1, TextRow
  <2>3. "update" \in Ops
    BY DEF Ops
  <2> HIDE DEF n
  <2>4. w \in Writes /\ Follows(w, head) /\ w.next = n /\ w.base = r
    BY <1>1, <1>3, <2>1, <2>2, <2>3, PreparedFits DEF RowFits
  <2>5. Modest(w)
    BY <2>1, <2>2, <2>4 DEF Modest
  <2> QED
    BY <2>4, <2>5
<1> QED
  BY <1>2, <1>3

LEMMA HydrateEpisodeKeeps ==
  ASSUME MemoryAssumption, MemoryInv, NEW p \in Actors, HydrateEpisode(p)
  PROVE  MemoryInv' /\ Respects
<1> DEFINE a == actor[p]
           e == CHOOSE x \in a.todo : TRUE
           b == [a EXCEPT !.todo = @ \ {e}]
<1>1. /\ a.at = "episodes" /\ a.todo # {} /\ head' = head /\ seed' = seed
      /\ \/ Becomes(p, b)
         \/ \E w \in EpisodeUpdates(e, head[e], a.seed.eps[e]) :
              w.next.ver <= MaxVersion /\ Becomes(p, [a EXCEPT !.write = w])
  BY DEF HydrateEpisode, Prepare
<1>2. ActFits(p, a, head) /\ a \in Acts /\ seed \in Seeds
  BY DEF MemoryInv
<1>3. a.seed \in Seeds /\ a.todo \subseteq Episodes
  BY <1>1, <1>2 DEF ActFits
<1>4. e \in Episodes
  BY <1>1, <1>3
<1>5. a.seed.eps[e] \in Texts \cup {None}
  BY <1>3, <1>4 DEF Seeds
<1> HIDE DEF a, e
<1>6. CASE Becomes(p, b)
  <2>1. b \in Acts /\ b.at = a.at /\ b.seed = a.seed /\ b.todo \subseteq a.todo /\ b.list = a.list /\ b.write = a.write
    BY <1>2 DEF Acts
  <2> HIDE DEF b
  <2>2. ActFits(p, b, head)
    BY <1>2, <2>1, LighterFits
  <2> QED
    BY <1>1, <1>2, <1>6, <2>2, ActorMoves
<1>7. CASE \E w \in EpisodeUpdates(e, head[e], a.seed.eps[e]) :
             w.next.ver <= MaxVersion /\ Becomes(p, [a EXCEPT !.write = w])
  <2>1. PICK w \in EpisodeUpdates(e, head[e], a.seed.eps[e]) :
             w.next.ver <= MaxVersion /\ Becomes(p, [a EXCEPT !.write = w])
    BY <1>7
  <2>2. w \in Writes /\ Follows(w, head) /\ Modest(w)
    BY <1>4, <1>5, EpisodeUpdatesFit
  <2>3. ActFits(p, [a EXCEPT !.write = w], head)
    BY <1>2, <2>1, <2>2, PrepareFits
  <2> QED
    BY <1>1, <1>2, <2>1, <2>3, ActorMoves
<1> QED
  BY <1>1, <1>6, <1>7

LEMMA ListStraysKeeps ==
  ASSUME MemoryAssumption, MemoryInv, NEW p \in Actors, ListStrays(p)
  PROVE  MemoryInv' /\ Respects
<1> DEFINE a == actor[p]
           strays == {e \in Episodes : Listed(head[e])} \ Wanted(a.seed)
           b == [a EXCEPT !.at = "sweep", !.list = strays]
<1>1. a.write = NoWrite /\ head' = head /\ seed' = seed /\ Becomes(p, b)
  BY DEF ListStrays
<1>2. a \in Acts /\ seed \in Seeds
  BY DEF MemoryInv
<1>3. strays \subseteq Episodes /\ strays \in SUBSET (Ids \cup Writes)
  BY DEF Ids
<1> HIDE DEF a, strays
<1>4. b \in Acts /\ b.at = "sweep" /\ b.list = strays /\ b.write = NoWrite
  BY <1>1, <1>2, <1>3 DEF Acts, Ats
<1> HIDE DEF b
<1>5. ActFits(p, b, head)
  BY <1>3, <1>4 DEF ActFits
<1> QED
  BY <1>1, <1>2, <1>5, ActorMoves

LEMMA SweepStrayKeeps ==
  ASSUME MemoryAssumption, MemoryInv, NEW p \in Actors, SweepStray(p)
  PROVE  MemoryInv' /\ Respects
<1> DEFINE a == actor[p]
           e == CHOOSE x \in a.list : TRUE
           b == [a EXCEPT !.list = @ \ {e}]
           n == Tombstone(head[e])
           w == Write("sweep", e, head[e], n)
<1>1. /\ a.at = "sweep" /\ a.list # {} /\ head' = head /\ seed' = seed
      /\ Becomes(p, b) \/ (head[e].ver < MaxVersion /\ Becomes(p, [a EXCEPT !.write = w]))
  BY DEF SweepStray, Prepare
<1>2. ActFits(p, a, head) /\ a \in Acts /\ seed \in Seeds
  BY DEF MemoryInv
<1>3. e \in Episodes
  BY <1>1, <1>2 DEF ActFits
<1>4. e \in Ids /\ head[e] \in AnyRows /\ RowFits(e, head[e])
  BY <1>3 DEF MemoryInv, Ids
<1> HIDE DEF a, e
<1>5. CASE Becomes(p, b)
  <2>1. b \in Acts /\ b.at = a.at /\ b.seed = a.seed /\ b.todo = a.todo /\ b.list \subseteq a.list /\ b.write = a.write
    BY <1>2 DEF Acts
  <2> HIDE DEF b
  <2>2. ActFits(p, b, head)
    BY <1>2, <2>1, LighterFits
  <2> QED
    BY <1>1, <1>2, <1>5, <2>2, ActorMoves
<1>6. CASE head[e].ver < MaxVersion /\ Becomes(p, [a EXCEPT !.write = w])
  <2>1. /\ n \in AnyRows /\ n.ver = head[e].ver + 1 /\ n.life = "deleted"
        /\ n.pinned = head[e].pinned /\ n.shared = head[e].shared
    BY <1>4, LifeRow DEF Tombstone, Lives
  <2>2. n.ver <= MaxVersion
    BY <1>4, <1>6, <2>1 DEF AnyRows, MemoryAssumption
  <2>3. "sweep" \in Ops
    BY DEF Ops
  <2> HIDE DEF n
  <2>4. w \in Writes /\ Follows(w, head) /\ w.next = n /\ w.base = head[e]
    BY <1>3, <1>4, <2>1, <2>3, PreparedFits DEF RowFits
  <2> HIDE DEF w
  <2>5. Modest(w)
    BY <2>1, <2>4 DEF Modest
  <2>6. ActFits(p, [a EXCEPT !.write = w], head)
    BY <1>2, <2>2, <2>4, <2>5, PrepareFits
  <2> QED
    BY <1>1, <1>2, <1>6, <2>6, ActorMoves
<1> QED
  BY <1>1, <1>5, <1>6

LEMMA HydratedKeeps ==
  ASSUME MemoryInv, NEW p \in Actors, Hydrated(p)
  PROVE  MemoryInv' /\ Respects
<1> DEFINE b == IF p = Owner THEN Idle ELSE [Idle EXCEPT !.at = "recall"]
<1>1. Becomes(p, b) /\ head' = head /\ seed' = seed /\ seed \in Seeds
  BY DEF Hydrated, MemoryInv
<1>2. ActFits(p, b, head)
  BY IdleFits, BeginsAt
<1> QED
  BY <1>1, <1>2, ActorMoves


-----------------------------------------------------------------------------
(* Memories: recall, decay and learning.                                   *)

LEMMA RecallKeeps ==
  ASSUME MemoryInv, NEW t \in Actors, Recall(t)
  PROVE  MemoryInv' /\ Respects
<1>1. PICK S \in SUBSET {m \in Ids : Recallable(head[m])} :
        /\ head' = [m \in Ids |-> IF m \in S THEN Touched(head[m]) ELSE head[m]]
        /\ Becomes(t, [Idle EXCEPT !.at = "decay", !.recalled = S \cap Episodes])
  BY DEF Recall
<1> DEFINE R == S \cap Episodes
           b == [Idle EXCEPT !.at = "decay", !.recalled = R]
<1>2. Idle \in Acts /\ Idle.write = NoWrite /\ seed' = seed /\ seed \in Seeds /\ R \in SUBSET Episodes
  BY IdleFits DEF Recall, MemoryInv
<1> HIDE DEF R
<1>3. b \in Acts /\ b.at = "decay" /\ b.write = NoWrite
  BY <1>2 DEF Acts, Ats
<1> HIDE DEF b
<1>4. ActFits(t, b, head')
  BY <1>3, AtFits
<1>5. ASSUME NEW m \in Ids
      PROVE  /\ head'[m] \in AnyRows /\ head'[m].ver = head[m].ver /\ Same(head'[m], head[m])
             /\ RowFits(m, head[m]) /\ head[m] \in AnyRows
  <2>1. head[m] \in AnyRows /\ RowFits(m, head[m])
    BY DEF MemoryInv
  <2>2. Same(head[m], head[m])
    BY DEF Same
  <2>3. Touched(head[m]) \in AnyRows /\ Touched(head[m]).ver = head[m].ver /\ Same(Touched(head[m]), head[m])
    BY <2>1, TouchedRow
  <2> QED
    BY <1>1, <2>1, <2>2, <2>3
<1>6. \A m \in Ids : RowFits(m, head'[m]) /\ Onward(head[m], head'[m])
  BY <1>5 DEF RowFits, Onward, Same, AnyRows
<1>7. head' \in [Ids -> AnyRows]
  BY <1>1, <1>5
<1>8. MemoryInv'
  BY <1>1, <1>2, <1>4, <1>6, <1>7, ActorsGoOn DEF b, R
<1>9. Respects
  BY <1>5 DEF Respects, Same
<1> QED
  BY <1>8, <1>9

LEMMA AgeKeeps ==
  ASSUME MemoryInv, Age
  PROVE  MemoryInv' /\ Respects
<1>1. PICK m \in Ids : head' = [head EXCEPT ![m].old = TRUE]
  BY DEF Age
<1>2. actor' = actor /\ seed' = seed
  BY DEF Age
<1> DEFINE r == head[m]
           q == [r EXCEPT !.old = TRUE]
<1>3. r \in AnyRows /\ head' = [head EXCEPT ![m] = q]
  BY <1>1 DEF MemoryInv
<1> HIDE DEF r
<1>4. q \in AnyRows /\ q.ver = r.ver /\ Same(q, r)
  BY <1>3 DEF AnyRows, Same
<1> HIDE DEF q
<1>5. head' \in [Ids -> AnyRows] /\ head'[m] = q /\ \A n \in Ids \ {m} : head'[n] = head[n]
  BY <1>3, <1>4 DEF MemoryInv
<1>6. \A n \in Ids : RowFits(n, head[n]) /\ head[n] \in AnyRows
  BY DEF MemoryInv
<1>7. RowFits(m, q) /\ Onward(r, q)
  BY <1>3, <1>4, <1>6 DEF RowFits, Onward, Same, AnyRows, r
<1>8. \A n \in Ids : RowFits(n, head'[n]) /\ Onward(head[n], head'[n])
  BY <1>5, <1>6, <1>7, OnwardIsReflexive DEF r
<1>11. \A p \in Actors : ActFits(p, actor'[p], head')
  BY <1>2, <1>5, <1>8, FitsGoOn DEF MemoryInv
<1>12. MemoryInv'
  BY <1>2, <1>5, <1>8, <1>11 DEF MemoryInv
<1>13. Respects
  BY <1>4, <1>5 DEF Respects, Same, r
<1> QED
  BY <1>12, <1>13

LEMMA ListIdleKeeps ==
  ASSUME MemoryAssumption, MemoryInv, NEW t \in Actors, ListIdle(t)
  PROVE  MemoryInv' /\ Respects
<1> DEFINE a == actor[t]
           L == {Write("decay", m, head[m], Dormant(head[m])) : m \in {n \in Ids : Decays(n)}}
           b == [a EXCEPT !.at = "decaying", !.list = L]
<1>1. a.at = "decay" /\ head' = head /\ seed' = seed /\ Becomes(t, b)
  BY DEF ListIdle
<1>2. a \in Acts /\ ActFits(t, a, head) /\ seed \in Seeds
  BY DEF MemoryInv
<1>3. ASSUME NEW m \in Ids, Decays(m)
      PROVE  LET w == Write("decay", m, head[m], Dormant(head[m])) IN
               w \in Writes /\ Follows(w, head) /\ Modest(w)
  <2> DEFINE n == Dormant(head[m])
             w == Write("decay", m, head[m], n)
  <2>1. head[m] \in AnyRows /\ ~head[m].pinned /\ head[m].life = "active" /\ m \notin Episodes
    BY <1>3 DEF MemoryInv, Decays
  <2>2. /\ n \in AnyRows /\ n.ver = head[m].ver + 1 /\ n.life = "dormant"
        /\ n.pinned = head[m].pinned /\ n.shared = head[m].shared
    BY <2>1, LifeRow DEF Dormant, Lives
  <2>3. "decay" \in Ops
    BY DEF Ops
  <2> HIDE DEF n
  <2>4. w \in Writes /\ Follows(w, head) /\ w.next = n /\ w.base = head[m]
    BY <2>1, <2>2, <2>3, PreparedFits
  <2>5. Modest(w)
    BY <2>1, <2>2, <2>4 DEF Modest
  <2> QED
    BY <2>4, <2>5 DEF n
<1>4. \A w \in L : w \in Writes /\ Follows(w, head) /\ Modest(w)
  BY <1>3
<1>5. L \in SUBSET (Ids \cup Writes)
  BY <1>4
<1> HIDE DEF a, L
<1>6. b \in Acts /\ b.at = "decaying" /\ b.list = L /\ b.write = a.write
  BY <1>2, <1>5 DEF Acts, Ats
<1> HIDE DEF b
<1>7. ActFits(t, b, head)
  BY <1>1, <1>2, <1>4, <1>6 DEF ActFits
<1> QED
  BY <1>1, <1>2, <1>7, ActorMoves

LEMMA DecayOneKeeps ==
  ASSUME MemoryAssumption, MemoryInv, NEW t \in Actors, DecayOne(t)
  PROVE  MemoryInv' /\ Respects
<1> DEFINE a == actor[t]
<1>1. a.at = "decaying" /\ seed' = seed /\ seed \in Seeds /\ a \in Acts /\ ActFits(t, a, head)
  BY DEF DecayOne, MemoryInv
<1>2. PICK w \in a.list :
        /\ w.next.ver <= MaxVersion
        /\ \/ Fresh(w.id, w.base) /\ Lands(w) /\ Becomes(t, [a EXCEPT !.list = @ \ {w}])
           \/ head' = head /\ Becomes(t, [a EXCEPT !.list = {}])
  BY DEF DecayOne
<1>3. Follows(w, head) /\ Modest(w)
  BY <1>1 DEF ActFits
<1> HIDE DEF a
<1>4. CASE Fresh(w.id, w.base) /\ Lands(w) /\ Becomes(t, [a EXCEPT !.list = @ \ {w}])
  <2> DEFINE b == [a EXCEPT !.list = @ \ {w}]
  <2>1. /\ head' \in [Ids -> AnyRows] /\ \A m \in Ids : RowFits(m, head'[m]) /\ Onward(head[m], head'[m])
        /\ Respects
    BY <1>2, <1>3, <1>4, WriteLands
  <2>2. b \in Acts /\ b.at = a.at /\ b.seed = a.seed /\ b.todo = a.todo /\ b.list \subseteq a.list /\ b.write = a.write
    BY <1>1 DEF Acts
  <2>3. ActFits(t, a, head')
    BY <1>1, <2>1, FitsGoOn
  <2> HIDE DEF b
  <2>4. ActFits(t, b, head')
    BY <2>2, <2>3, LighterFits
  <2>5. MemoryInv'
    BY <1>1, <1>4, <2>1, <2>4, ActorsGoOn DEF b
  <2> QED
    BY <2>1, <2>5
<1>5. CASE head' = head /\ Becomes(t, [a EXCEPT !.list = {}])
  <2> DEFINE b == [a EXCEPT !.list = {}]
  <2>1. b \in Acts /\ b.at = a.at /\ b.seed = a.seed /\ b.todo = a.todo /\ b.list \subseteq a.list /\ b.write = a.write
    BY <1>1 DEF Acts
  <2> HIDE DEF b
  <2>2. ActFits(t, b, head)
    BY <1>1, <2>1, LighterFits
  <2> QED
    BY <1>1, <1>5, <2>2, ActorMoves DEF b
<1> QED
  BY <1>2, <1>4, <1>5

LEMMA DecayedKeeps ==
  ASSUME MemoryInv, NEW t \in Actors, Decayed(t)
  PROVE  MemoryInv' /\ Respects
<1> DEFINE a == actor[t]
           b == [a EXCEPT !.at = "learn"]
<1>1. a.at = "decaying" /\ head' = head /\ seed' = seed /\ seed \in Seeds /\ a \in Acts /\ ActFits(t, a, head) /\ Becomes(t, b)
  BY DEF Decayed, MemoryInv
<1> HIDE DEF a
<1>2. b \in Acts /\ b.at = "learn" /\ b.write = a.write
  BY <1>1 DEF Acts, Ats
<1> HIDE DEF b
<1>3. ActFits(t, b, head)
  BY <1>1, <1>2 DEF ActFits
<1> QED
  BY <1>1, <1>3, ActorMoves

\* What a review learns, it writes over a private row that lives, or a new one.
LEMMA LearntFits ==
  ASSUME MemoryAssumption, MemoryInv, NEW key \in Keys \cup Episodes, NEW text \in Texts,
         NEW w \in Learnt(key, text)
  PROVE  w \in Writes /\ Follows(w, head) /\ Modest(w)
<1>1. "learn" \in Ops /\ \A m \in Facts \cup PeerMemories : m \in Ids /\ m \notin Episodes
  BY DEF Ops, Ids, MemoryAssumption
<1>2. CASE Matches(key) = {}
  <2>1. PICK m \in Facts : head[m].ver = 0 /\ w = Write("learn", m, head[m], Row("active", text, key))
    BY <1>2 DEF Learnt
  <2> DEFINE n == Row("active", text, key)
  <2>2. n \in AnyRows /\ n.ver = 1 /\ n.life = "active" /\ ~n.pinned /\ ~n.shared
    BY NewRow
  <2>3. RowFits(m, head[m]) /\ head[m] \in AnyRows
    BY <1>1 DEF MemoryInv
  <2>4. ~head[m].pinned /\ ~head[m].shared /\ head[m].life = "none"
    BY <2>1, <2>3 DEF RowFits
  <2>5. n.pinned \in BOOLEAN /\ n.shared \in BOOLEAN /\ head[m].pinned \in BOOLEAN /\ head[m].shared \in BOOLEAN
    BY <2>2, <2>3 DEF AnyRows
  <2> HIDE DEF n
  <2>6. w \in Writes /\ Follows(w, head) /\ w.next = n /\ w.base = head[m]
    BY <1>1, <2>1, <2>2, PreparedFits DEF n
  <2>7. Modest(w)
    BY <2>2, <2>4, <2>5, <2>6 DEF Modest
  <2> QED
    BY <2>6, <2>7
<1>3. CASE Matches(key) # {}
  <2>1. PICK m \in Matches(key) : \E r \in Merged(head[m], text) : w = Write("learn", m, head[m], r)
    BY <1>3 DEF Learnt
  <2>2. /\ m \in Facts \cup PeerMemories /\ Live(head[m]) /\ head[m] \in AnyRows
        /\ m \in Ids /\ m \notin Episodes
    BY <1>1 DEF Matches, Listed, MemoryInv
  <2>3. head[m].text \in Texts \cup {None}
    BY <2>2 DEF AnyRows
  <2>4. PICK x \in Texts \cup {None} : w = Write("learn", m, head[m], [Revised(head[m]) EXCEPT !.text = x])
    BY <2>1, <2>3 DEF Merged
  <2> DEFINE n == [Revised(head[m]) EXCEPT !.text = x]
  <2>5. /\ n \in AnyRows /\ n.ver = head[m].ver + 1 /\ n.life = head[m].life
        /\ n.pinned = head[m].pinned /\ n.shared = head[m].shared
    BY <2>2, TextRow
  <2>6. w = Write("learn", m, head[m], n) /\ n.life # "none"
    BY <2>2, <2>4, <2>5 DEF Live
  <2> HIDE DEF n
  <2>7. w \in Writes /\ Follows(w, head) /\ w.next = n /\ w.base = head[m]
    BY <1>1, <2>2, <2>5, <2>6, PreparedFits
  <2>8. Modest(w)
    BY <2>5, <2>7 DEF Modest
  <2> QED
    BY <2>7, <2>8
<1> QED
  BY <1>2, <1>3

LEMMA LearnKeeps ==
  ASSUME MemoryAssumption, MemoryInv, NEW t \in Actors, Learn(t)
  PROVE  MemoryInv' /\ Respects
<1> DEFINE a == actor[t]
<1>1. a.at = "learn" /\ head' = head /\ seed' = seed /\ seed \in Seeds /\ a \in Acts /\ ActFits(t, a, head)
  BY DEF Learn, MemoryInv
<1>2. PICK key \in Candidates(t), text \in Texts : \E w \in Learnt(key, text) :
        w.next.ver <= MaxVersion /\ Becomes(t, [a EXCEPT !.write = w])
  BY DEF Learn, Prepare
<1>3. PICK w \in Learnt(key, text) : w.next.ver <= MaxVersion /\ Becomes(t, [a EXCEPT !.write = w])
  BY <1>2
<1>4. key \in Keys \cup Episodes
  BY <1>1 DEF Candidates, Interpretable, Acts
<1>5. w \in Writes /\ Follows(w, head) /\ Modest(w)
  BY <1>4, LearntFits
<1>6. ActFits(t, [a EXCEPT !.write = w], head)
  BY <1>1, <1>3, <1>5, PrepareFits
<1> QED
  BY <1>1, <1>3, <1>6, ActorMoves

\* Whoever stops: the end of a review, of a derivation, or being cut off.
LEMMA IdlesKeeps ==
  ASSUME MemoryInv, NEW p \in Actors, Becomes(p, Idle), head' = head, seed' = seed
  PROVE  MemoryInv' /\ Respects
  BY IdleFits, ActorMoves DEF MemoryInv


-----------------------------------------------------------------------------
(* Memories: the owner and the memories of dialogues.                      *)

LEMMA OwnerPrepares ==
  ASSUME MemoryAssumption, MemoryInv, NEW op \in Ops, NEW m \in Ids, NEW next \in AnyRows,
         next.ver = head[m].ver + 1, next.ver <= MaxVersion, next.life # "none",
         m \in Episodes => ~next.shared /\ ~next.pinned /\ next.life # "dormant",
         Prepare(Owner, [Idle EXCEPT !.at = "edit"], Write(op, m, head[m], next)),
         head' = head, seed' \in Seeds
  PROVE  MemoryInv' /\ Respects
<1> DEFINE a == [Idle EXCEPT !.at = "edit"]
           w == Write(op, m, head[m], next)
<1>1. Idle \in Acts /\ Idle.write = NoWrite
  BY IdleFits, ActorsAre
<1>2. a \in Acts /\ a.at = "edit" /\ a.write = NoWrite
  BY <1>1 DEF Acts, Ats
<1>3. Becomes(Owner, [a EXCEPT !.write = w])
  BY DEF Prepare
<1> HIDE DEF a
<1>4. ActFits(Owner, a, head)
  BY <1>2 DEF ActFits
<1>5. w \in Writes /\ Follows(w, head) /\ w.next = next
  BY PreparedFits
<1> HIDE DEF w
<1>6. ActFits(Owner, [a EXCEPT !.write = w], head)
  BY <1>2, <1>4, <1>5, ActorsAre, PrepareFits
<1> QED
  BY <1>3, <1>6, ActorsAre, ActorMoves

\* A memory the owner may edit: written before, with room for a version.
LEMMA OwnedRow ==
  ASSUME MemoryAssumption, MemoryInv, NEW m \in Ids, head[m].ver \in 1..(MaxVersion - 1)
  PROVE  /\ head[m] \in AnyRows /\ head[m].life # "none" /\ head[m].ver + 1 <= MaxVersion
         /\ m \in Episodes => ~head[m].shared /\ ~head[m].pinned /\ head[m].life # "dormant"
<1>1. head[m] \in AnyRows /\ RowFits(m, head[m])
  BY DEF MemoryInv
<1> QED
  BY <1>1 DEF RowFits, MemoryAssumption

LEMMA NoEpisode ==
  ASSUME MemoryAssumption, NEW m \in Facts \cup PeerMemories
  PROVE  m \in Ids /\ m \notin Episodes
  BY DEF MemoryAssumption, Ids

LEMMA OwnerEditsKeeps ==
  ASSUME MemoryAssumption, MemoryInv, OwnerEdits
  PROVE  MemoryInv' /\ Respects
<1>1. PICK m \in Facts \cup PeerMemories, text \in Texts, pin \in BOOLEAN :
        /\ head[m].ver \in 1..(MaxVersion - 1)
        /\ Prepare(Owner, [Idle EXCEPT !.at = "edit"],
                   Write("edit", m, head[m], [Revised(head[m]) EXCEPT !.text = text, !.pinned = pin]))
  BY DEF OwnerEdits
<1>2. head' = head /\ seed' \in Seeds
  BY DEF OwnerEdits, MemoryInv
<1> DEFINE q == Revised(head[m])
           n == [q EXCEPT !.text = text, !.pinned = pin]
<1>3. m \in Ids /\ m \notin Episodes /\ head[m] \in AnyRows /\ head[m].life # "none" /\ head[m].ver + 1 <= MaxVersion
  BY <1>1, NoEpisode, OwnedRow
<1>4. q \in AnyRows /\ q.ver = head[m].ver + 1 /\ q.life = head[m].life
  BY <1>3, RevisedRow DEF Same
<1> HIDE DEF q
<1>5. n \in AnyRows /\ n.ver = q.ver /\ n.life = q.life
  BY <1>4 DEF AnyRows
<1>6. "edit" \in Ops
  BY DEF Ops
<1>7. Prepare(Owner, [Idle EXCEPT !.at = "edit"], Write("edit", m, head[m], n))
  BY <1>1 DEF q
<1> HIDE DEF n
<1> QED
  BY <1>2, <1>3, <1>4, <1>5, <1>6, <1>7, OwnerPrepares

LEMMA OwnerSetsLifeKeeps ==
  ASSUME MemoryAssumption, MemoryInv, OwnerSetsLife
  PROVE  MemoryInv' /\ Respects
<1>1. PICK m \in Facts \cup PeerMemories, life \in Lives \ {"none"} :
        /\ head[m].ver \in 1..(MaxVersion - 1)
        /\ Prepare(Owner, [Idle EXCEPT !.at = "edit"], Write("life", m, head[m], WithLife(head[m], life)))
  BY DEF OwnerSetsLife
<1>2. head' = head /\ seed' \in Seeds /\ "life" \in Ops
  BY DEF OwnerSetsLife, MemoryInv, Ops
<1>3. m \in Ids /\ m \notin Episodes /\ head[m] \in AnyRows /\ head[m].life # "none" /\ head[m].ver + 1 <= MaxVersion
  BY <1>1, NoEpisode, OwnedRow
<1> DEFINE n == WithLife(head[m], life)
<1>4. n \in AnyRows /\ n.ver = head[m].ver + 1 /\ n.life = life
  BY <1>3, LifeRow
<1> HIDE DEF n
<1> QED
  BY <1>1, <1>2, <1>3, <1>4, OwnerPrepares DEF n

LEMMA OwnerSharesKeeps ==
  ASSUME MemoryAssumption, MemoryInv, OwnerShares
  PROVE  MemoryInv' /\ Respects
<1>1. PICK m \in Facts \cup PeerMemories :
        /\ head[m].ver \in 1..(MaxVersion - 1)
        /\ Prepare(Owner, [Idle EXCEPT !.at = "edit"],
                   Write("share", m, head[m], [Revised(head[m]) EXCEPT !.shared = ~@]))
  BY DEF OwnerShares
<1>2. head' = head /\ seed' \in Seeds /\ "share" \in Ops
  BY DEF OwnerShares, MemoryInv, Ops
<1> DEFINE q == Revised(head[m])
           n == [q EXCEPT !.shared = ~@]
<1>3. m \in Ids /\ m \notin Episodes /\ head[m] \in AnyRows /\ head[m].life # "none" /\ head[m].ver + 1 <= MaxVersion
  BY <1>1, NoEpisode, OwnedRow
<1>4. q \in AnyRows /\ q.ver = head[m].ver + 1 /\ q.life = head[m].life
  BY <1>3, RevisedRow DEF Same
<1> HIDE DEF q
<1>5. n \in AnyRows /\ n.ver = q.ver /\ n.life = q.life
  BY <1>4 DEF AnyRows
<1>6. Prepare(Owner, [Idle EXCEPT !.at = "edit"], Write("share", m, head[m], n))
  BY <1>1 DEF q
<1> HIDE DEF n
<1> QED
  BY <1>2, <1>3, <1>4, <1>5, <1>6, OwnerPrepares

LEMMA OwnerDisablesKeeps ==
  ASSUME MemoryAssumption, MemoryInv, OwnerDisables
  PROVE  MemoryInv' /\ Respects
<1>1. PICK m \in Episodes :
        /\ head[m].ver < MaxVersion
        /\ Prepare(Owner, [Idle EXCEPT !.at = "edit"], Write("disable", m, head[m], Tombstone(head[m])))
  BY DEF OwnerDisables
<1>2. head' = head /\ seed' \in Seeds /\ "disable" \in Ops /\ m \in Ids /\ "deleted" \in Lives
  BY DEF OwnerDisables, MemoryInv, Ops, Ids, Lives
<1>3. head[m] \in AnyRows /\ RowFits(m, head[m])
  BY <1>2 DEF MemoryInv
<1> DEFINE n == Tombstone(head[m])
<1>4. /\ n \in AnyRows /\ n.ver = head[m].ver + 1 /\ n.life = "deleted"
      /\ n.pinned = head[m].pinned /\ n.shared = head[m].shared
  BY <1>2, <1>3, LifeRow DEF Tombstone
<1>5. n.ver <= MaxVersion
  BY <1>1, <1>3, <1>4 DEF AnyRows, MemoryAssumption
<1> HIDE DEF n
<1>6. m \in Episodes => ~n.shared /\ ~n.pinned /\ n.life # "dormant"
  BY <1>3, <1>4 DEF RowFits
<1> QED
  BY <1>1, <1>2, <1>4, <1>5, <1>6, OwnerPrepares DEF n

LEMMA OwnerRehydratesKeeps ==
  ASSUME MemoryAssumption, MemoryInv, OwnerRehydrates
  PROVE  MemoryInv' /\ Respects
<1> DEFINE s == Migrated(seed)
<1>1. PICK m \in Episodes :
        /\ head[m].ver \in 1..(MaxVersion - 1) /\ m \in Wanted(s) /\ seed' = s
        /\ Prepare(Owner, [Idle EXCEPT !.at = "edit"],
                   Write("rehydrate", m, head[m], Rehydrated(head[m], s.eps[m])))
  BY DEF OwnerRehydrates
<1>2. head' = head /\ s \in Seeds /\ "rehydrate" \in Ops /\ m \in Ids /\ "active" \in Lives
  BY MigratedIsSeed DEF OwnerRehydrates, MemoryInv, Ops, Ids, Lives
<1> HIDE DEF s
<1>3. /\ head[m] \in AnyRows /\ head[m].ver + 1 <= MaxVersion
      /\ m \in Episodes => ~head[m].shared /\ ~head[m].pinned
  BY <1>1, <1>2, OwnedRow
<1> DEFINE x == s.eps[m]
           q == WithLife(head[m], "active")
           n == [q EXCEPT !.text = x]
<1>4. x \in Texts \cup {None}
  BY <1>2 DEF Seeds
<1>5. /\ q \in AnyRows /\ q.ver = head[m].ver + 1 /\ q.life = "active"
      /\ q.pinned = head[m].pinned /\ q.shared = head[m].shared
  BY <1>2, <1>3, LifeRow
<1> HIDE DEF q, x
<1>6. n \in AnyRows /\ n.ver = q.ver /\ n.life = q.life /\ n.pinned = q.pinned /\ n.shared = q.shared
  BY <1>4, <1>5 DEF AnyRows
<1>7. Prepare(Owner, [Idle EXCEPT !.at = "edit"], Write("rehydrate", m, head[m], n))
  BY <1>1 DEF Rehydrated, q, x
<1> HIDE DEF n
<1>8. m \in Episodes => ~n.shared /\ ~n.pinned /\ n.life # "dormant"
  BY <1>3, <1>5, <1>6
<1> QED
  BY <1>1, <1>2, <1>3, <1>5, <1>6, <1>7, <1>8, OwnerPrepares

LEMMA OwnerRevisesSeedKeeps ==
  ASSUME MemoryAssumption, MemoryInv, OwnerRevisesSeed
  PROVE  MemoryInv' /\ Respects
<1>1. PICK eps \in [Episodes -> Texts \cup {None}], narrative \in {seed.narrative, None} :
        /\ seed' = Revision(seed, eps, narrative)
        /\ Becomes(Owner, Hydrate(Revision(seed, eps, narrative)))
  BY DEF OwnerRevisesSeed
<1>2. head' = head /\ seed.ver < MaxSeed /\ seed \in Seeds
  BY DEF OwnerRevisesSeed, MemoryInv
<1> DEFINE s == Revision(seed, eps, narrative)
<1>3. seed.ver + 1 \in 1..MaxSeed /\ narrative \in Texts \cup {None}
  BY <1>2 DEF Seeds, MemoryAssumption
<1>4. s \in Seeds
  BY <1>3 DEF Revision, Seeds
<1>5. seed' = s /\ Becomes(Owner, Hydrate(s))
  BY <1>1
<1> HIDE DEF s
<1> QED
  BY <1>2, <1>4, <1>5, ActorsAre, HydrateFits, ActorMoves

LEMMA OwnerEditsEpisodeKeeps ==
  ASSUME MemoryAssumption, MemoryInv, OwnerEditsEpisode
  PROVE  MemoryInv' /\ Respects
<1> DEFINE s == Migrated(seed)
<1>1. PICK e \in Episodes, text \in Texts :
        LET n == Revision(s, [s.eps EXCEPT ![e] = text], s.narrative) IN
          n.ver <= MaxSeed /\ seed' = n /\ Becomes(Owner, Hydrate(n))
  BY DEF OwnerEditsEpisode
<1>2. head' = head /\ s \in Seeds
  BY MigratedIsSeed DEF OwnerEditsEpisode, MemoryInv
<1> DEFINE eps == [s.eps EXCEPT ![e] = text]
           n == Revision(s, eps, s.narrative)
<1> HIDE DEF s
<1>3. eps \in [Episodes -> Texts \cup {None}] /\ s.narrative \in Texts \cup {None} /\ s.ver \in 1..MaxSeed
  BY <1>2 DEF Seeds
<1> HIDE DEF eps
<1>4. n.ver = s.ver + 1
  BY DEF Revision
<1>5. n.ver <= MaxSeed /\ seed' = n /\ Becomes(Owner, Hydrate(n))
  BY <1>1 DEF eps
<1>6. s.ver + 1 \in 1..MaxSeed
  BY <1>3, <1>4, <1>5 DEF MemoryAssumption
<1>7. n \in Seeds
  BY <1>3, <1>6 DEF Revision, Seeds
<1> HIDE DEF n
<1> QED
  BY <1>2, <1>5, <1>7, ActorsAre, HydrateFits, ActorMoves

LEMMA StartDerivingKeeps ==
  ASSUME MemoryInv, StartDeriving
  PROVE  MemoryInv' /\ Respects
<1> DEFINE b == [Idle EXCEPT !.at = "derive", !.todo = PeerMemories]
<1>1. Becomes(Deriver, b) /\ head' = head /\ seed' \in Seeds
  BY DEF StartDeriving, MemoryInv
<1>2. Idle \in Acts /\ Idle.write = NoWrite /\ PeerMemories \in SUBSET Ids
  BY IdleFits, ActorsAre DEF Ids
<1>3. b \in Acts /\ b.at = "derive" /\ b.todo = PeerMemories /\ b.write = NoWrite
  BY <1>2 DEF Acts, Ats
<1> HIDE DEF b
<1>4. ActFits(Deriver, b, head)
  BY <1>3 DEF ActFits
<1> QED
  BY <1>1, <1>4, ActorsAre, ActorMoves

LEMMA DeriveOneKeeps ==
  ASSUME MemoryAssumption, MemoryInv, DeriveOne
  PROVE  MemoryInv' /\ Respects
<1> DEFINE a == actor[Deriver]
           m == CHOOSE x \in a.todo : TRUE
           b == [a EXCEPT !.todo = @ \ {m}]
           n == PeerMemory(m)
           w == Write("derive", m, head[m], n)
<1>1. /\ a.at = "derive" /\ a.todo # {} /\ head' = head /\ seed' = seed
      /\ (head[m].ver = 0 /\ Becomes(Deriver, [a EXCEPT !.write = w])) \/ Becomes(Deriver, b)
  BY DEF DeriveOne, Prepare, Derivable
<1>2. ActFits(Deriver, a, head) /\ a \in Acts /\ seed \in Seeds
  BY ActorsAre DEF MemoryInv
<1>3. m \in PeerMemories
  BY <1>1, <1>2 DEF ActFits
<1>4. m \in Ids /\ m \notin Episodes /\ head[m] \in AnyRows /\ RowFits(m, head[m])
  BY <1>3, NoEpisode DEF MemoryInv
<1> HIDE DEF a, m
<1>5. CASE Becomes(Deriver, b)
  <2>1. b \in Acts /\ b.at = a.at /\ b.seed = a.seed /\ b.todo \subseteq a.todo /\ b.list = a.list /\ b.write = a.write
    BY <1>2 DEF Acts
  <2> HIDE DEF b
  <2>2. ActFits(Deriver, b, head)
    BY <1>2, <2>1, ActorsAre, LighterFits
  <2> QED
    BY <1>1, <1>2, <1>5, <2>2, ActorsAre, ActorMoves
<1>6. CASE head[m].ver = 0 /\ Becomes(Deriver, [a EXCEPT !.write = w])
  <2> DEFINE x == CHOOSE y \in Texts : TRUE
  <2>1. x \in Texts \cup {None}
    BY DEF MemoryAssumption
  <2>2. n \in AnyRows /\ n.ver = 1 /\ n.life = "active" /\ ~n.pinned /\ ~n.shared
    BY <1>3, <2>1, NewRow DEF PeerMemory
  <2>3. ~head[m].pinned /\ ~head[m].shared /\ head[m].life = "none"
    BY <1>4, <1>6 DEF RowFits
  <2>4. n.pinned \in BOOLEAN /\ n.shared \in BOOLEAN /\ head[m].pinned \in BOOLEAN /\ head[m].shared \in BOOLEAN
    BY <1>4, <2>2 DEF AnyRows
  <2>5. "derive" \in Ops /\ n.ver <= MaxVersion
    BY <2>2 DEF Ops, MemoryAssumption
  <2> HIDE DEF n
  <2>6. w \in Writes /\ Follows(w, head) /\ w.next = n /\ w.base = head[m]
    BY <1>4, <1>6, <2>2, <2>5, PreparedFits
  <2> HIDE DEF w
  <2>7. Modest(w)
    BY <2>2, <2>3, <2>4, <2>6 DEF Modest
  <2>8. ActFits(Deriver, [a EXCEPT !.write = w], head)
    BY <1>2, <2>5, <2>6, <2>7, ActorsAre, PrepareFits
  <2> QED
    BY <1>1, <1>2, <1>6, <2>8, ActorsAre, ActorMoves
<1> QED
  BY <1>1, <1>5, <1>6

-----------------------------------------------------------------------------
(* Memories: writes land or are refused.                                   *)

LEMMA WroteFits ==
  ASSUME NEW p \in Actors, NEW h, NEW a, ActFits(p, a, h)
  PROVE  ActFits(p, Wrote(a), h) /\ (a.at = "edit" => Wrote(a) = Idle)
<1>1. a \in Acts
  BY DEF ActFits
<1> DEFINE todo == [a EXCEPT !.write = NoWrite, !.todo = @ \ {a.write.id}]
           list == [a EXCEPT !.write = NoWrite, !.list = @ \ {a.write.id}]
           none == [a EXCEPT !.write = NoWrite]
<1>2. /\ todo \in Acts /\ todo.at = a.at /\ todo.seed = a.seed /\ todo.todo \subseteq a.todo
      /\ todo.list = a.list /\ todo.write = NoWrite
  BY <1>1 DEF Acts
<1>3. /\ list \in Acts /\ list.at = a.at /\ list.seed = a.seed /\ list.todo = a.todo
      /\ list.list \subseteq a.list /\ list.write = NoWrite
  BY <1>1 DEF Acts
<1>4. /\ none \in Acts /\ none.at = a.at /\ none.seed = a.seed /\ none.todo = a.todo
      /\ none.list = a.list /\ none.write = NoWrite
  BY <1>1 DEF Acts
<1>5. Wrote(a) \in {todo, list, none, Idle} /\ (a.at = "edit" => Wrote(a) = Idle)
  BY DEF Wrote
<1> HIDE DEF todo, list, none
<1>6. ActFits(p, todo, h) /\ ActFits(p, list, h) /\ ActFits(p, none, h)
  BY <1>2, <1>3, <1>4, LighterFits
<1> QED
  BY <1>5, <1>6, IdleFits

LEMMA RefusedFits ==
  ASSUME NEW p \in Actors, NEW h, NEW a, ActFits(p, a, h)
  PROVE  ActFits(p, Refused(a), h)
<1> DEFINE none == [a EXCEPT !.write = NoWrite]
<1>1. a \in Acts
  BY DEF ActFits
<1>2. /\ none \in Acts /\ none.at = a.at /\ none.seed = a.seed /\ none.todo = a.todo
      /\ none.list = a.list /\ none.write = NoWrite
  BY <1>1 DEF Acts
<1>3. Refused(a) \in {none, Wrote(a), Idle}
  BY DEF Refused
<1> HIDE DEF none
<1>4. ActFits(p, none, h)
  BY <1>2, LighterFits
<1> QED
  BY <1>3, <1>4, WroteFits, IdleFits

LEMMA LandKeeps ==
  ASSUME MemoryAssumption, MemoryInv, NEW p \in Actors, Land(p)
  PROVE  MemoryInv' /\ Respects
<1> DEFINE a == actor[p]
           w == a.write
<1>1. /\ w # NoWrite /\ seed' = seed /\ seed \in Seeds /\ a \in Acts /\ ActFits(p, a, head)
      /\ \/ Fresh(w.id, w.base) /\ Lands(w) /\ Becomes(p, Wrote(a))
         \/ head' = head /\ Becomes(p, Refused(a))
  BY DEF Land, MemoryInv
<1> HIDE DEF a
<1>2. Follows(w, head) /\ w.next.ver <= MaxVersion /\ (a.at # "edit" => Modest(w)) /\ (a.at = "edit" => p = Owner)
  BY <1>1 DEF ActFits
<1>3. CASE Fresh(w.id, w.base) /\ Lands(w) /\ Becomes(p, Wrote(a))
  <2>1. /\ head' \in [Ids -> AnyRows] /\ \A m \in Ids : RowFits(m, head'[m]) /\ Onward(head[m], head'[m])
        /\ Modest(w) => Respects
    BY <1>2, <1>3, WriteLands
  <2>2. ActFits(p, a, head')
    BY <1>1, <2>1, FitsGoOn
  <2>3. ActFits(p, Wrote(a), head') /\ (a.at = "edit" => Wrote(a) = Idle)
    BY <2>2, WroteFits
  <2>4. MemoryInv'
    BY <1>1, <1>3, <2>1, <2>3, ActorsGoOn
  <2>5. CASE a.at = "edit"
    <3>1. p = Owner /\ Becomes(Owner, Idle) /\ actor[Owner].at = "edit"
      BY <1>2, <1>3, <2>3, <2>5 DEF a
    <3>2. OwnerLands
      BY <3>1 DEF OwnerLands, Becomes, MemoryInv
    <3> QED
      BY <2>4, <3>2 DEF Respects
  <2> QED
    BY <1>2, <2>1, <2>4, <2>5
<1>4. CASE head' = head /\ Becomes(p, Refused(a))
  BY <1>1, <1>4, RefusedFits, ActorMoves
<1> QED
  BY <1>1, <1>3, <1>4

-----------------------------------------------------------------------------
(* Memories: every step.                                                   *)

LEMMA MemoryStarts ==
  ASSUME MemoryAssumption, NEW eps \in [Episodes -> Texts \cup {None}], NEW narrative \in Texts \cup {None},
         InitWith(eps, narrative, <<>>)
  PROVE  MemoryInv
<1> DEFINE s == [ver |-> 1, eps |-> eps, narrative |-> narrative]
<1>1. seed = s /\ actor = [p \in Actors |-> Idle] /\ head = [m \in Ids |-> NoRow]
  BY DEF InitWith
<1>2. 1 \in 1..MaxSeed
  BY DEF MemoryAssumption
<1>3. s \in Seeds
  BY <1>2 DEF Seeds
<1>4. \A m \in Ids : RowFits(m, NoRow) /\ NoRow \in AnyRows
  BY NoRowIsNew DEF RowFits, MemoryAssumption
<1>5. head \in [Ids -> AnyRows] /\ \A m \in Ids : RowFits(m, head[m])
  BY <1>1, <1>4
<1>6. actor \in [Actors -> Acts] /\ \A p \in Actors : ActFits(p, actor[p], head)
  BY <1>1, IdleFits
<1> HIDE DEF s
<1> QED
  BY <1>1, <1>3, <1>5, <1>6 DEF MemoryInv

LEMMA MemoryStep ==
  ASSUME MemoryAssumption, MemoryInv, [Next]_vars
  PROVE  MemoryInv' /\ Respects
<1>1. CASE UNCHANGED vars
  <2>1. head' = head /\ seed' = seed /\ actor' = actor
    BY <1>1 DEF vars
  <2> QED
    BY <2>1 DEF MemoryInv, Respects, RowFits, ActFits
<1>2. ASSUME NEW t \in Turns, StartTurn(t) \/ Review(t)
      PROVE  MemoryInv' /\ Respects
  <2>1. t \in Actors
    BY ActorsAre
  <2>2. CASE EndReview(t)
    BY <2>1, <2>2, IdlesKeeps DEF EndReview
  <2> QED
    BY <1>2, <2>1, <2>2, StartTurnKeeps, RecallKeeps, ListIdleKeeps, DecayOneKeeps, DecayedKeeps, LearnKeeps DEF Review
<1>3. ASSUME NEW p \in Turns \cup {Owner}, Hydration(p)
      PROVE  MemoryInv' /\ Respects
  BY <1>3, ActorsAre, HydrateEpisodeKeeps, ListStraysKeeps, SweepStrayKeeps, HydratedKeeps DEF Hydration
<1>4. ASSUME NEW p \in Actors, Land(p) \/ CutOff(p)
      PROVE  MemoryInv' /\ Respects
  <2>1. CASE CutOff(p)
    BY <2>1, IdlesKeeps DEF CutOff
  <2> QED
    BY <1>4, <2>1, LandKeeps
<1>5. CASE Derived
  BY <1>5, ActorsAre, IdlesKeeps DEF Derived
<1>6. CASE OwnerActs
  BY <1>6, OwnerEditsKeeps, OwnerSetsLifeKeeps, OwnerSharesKeeps, OwnerDisablesKeeps, OwnerRehydratesKeeps,
     OwnerRevisesSeedKeeps, OwnerEditsEpisodeKeeps DEF OwnerActs
<1> QED
  BY <1>1, <1>2, <1>3, <1>4, <1>5, <1>6, StartDerivingKeeps, DeriveOneKeeps, AgeKeeps DEF Next

LEMMA MemoryTyped ==
  ASSUME MemoryInv
  PROVE  MemoryTypeOK
<1>1. ASSUME NEW m \in Ids
      PROVE  head[m] \in Rows
  <2> DEFINE r == head[m]
  <2>1. r \in AnyRows /\ r.ver <= MaxVersion
    BY DEF MemoryInv, RowFits
  <2> HIDE DEF r
  <2>2. r.ver \in 0..MaxVersion
    BY <2>1 DEF AnyRows
  <2>3. r \in Rows
    BY <2>1, <2>2 DEF AnyRows, Rows
  <2> QED
    BY <2>3 DEF r
<1>2. head \in [Ids -> Rows]
  BY <1>1 DEF MemoryInv
<1>3. /\ \A m \in Ids : head[m].ver = 0 <=> head[m].life = "none"
      /\ \A e \in Episodes : ~head[e].shared /\ ~head[e].pinned /\ head[e].life # "dormant"
  BY DEF MemoryInv, RowFits, Ids
<1> QED
  BY <1>2, <1>3 DEF MemoryTypeOK, MemoryInv, Seeds

\* What the owner pinned, published, revoked or deleted stays so, however many
\* turns, reviews, derivations and edits overlap and wherever they are cut off:
\* a write lands only on the row it was made from (storage/sqlite/memory_write.go,
\* desktop/memory_adapter.go, memory/engine_lifecycle.go, memory/backstory.go).
THEOREM MemoriesKept ==
  ASSUME MemoryAssumption
  PROVE  Spec => MemoriesHold
<1>1. Init => MemoryInv
  BY MemoryStarts DEF Init
<1>2. MemoryInv /\ [Next]_vars => MemoryInv' /\ Respects
  BY MemoryStep
<1>3. MemoryInv => MemoryTypeOK
  BY MemoryTyped
<1> QED
  BY <1>1, <1>2, <1>3, PTL DEF Spec, MemoriesHold, OwnerMarksSurvive, TombstonesHold, Respects

\* The same of an agent whose owner has told its backstory already, in episodes
\* or in one piece.
THEOREM MemoriesKeptOfASeed ==
  ASSUME MemoryAssumption, NEW eps \in [Episodes -> Texts \cup {None}], NEW narrative \in Texts \cup {None}
  PROVE  InitWith(eps, narrative, <<>>) /\ [][Next]_vars => MemoriesHold
<1>1. InitWith(eps, narrative, <<>>) => MemoryInv
  BY MemoryStarts
<1>2. MemoryInv /\ [Next]_vars => MemoryInv' /\ Respects
  BY MemoryStep
<1>3. MemoryInv => MemoryTypeOK
  BY MemoryTyped
<1> QED
  BY <1>1, <1>2, <1>3, PTL DEF MemoriesHold, OwnerMarksSurvive, TombstonesHold, Respects

-----------------------------------------------------------------------------
(* Reviews: versions, what a review has read of them, and who waits.       *)

Writers == {NoRun} \cup TurnReviews \cup (Dialogues \X Agents)
Versions ==
  [op : {"seed", "legacy", "update", "pin", "rollback", "reset"}, author : Writers,
   at : 0..MaxTime, trait : 0..MaxTrait, pinned : BOOLEAN]

Working == {"read", "enter", "parked", "model", "apply"}
Lefts == {<<>>} \cup {<<a>> : a \in Agents} \cup (Agents \X Agents)
Passes ==
  [pc : Working \cup {"idle", "over"}, left : Lefts, seen : Seq(Nat), locked : SUBSET Kinds,
   paused : BOOLEAN, decayed : BOOLEAN, plan : {<<>>} \cup UNION {[K -> Int] : K \in SUBSET Kinds},
   at : 0..MaxTime]

Policies == [mode : {"inherit", "enabled", "disabled"}, locked : SUBSET Locks]

\* Where in its snapshot a review has a kind.
KindsRead(r) == IF r \in TurnReviews THEN {"persona", "owner", "affect"} ELSE {"persona", "affect", "peer"}
Pos(r, k) ==
  IF r \in TurnReviews THEN IF k = "persona" THEN 1 ELSE IF k = "owner" THEN 2 ELSE 3
  ELSE IF k = "persona" THEN 2 ELSE IF k = "affect" THEN 3 ELSE 5
SeenIn(r, v, k) == v.seen[Pos(r, k)]
ReadIn(r, v, h, k) == h[k][Head(v.left)][SeenIn(r, v, k)]
Durables == {"persona", "owner"}

\* A snapshot holds versions that are there; of persona and owner relationship
\* only the owner adds to them, while a turn's review is under way.
SnapshotFits(r, v, h) ==
  /\ v.left # <<>> /\ (r \in TurnReviews => Tail(v.left) = <<>>) /\ Len(v.seen) <= Len(Steps(r))
  /\ v.pc = "read" <=> Len(v.seen) < Len(Steps(r))
  /\ \A k \in KindsRead(r) : Pos(r, k) <= Len(v.seen) => SeenIn(r, v, k) \in 1..Len(h[k][Head(v.left)])
  /\ r \in TurnReviews => \A j \in Durables :
       LET chain == h[j][Head(v.left)] IN
       Pos(r, j) <= Len(v.seen) /\ chain[Len(chain)].op = "update" => SeenIn(r, v, j) = Len(chain)

\* No durable version the review has read is within its cooldown at t.
Cooled(r, v, h, t) ==
  r \in TurnReviews => \A j \in Durables :
    ReadIn(r, v, h, j).op = "update" => ReadIn(r, v, h, j).at + Cooldown <= t

\* What the review is going to write.
PlanFits(r, v, h) ==
  /\ DOMAIN v.plan \subseteq Proposable(r)
  /\ \A k \in DOMAIN v.plan :
       /\ v.plan[k] \in 0..MaxTrait
       /\ k # "affect" => v.plan[k] - ReadIn(r, v, h, k).trait \in -1..1
       /\ k \in Durables => Cooled(r, v, h, v.at)

PassFits(r, v, h, t) ==
  /\ v \in Passes /\ (v.pc = "idle" => v.seen = <<>>)
  /\ v.pc \in Working => SnapshotFits(r, v, h)
  /\ v.pc = "model" => /\ ~v.paused => Cooled(r, v, h, t)
                       /\ v.decayed => ReadIn(r, v, h, "affect").trait > 0
  /\ v.pc = "apply" => PlanFits(r, v, h)

\* An update is not the first version, and somebody's.
ChainFits(c) ==
  c \in Seq(Versions) /\ \A i \in 1..Len(c) : c[i].op = "update" => i > 1 /\ c[i].author # NoRun

\* A dialogue shapes a chain once, and has its record.
ByDialogue(c, d, a) == {i \in DOMAIN c : c[i].op = "update" /\ c[i].author = <<d, a>>}
OnceIn(c, d, a, recorded) ==
  /\ \A i, j \in ByDialogue(c, d, a) : i = j
  /\ ByDialogue(c, d, a) # {} => recorded

GateHeld ==
  /\ gate \in TurnReviews \cup {Nobody} /\ running \in [Agents -> Reviews \cup {Nobody}]
  /\ \A r \in TurnReviews : review[r].pc \in Working => gate = r
  /\ \A a \in Agents : running[a] # Nobody => review[running[a]].pc = "model" /\ Head(review[running[a]].left) = a
  /\ \A r \in Reviews : review[r].pc = "model" => running[Head(review[r].left)] = r
  /\ \A r \in Reviews : review[r].pc = "parked" => running[Head(review[r].left)] # Nobody

MindInv ==
  /\ now \in 0..MaxTime /\ record \subseteq Dialogues \X Agents
  /\ history \in [Kinds -> [Agents -> Seq(Versions)]] /\ review \in [Reviews -> Passes]
  /\ policy \in [Agents -> Policies]
  /\ \A k \in Kinds, a \in Agents : ChainFits(history[k][a])
  /\ \A d \in Dialogues, a \in Agents, k \in {"peer", "affect"} :
       OnceIn(history[k][a], d, a, <<d, a>> \in record)
  /\ \A r \in Reviews : PassFits(r, review[r], history, now)
  /\ GateHeld

\* What a step may do to the versions.
StepsAreSmall ==
  /\ \A k \in Kinds \ {"affect"}, a \in Agents :
       Gained(k, a) /\ Newest(k, a).op = "update" =>
         Newest(k, a).trait - HeadOf(k, a).trait \in -1..1
  /\ \A k, j \in {"persona", "owner"}, a \in Agents :
       /\ Gained(k, a) /\ Newest(k, a).op = "update"
       /\ Exists(j, a) /\ HeadOf(j, a).op = "update"
       => Newest(k, a).at - HeadOf(j, a).at >= Cooldown

-----------------------------------------------------------------------------
(* Reviews: the snapshot.                                                  *)

LEMMA StepsArePos ==
  ASSUME NEW r
  PROVE  /\ Len(Steps(r)) \in {4, 5}
         /\ \A k \in KindsRead(r) : Pos(r, k) \in 1..Len(Steps(r)) /\ Steps(r)[Pos(r, k)] = k
         /\ \A i \in 1..Len(Steps(r)) : Steps(r)[i] \in Kinds =>
              Steps(r)[i] \in KindsRead(r) /\ Pos(r, Steps(r)[i]) = i
         /\ \A i \in 1..Len(Steps(r)) : Steps(r)[i] \in Kinds \cup {"record", "policy"}
<1>1. CASE r \in TurnReviews
  <2>1. Steps(r) = <<"persona", "owner", "affect", "policy">>
    BY <1>1 DEF Steps
  <2>2. Len(Steps(r)) = 4
    BY <2>1
  <2>3. \A i \in 1..4 : i = 1 \/ i = 2 \/ i = 3 \/ i = 4
    OBVIOUS
  <2> QED
    BY <1>1, <2>1, <2>2, <2>3 DEF KindsRead, Pos, Kinds
<1>2. CASE r \notin TurnReviews
  <2>1. Steps(r) = <<"record", "persona", "affect", "policy", "peer">>
    BY <1>2 DEF Steps
  <2>2. Len(Steps(r)) = 5
    BY <2>1
  <2>3. \A i \in 1..5 : i = 1 \/ i = 2 \/ i = 3 \/ i = 4 \/ i = 5
    OBVIOUS
  <2> QED
    BY <1>2, <2>1, <2>2, <2>3 DEF KindsRead, Pos, Kinds
<1> QED
  BY <1>1, <1>2

LEMMA LeftsShrink ==
  ASSUME NEW l \in Lefts, l # <<>>
  PROVE  Head(l) \in Agents /\ Tail(l) \in Lefts
<1>1. CASE \E a \in Agents : l = <<a>>
  <2>1. PICK a \in Agents : l = <<a>>
    BY <1>1
  <2>2. Head(l) = a /\ Tail(l) = <<>>
    BY <2>1
  <2> QED
    BY <2>2 DEF Lefts
<1>2. CASE l \in Agents \X Agents
  <2>1. PICK a \in Agents, b \in Agents : l = <<a, b>>
    BY <1>2
  <2>2. Head(l) = a /\ Tail(l) = <<b>>
    BY <2>1
  <2> QED
    BY <2>2 DEF Lefts
<1> QED
  BY <1>1, <1>2 DEF Lefts

LEMMA KindsAre ==
  ASSUME NEW r
  PROVE  /\ Proposable(r) \subseteq KindsRead(r) /\ KindsRead(r) \subseteq Kinds /\ "affect" \in Proposable(r)
         /\ r \in TurnReviews => Durables \subseteq Proposable(r)
         /\ r \notin TurnReviews => Durables \cap Proposable(r) = {}
  BY DEF Proposable, KindsRead, Kinds, Durables

\* What the model's operators say of a review that has read the kind.
LEMMA SeenIsThere ==
  ASSUME MindInv, NEW r \in Reviews, review[r].pc \in Working, NEW k \in KindsRead(r),
         Pos(r, k) <= Len(review[r].seen)
  PROVE  /\ SeenVersion(r, k) = SeenIn(r, review[r], k)
         /\ Basis(r, k) = ReadIn(r, review[r], history, k)
         /\ SeenVersion(r, k) \in 1..Len(history[k][Agent(r)])
         /\ Basis(r, k) \in Versions /\ k \in Kinds
<1> DEFINE s == review[r].seen
<1>1. s \in Seq(Nat) /\ SnapshotFits(r, review[r], history)
  BY DEF MindInv, Passes, PassFits
<1>2. DOMAIN s = 1..Len(s) /\ Len(s) \in Nat /\ Len(s) <= Len(Steps(r))
  BY <1>1 DEF SnapshotFits
<1>3. Pos(r, k) \in DOMAIN s /\ Steps(r)[Pos(r, k)] = k /\ k \in Kinds
  BY <1>2, StepsArePos, KindsAre
<1>4. \A j \in DOMAIN s : Steps(r)[j] = k => j = Pos(r, k)
  BY <1>2, <1>3, StepsArePos
<1>5. (CHOOSE j \in DOMAIN s : Steps(r)[j] = k) = Pos(r, k)
  BY <1>3, <1>4
<1>6. SeenVersion(r, k) = SeenIn(r, review[r], k)
  BY <1>5 DEF SeenVersion, SeenIn
<1>7. SeenVersion(r, k) \in 1..Len(history[k][Agent(r)])
  BY <1>1, <1>6 DEF SnapshotFits, Agent
<1>8. Basis(r, k) = ReadIn(r, review[r], history, k)
  BY <1>6 DEF Basis, ReadIn, Agent
<1>9. ChainFits(history[k][Agent(r)])
  <2>1. Agent(r) \in Agents
    BY <1>1, LeftsShrink DEF SnapshotFits, Agent, MindInv, Passes
  <2> QED
    BY <1>3, <2>1 DEF MindInv
<1>10. Basis(r, k) \in Versions
  BY <1>7, <1>9 DEF Basis, ChainFits
<1> QED
  BY <1>3, <1>6, <1>7, <1>8, <1>10

\* A working review is of somebody.
LEMMA AgentIs ==
  ASSUME MindInv, NEW r \in Reviews, review[r].pc \in Working
  PROVE  /\ review[r].left \in Lefts /\ review[r].left # <<>>
         /\ Agent(r) \in Agents /\ Agent(r) = Head(review[r].left) /\ Tail(review[r].left) \in Lefts
<1>1. review[r].left \in Lefts /\ review[r].left # <<>>
  BY DEF MindInv, Passes, PassFits, SnapshotFits
<1> QED
  BY <1>1, LeftsShrink DEF Agent

-----------------------------------------------------------------------------
(* Reviews: chains only grow.                                              *)

Grown(c, d) == Len(d) >= Len(c) /\ \A i \in 1..Len(c) : d[i] = c[i]
Quiet(c, d) == d = c \/ d[Len(d)].op # "update"

ChainsGrow(h, g) == \A k \in Kinds, a \in Agents : ChainFits(h[k][a]) /\ ChainFits(g[k][a]) /\ Grown(h[k][a], g[k][a])

\* A version in another guise.
LEMMA VersionRetold ==
  ASSUME NEW v \in Versions, NEW o \in {"reset", "rollback"}, NEW t \in 0..MaxTime
  PROVE  /\ [v EXCEPT !.op = o] \in Versions /\ [v EXCEPT !.op = o].op = o
         /\ [v EXCEPT !.op = o, !.at = t] \in Versions /\ [v EXCEPT !.op = o, !.at = t].op = o
<1>1. [v EXCEPT !.op = o] \in Versions
  BY DEF Versions
<1>2. [v EXCEPT !.op = o].op = o
  BY DEF Versions
<1>3. [v EXCEPT !.op = o, !.at = t] \in Versions
  BY DEF Versions
<1>4. [v EXCEPT !.op = o, !.at = t].op = o
  BY DEF Versions
<1> QED
  BY <1>1, <1>2, <1>3, <1>4

\* A pass that does not move on of itself fits the chains that have grown.
LEMMA PassGoesOn ==
  ASSUME NEW q \in Reviews, NEW v, NEW w, NEW h, NEW g, NEW t \in Int, NEW u \in Int, t <= u,
         PassFits(q, v, h, t), ChainsGrow(h, g),
         w = v \/ (v.pc = "parked" /\ w = [v EXCEPT !.pc = "enter"]),
         q \in TurnReviews /\ v.pc \in Working =>
           \A j \in Durables : Quiet(h[j][Head(v.left)], g[j][Head(v.left)])
  PROVE  PassFits(q, w, g, u)
<1>1. v \in Passes
  BY DEF PassFits
<1>2. /\ w \in Passes /\ w.left = v.left /\ w.seen = v.seen /\ w.plan = v.plan /\ w.at = v.at
      /\ w.paused = v.paused /\ w.decayed = v.decayed
      /\ w.pc = v.pc \/ (v.pc = "parked" /\ w.pc = "enter")
  <2>1. CASE w = v
    BY <1>1, <2>1
  <2>2. CASE v.pc = "parked" /\ w = [v EXCEPT !.pc = "enter"]
    <3> DEFINE x == [v EXCEPT !.pc = "enter"]
    <3>1. x = [pc |-> "enter", left |-> v.left, seen |-> v.seen, locked |-> v.locked, paused |-> v.paused,
               decayed |-> v.decayed, plan |-> v.plan, at |-> v.at]
      BY <1>1 DEF Passes
    <3>2. w = x
      BY <2>2
    <3> HIDE DEF x
    <3>3. w \in Passes
      BY <1>1, <3>1, <3>2 DEF Passes, Working
    <3> QED
      BY <2>2, <3>1, <3>2, <3>3
  <2> QED
    BY <2>1, <2>2
<1>3. ASSUME v.pc \in Working
      PROVE  /\ SnapshotFits(q, w, g)
             /\ \A k \in KindsRead(q) : Pos(q, k) <= Len(v.seen) => ReadIn(q, w, g, k) = ReadIn(q, v, h, k)
  <2> DEFINE a == Head(v.left)
  <2>1. SnapshotFits(q, v, h) /\ a \in Agents /\ v.seen \in Seq(Nat)
    BY <1>1, <1>3, LeftsShrink DEF PassFits, SnapshotFits, Passes
  <2>2. \A k \in KindsRead(q) : Pos(q, k) <= Len(v.seen) =>
          /\ SeenIn(q, w, k) = SeenIn(q, v, k)
          /\ SeenIn(q, v, k) \in 1..Len(h[k][a]) /\ k \in Kinds
    BY <1>2, <2>1, KindsAre DEF SnapshotFits, SeenIn
  <2>3. \A k \in Kinds : /\ Len(h[k][a]) \in Nat /\ Len(g[k][a]) \in Nat /\ Len(g[k][a]) >= Len(h[k][a])
                         /\ \A i \in 1..Len(h[k][a]) : g[k][a][i] = h[k][a][i]
    <3> SUFFICES ASSUME NEW k \in Kinds
                 PROVE  /\ Len(h[k][a]) \in Nat /\ Len(g[k][a]) \in Nat /\ Len(g[k][a]) >= Len(h[k][a])
                        /\ \A i \in 1..Len(h[k][a]) : g[k][a][i] = h[k][a][i]
      OBVIOUS
    <3>1. ChainFits(h[k][a]) /\ ChainFits(g[k][a]) /\ Grown(h[k][a], g[k][a])
      BY <2>1 DEF ChainsGrow
    <3>2. h[k][a] \in Seq(Versions) /\ g[k][a] \in Seq(Versions)
      BY <3>1 DEF ChainFits
    <3> QED
      BY <3>1, <3>2 DEF Grown
  <2>4. \A k \in KindsRead(q) : Pos(q, k) <= Len(v.seen) =>
          SeenIn(q, w, k) \in 1..Len(g[k][a]) /\ ReadIn(q, w, g, k) = ReadIn(q, v, h, k)
    BY <1>2, <2>2, <2>3, SMTT(40) DEF ReadIn
  <2>5. w.pc = "read" <=> Len(w.seen) < Len(Steps(q))
    BY <1>2, <2>1 DEF SnapshotFits
  <2>6. ASSUME q \in TurnReviews, NEW j \in Durables, Pos(q, j) <= Len(w.seen), g[j][a][Len(g[j][a])].op = "update"
        PROVE  SeenIn(q, w, j) = Len(g[j][a])
    <3>1. j \in KindsRead(q)
      BY <2>6, KindsAre
    <3>2. g[j][a] = h[j][a]
      BY <1>3, <2>6 DEF Quiet
    <3> QED
      BY <1>2, <2>1, <2>2, <2>6, <3>1, <3>2 DEF SnapshotFits
  <2>7. w.left # <<>> /\ (q \in TurnReviews => Tail(w.left) = <<>>) /\ Len(w.seen) <= Len(Steps(q))
    BY <1>2, <2>1 DEF SnapshotFits
  <2>8. Head(w.left) = a
    BY <1>2
  <2> HIDE DEF a
  <2>9. \A k \in KindsRead(q) : Pos(q, k) <= Len(w.seen) => SeenIn(q, w, k) \in 1..Len(g[k][a])
    BY <1>2, <2>4
  <2> QED
    BY <2>4, <2>5, <2>6, <2>7, <2>8, <2>9 DEF SnapshotFits
<1>4. ASSUME v.pc \in {"model", "apply"}
      PROVE  \A k \in KindsRead(q) : ReadIn(q, w, g, k) = ReadIn(q, v, h, k)
  <2>1. v.pc \in Working /\ v.pc # "read"
    BY <1>4 DEF Working
  <2>2. SnapshotFits(q, v, h) /\ v.seen \in Seq(Nat)
    BY <1>1, <2>1 DEF PassFits, Passes
  <2>3. Len(v.seen) = Len(Steps(q)) 
    BY <2>1, <2>2, StepsArePos DEF SnapshotFits
  <2>4. \A k \in KindsRead(q) : Pos(q, k) <= Len(v.seen)
    BY <2>3, StepsArePos
  <2> QED
    BY <1>3, <2>1, <2>4
<1>5. v.pc \in {"model", "apply"} => \A s \in Int : Cooled(q, v, h, s) => Cooled(q, w, g, s)
  BY <1>4, KindsAre DEF Cooled
<1>6. v.pc \in {"model", "apply"} => w.pc = v.pc
  BY <1>2
<1>7. ASSUME w.pc = "model" PROVE (~w.paused => Cooled(q, w, g, u)) /\ (w.decayed => ReadIn(q, w, g, "affect").trait > 0)
  <2>1. v.pc = "model"
    BY <1>2, <1>7
  <2>2. (~v.paused => Cooled(q, v, h, t)) /\ (v.decayed => ReadIn(q, v, h, "affect").trait > 0)
    BY <2>1 DEF PassFits
  <2>3. ASSUME ~v.paused PROVE Cooled(q, v, h, u)
    <3>1. Cooled(q, v, h, t)
      BY <2>2, <2>3
    <3>2. ASSUME q \in TurnReviews, NEW j \in Durables, ReadIn(q, v, h, j).op = "update"
          PROVE  ReadIn(q, v, h, j).at + Cooldown <= u
      <4>1. SnapshotFits(q, v, h) /\ v.seen \in Seq(Nat) /\ v.left \in Lefts
        BY <1>1, <2>1 DEF PassFits, Passes, Working
      <4>2. j \in KindsRead(q)
        BY <3>2, KindsAre
      <4>3. Len(v.seen) = Len(Steps(q)) /\ Pos(q, j) <= Len(v.seen)
        BY <2>1, <4>1, <4>2, StepsArePos DEF SnapshotFits
      <4>4. SeenIn(q, v, j) \in 1..Len(h[j][Head(v.left)])
        BY <4>1, <4>2, <4>3 DEF SnapshotFits
      <4>5. Head(v.left) \in Agents /\ j \in Kinds
        BY <4>1, LeftsShrink DEF SnapshotFits, Durables, Kinds
      <4>6. h[j][Head(v.left)] \in Seq(Versions)
        BY <4>5 DEF ChainsGrow, ChainFits
      <4>7. ReadIn(q, v, h, j) \in Versions
        BY <4>4, <4>6 DEF ReadIn
      <4>8. ReadIn(q, v, h, j).at \in Int
        BY <4>7 DEF Versions
      <4>9. ReadIn(q, v, h, j).at + Cooldown <= t
        BY <3>1, <3>2 DEF Cooled
      <4> QED
        BY <4>8, <4>9, ReflectionAssumption
    <3> QED
      BY <3>2 DEF Cooled
  <2> QED
    BY <1>2, <1>4, <1>5, <2>1, <2>2, <2>3, KindsAre
<1>8. ASSUME w.pc = "apply" PROVE PlanFits(q, w, g)
  <2>1. v.pc = "apply"
    BY <1>2, <1>8
  <2>2. PlanFits(q, v, h)
    BY <2>1 DEF PassFits
  <2>3. v.at \in Int
    BY <1>1 DEF Passes
  <2>4. \A k \in DOMAIN v.plan : k \in KindsRead(q)
    BY <2>2, KindsAre DEF PlanFits
  <2> QED
    BY <1>2, <1>4, <1>5, <2>1, <2>2, <2>3, <2>4 DEF PlanFits
<1>9. w.pc \in Working => v.pc \in Working
  BY <1>2 DEF Working
<1>10. w.pc = "idle" => w.seen = <<>>
  BY <1>2 DEF PassFits
<1> QED
  BY <1>2, <1>3, <1>7, <1>8, <1>9, <1>10 DEF PassFits

LEMMA ChainsAre ==
  ASSUME MindInv, NEW k \in Kinds, NEW a \in Agents
  PROVE  ChainFits(history[k][a]) /\ history[k][a] \in Seq(Versions) /\ Len(history[k][a]) \in Nat
  BY DEF MindInv, ChainFits

LEMMA ChainsStay ==
  ASSUME MindInv, history' = history
  PROVE  ChainsGrow(history, history') /\ StepsAreSmall
<1>1. \A k \in Kinds, a \in Agents : ChainFits(history[k][a]) /\ Len(history[k][a]) \in Nat
  BY ChainsAre
<1>2. ChainsGrow(history, history')
  BY <1>1 DEF ChainsGrow, Grown
<1>3. \A k \in Kinds, a \in Agents : ~Gained(k, a)
  BY <1>1 DEF Gained
<1> QED
  BY <1>2, <1>3 DEF StepsAreSmall, Kinds

\* A version that is no update joins one chain.
LEMMA ChainGrows ==
  ASSUME NEW c, ChainFits(c), NEW v \in Versions, v.op # "update"
  PROVE  /\ ChainFits(Append(c, v)) /\ Grown(c, Append(c, v)) /\ Append(c, v)[Len(Append(c, v))].op # "update"
         /\ Quiet(c, Append(c, v)) /\ Append(c, v)[Len(Append(c, v))] = v
         /\ \A d, a : ByDialogue(Append(c, v), d, a) = ByDialogue(c, d, a)
<1> DEFINE e == Append(c, v)
<1>1. c \in Seq(Versions) /\ Len(c) \in Nat
  BY DEF ChainFits
<1>2. e \in Seq(Versions) /\ Len(e) = Len(c) + 1 /\ e[Len(c) + 1] = v /\ \A i \in 1..Len(c) : e[i] = c[i]
  BY <1>1
<1> HIDE DEF e
<1>3. ChainFits(e)
  BY <1>1, <1>2 DEF ChainFits
<1>4. Grown(c, e) /\ Quiet(c, e) /\ e[Len(e)] = v
  BY <1>1, <1>2 DEF Grown, Quiet
<1>5. ASSUME NEW d, NEW a PROVE ByDialogue(e, d, a) = ByDialogue(c, d, a)
  <2>1. DOMAIN e = 1..(Len(c) + 1) /\ DOMAIN c = 1..Len(c)
    BY <1>1, <1>2
  <2> QED
    BY <1>1, <1>2, <2>1 DEF ByDialogue
<1>6. e = Append(c, v)
  BY DEF e
<1> QED
  BY <1>3, <1>4, <1>5, <1>6

LEMMA AppendedOne ==
  ASSUME MindInv, NEW k \in Kinds, NEW a \in Agents, NEW v \in Versions, v.op # "update",
         history' = Appended(k, a, v)
  PROVE  /\ history' \in [Kinds -> [Agents -> Seq(Versions)]] /\ ChainsGrow(history, history') /\ StepsAreSmall
         /\ \A j \in Kinds, b \in Agents : Quiet(history[j][b], history'[j][b])
         /\ \A d \in Dialogues, b \in Agents, j \in {"peer", "affect"} :
              OnceIn(history'[j][b], d, b, <<d, b>> \in record)
         /\ \A j \in Kinds, b \in Agents : (j # k \/ b # a) => history'[j][b] = history[j][b]
         /\ history'[k][a] = Append(history[k][a], v)
<1>1. history \in [Kinds -> [Agents -> Seq(Versions)]]
  BY DEF MindInv
<1>2. /\ \A j \in Kinds, b \in Agents : (j # k \/ b # a) => history'[j][b] = history[j][b]
      /\ history'[k][a] = Append(history[k][a], v)
  BY <1>1 DEF Appended
<1>3. \A j \in Kinds, b \in Agents : ChainFits(history[j][b]) /\ Len(history[j][b]) \in Nat
  BY ChainsAre
<1>4. history' \in [Kinds -> [Agents -> Seq(Versions)]]
  <2>1. Append(history[k][a], v) \in Seq(Versions)
    BY <1>1
  <2> QED
    BY <1>1, <2>1 DEF Appended
<1>5. ASSUME NEW j \in Kinds, NEW b \in Agents
      PROVE  /\ ChainFits(history'[j][b]) /\ Grown(history[j][b], history'[j][b])
             /\ Quiet(history[j][b], history'[j][b])
             /\ \A d, c : ByDialogue(history'[j][b], d, c) = ByDialogue(history[j][b], d, c)
             /\ Gained(j, b) => Newest(j, b).op # "update"
  <2>1. CASE j # k \/ b # a
    BY <1>2, <1>3, <2>1 DEF Grown, Quiet, Gained
  <2>2. CASE j = k /\ b = a
    <3> DEFINE c == history[k][a]
    <3> DEFINE e == Append(c, v)
    <3>1. ChainFits(c)
      BY <1>3
    <3> HIDE DEF c
    <3>2. /\ ChainFits(e) /\ Grown(c, e) /\ Quiet(c, e) /\ e[Len(e)] = v
          /\ \A d, b2 : ByDialogue(e, d, b2) = ByDialogue(c, d, b2)
      BY <3>1, ChainGrows
    <3>3. history'[j][b] = e /\ history[j][b] = c
      BY <1>2, <2>2 DEF c
    <3> HIDE DEF e
    <3>4. Newest(j, b) = v
      BY <3>2, <3>3 DEF Newest
    <3> QED
      BY <3>2, <3>3, <3>4
  <2> QED
    BY <2>1, <2>2
<1>6. ChainsGrow(history, history')
  BY <1>3, <1>5 DEF ChainsGrow
<1>7. StepsAreSmall
  BY <1>5 DEF StepsAreSmall, Kinds
<1>8. \A d \in Dialogues, b \in Agents, j \in {"peer", "affect"} : OnceIn(history'[j][b], d, b, <<d, b>> \in record)
  <2> SUFFICES ASSUME NEW d \in Dialogues, NEW b \in Agents, NEW j \in {"peer", "affect"}
               PROVE  OnceIn(history'[j][b], d, b, <<d, b>> \in record)
    OBVIOUS
  <2>1. OnceIn(history[j][b], d, b, <<d, b>> \in record) /\ j \in Kinds
    BY DEF MindInv, Kinds
  <2>2. ByDialogue(history'[j][b], d, b) = ByDialogue(history[j][b], d, b)
    BY <1>5, <2>1
  <2> QED
    BY <2>1, <2>2 DEF OnceIn
<1> QED
  BY <1>2, <1>4, <1>5, <1>6, <1>7, <1>8

-----------------------------------------------------------------------------
(* Reviews: the owner's steps, and time.                                   *)

LEMMA OwnerStep ==
  ASSUME ReflectionAssumption, MindInv, record' = record, review' = review, gate' = gate, running' = running,
         now' \in 0..MaxTime, now <= now', policy' \in [Agents -> Policies],
         \/ history' = history
         \/ \E k \in Kinds, a \in Agents, v \in Versions : v.op # "update" /\ history' = Appended(k, a, v)
  PROVE  MindInv' /\ StepsAreSmall
<1>1. /\ history' \in [Kinds -> [Agents -> Seq(Versions)]] /\ ChainsGrow(history, history') /\ StepsAreSmall
      /\ \A j \in Kinds, b \in Agents : Quiet(history[j][b], history'[j][b])
      /\ \A d \in Dialogues, b \in Agents, j \in {"peer", "affect"} :
           OnceIn(history'[j][b], d, b, <<d, b>> \in record)
  <2>1. CASE history' = history
    <3>1. history' \in [Kinds -> [Agents -> Seq(Versions)]]
      BY <2>1 DEF MindInv
    <3>2. \A d \in Dialogues, b \in Agents, j \in {"peer", "affect"} :
            OnceIn(history'[j][b], d, b, <<d, b>> \in record)
      BY <2>1 DEF MindInv
    <3>3. \A j \in Kinds, b \in Agents : Quiet(history[j][b], history'[j][b])
      BY <2>1 DEF Quiet
    <3> QED
      BY <2>1, <3>1, <3>2, <3>3, ChainsStay
  <2>2. CASE \E k \in Kinds, a \in Agents, v \in Versions : v.op # "update" /\ history' = Appended(k, a, v)
    <3>1. PICK k \in Kinds, a \in Agents, v \in Versions : v.op # "update" /\ history' = Appended(k, a, v)
      BY <2>2
    <3> QED
      BY <3>1, AppendedOne
  <2> QED
    BY <2>1, <2>2
<1>2. \A k \in Kinds, a \in Agents : ChainFits(history'[k][a])
  BY <1>1 DEF ChainsGrow
<1>3. ASSUME NEW q \in Reviews PROVE PassFits(q, review'[q], history', now')
  <2>1. PassFits(q, review[q], history, now) /\ now \in Int /\ now' \in Int
    BY DEF MindInv
  <2>2. q \in TurnReviews /\ review[q].pc \in Working =>
          \A j \in Durables : Quiet(history[j][Head(review[q].left)], history'[j][Head(review[q].left)])
    BY <1>1, AgentIs DEF Durables, Kinds
  <2> QED
    BY <1>1, <2>1, <2>2, PassGoesOn
<1>4. GateHeld'
  BY DEF MindInv, GateHeld
<1>5. review' \in [Reviews -> Passes] /\ record' \subseteq Dialogues \X Agents
  BY DEF MindInv
<1>6. \A d \in Dialogues, b \in Agents, j \in {"peer", "affect"} :
        OnceIn(history'[j][b], d, b, <<d, b>> \in record')
  BY <1>1
<1>7. MindInv'
  BY <1>1, <1>2, <1>3, <1>4, <1>5, <1>6 DEF MindInv
<1> QED
  BY <1>1, <1>7

LEMMA SeedsAreVersions ==
  ASSUME ReflectionAssumption, MindInv
  PROVE  /\ PersonaSeed \in Versions /\ PersonaSeed.op = "seed" /\ OwnerSeed \in Versions /\ OwnerSeed.op = "seed"
         /\ PeerSeed \in Versions /\ PeerSeed.op = "seed" /\ AffectSeed \in Versions /\ AffectSeed.op = "seed"
         /\ [OwnerSeed EXCEPT !.op = "reset"] \in Versions /\ [OwnerSeed EXCEPT !.op = "reset"].op = "reset"
<1>1. /\ now \in 0..MaxTime /\ SeedTrait \in 0..MaxTrait /\ NoRun \in Writers
  BY ReflectionAssumption DEF MindInv, Writers
<1>2. OwnerSeed \in Versions /\ OwnerSeed.op = "seed"
  BY <1>1 DEF OwnerSeed, Version, Versions
<1>3. /\ PersonaSeed = OwnerSeed /\ PeerSeed = OwnerSeed /\ AffectSeed = OwnerSeed
  BY DEF PersonaSeed, OwnerSeed, PeerSeed, AffectSeed
<1> QED
  BY <1>1, <1>2, <1>3, VersionRetold

LEMMA EditsKeepMinds ==
  ASSUME ReflectionAssumption, MindInv, NEW k \in Kinds, NEW a \in Agents, NEW v \in Versions, v.op # "update",
         Edits(k, a, v)
  PROVE  MindInv' /\ StepsAreSmall
<1>1. now \in 0..MaxTime /\ MaxTime \in Nat /\ policy \in [Agents -> Policies]
  BY ReflectionAssumption DEF MindInv
<1> QED
  BY <1>1, OwnerStep DEF Edits, mind

LEMMA ChainsHaveVersions ==
  ASSUME MindInv, NEW k \in Kinds, NEW a \in Agents
  PROVE  /\ DOMAIN history[k][a] = 1..Len(history[k][a])
         /\ \A n \in 1..Len(history[k][a]) : history[k][a][n] \in Versions
         /\ Exists(k, a) => HeadOf(k, a) \in Versions /\ 1 \in 1..Len(history[k][a])
                            /\ Len(history[k][a]) \in 1..Len(history[k][a])
<1>1. history[k][a] \in Seq(Versions)
  BY ChainsAre
<1>2. history[k][a] # <<>> => Len(history[k][a]) > 0
  BY <1>1
<1> QED
  BY <1>1, <1>2 DEF Exists, HeadOf

LEMMA OwnersKeepMinds ==
  ASSUME ReflectionAssumption, MindInv, NEW a \in Agents,
         \/ EnsurePersonaState(a) \/ ReconcileOwnerSeed(a) \/ SetPersonaTraitPinned(a)
         \/ RollbackPersona(a) \/ RollbackRelationship(a) \/ RollbackPeerRelationship(a)
         \/ ResetPersona(a) \/ ResetRelationship(a) \/ ResetPeerRelationship(a) \/ UpdatePolicy(a)
  PROVE  MindInv' /\ StepsAreSmall
<1>1. now \in 0..MaxTime /\ MaxTime \in Nat /\ now \in Int /\ policy \in [Agents -> Policies]
  BY ReflectionAssumption DEF MindInv
<1>2. {"persona", "owner", "peer", "affect"} = Kinds
  BY DEF Kinds
<1>3. CASE EnsurePersonaState(a)
  <2>1. \/ history' = Appended("persona", a, PersonaSeed) \/ history' = Appended("owner", a, OwnerSeed)
        \/ history' = Appended("affect", a, AffectSeed)
    BY <1>3 DEF EnsurePersonaState
  <2>2. \E k \in Kinds, v \in Versions : v.op # "update" /\ history' = Appended(k, a, v)
    BY <2>1, <1>2, SeedsAreVersions
  <2> QED
    BY <1>1, <1>3, <2>2, OwnerStep DEF EnsurePersonaState, mind
<1>4. CASE ReconcileOwnerSeed(a)
  <2>1. history' = Appended("owner", a, [OwnerSeed EXCEPT !.op = "reset"])
    BY <1>4 DEF ReconcileOwnerSeed
  <2>2. \E k \in Kinds, v \in Versions : v.op # "update" /\ history' = Appended(k, a, v)
    BY <2>1, <1>2, SeedsAreVersions
  <2> QED
    BY <1>1, <1>4, <2>2, OwnerStep DEF ReconcileOwnerSeed, mind
<1>5. CASE SetPersonaTraitPinned(a)
  <2> DEFINE v == HeadOf("persona", a)
  <2>1. v \in Versions
    BY <1>2, <1>5, ChainsHaveVersions DEF SetPersonaTraitPinned
  <2> DEFINE w == Version("pin", v.author, now, v.trait, ~v.pinned)
  <2>2. Edits("persona", a, w)
    BY <1>5 DEF SetPersonaTraitPinned
  <2> HIDE DEF v
  <2>3. w \in Versions /\ w.op = "pin"
    BY <1>1, <2>1 DEF Version, Versions
  <2> QED
    BY <1>2, <2>2, <2>3, EditsKeepMinds
<1>6. ASSUME NEW k \in {"persona", "owner", "peer"}, NEW n \in DOMAIN history[k][a], Edits(k, a, RolledBack(k, a, n))
      PROVE  MindInv' /\ StepsAreSmall
  <2>1. history[k][a][n] \in Versions /\ k \in Kinds
    BY <1>2, <1>6, ChainsHaveVersions
  <2>2. RolledBack(k, a, n) \in Versions /\ RolledBack(k, a, n).op = "rollback"
    BY <1>1, <2>1, VersionRetold DEF RolledBack
  <2> QED
    BY <1>6, <2>1, <2>2, EditsKeepMinds
<1>7. ASSUME NEW k \in {"persona", "peer"}, Exists(k, a), Edits(k, a, ResetToFirst(k, a))
      PROVE  MindInv' /\ StepsAreSmall
  <2>1. history[k][a][1] \in Versions /\ k \in Kinds
    BY <1>2, <1>7, ChainsHaveVersions
  <2>2. ResetToFirst(k, a) \in Versions /\ ResetToFirst(k, a).op = "reset"
    BY <1>1, <2>1, VersionRetold, ZenonT(60) DEF ResetToFirst
  <2> QED
    BY <1>7, <2>1, <2>2, EditsKeepMinds
<1>8. CASE ResetRelationship(a)
  BY <1>2, <1>8, SeedsAreVersions, EditsKeepMinds DEF ResetRelationship
<1>9. CASE UpdatePolicy(a)
  BY <1>1, <1>9, OwnerStep DEF UpdatePolicy, Policies
<1>10. CASE RollbackPersona(a) \/ RollbackRelationship(a) \/ RollbackPeerRelationship(a)
  BY <1>6, <1>10 DEF RollbackPersona, RollbackRelationship, RollbackPeerRelationship
<1>11. CASE ResetPersona(a) \/ ResetPeerRelationship(a)
  BY <1>7, <1>11 DEF ResetPersona, ResetPeerRelationship
<1> QED
  BY <1>3, <1>4, <1>5, <1>8, <1>9, <1>10, <1>11

LEMMA TimeKeepsMinds ==
  ASSUME ReflectionAssumption, MindInv, SetPersonaAutoEvolution \/ Tick
  PROVE  MindInv' /\ StepsAreSmall
<1>1. now \in 0..MaxTime /\ MaxTime \in Nat /\ policy \in [Agents -> Policies]
  BY ReflectionAssumption DEF MindInv
<1>2. CASE SetPersonaAutoEvolution
  BY <1>1, <1>2, OwnerStep DEF SetPersonaAutoEvolution
<1>3. CASE Tick
  <2>1. now' \in 0..MaxTime /\ now <= now'
    BY <1>1, <1>3 DEF Tick
  <2> QED
    BY <1>1, <1>3, <2>1, OwnerStep DEF Tick
<1> QED
  BY <1>2, <1>3

-----------------------------------------------------------------------------
(* Reviews: they begin, read and leave.                                    *)

\* A review's step: the others stay where they are, or wake.
LEMMA ReviewMoves ==
  ASSUME ReflectionAssumption, MindInv, NEW r \in Reviews, now' = now, policy' = policy,
         history' \in [Kinds -> [Agents -> Seq(Versions)]], ChainsGrow(history, history'),
         record' \subseteq Dialogues \X Agents,
         \A d \in Dialogues, b \in Agents, j \in {"peer", "affect"} :
           OnceIn(history'[j][b], d, b, <<d, b>> \in record'),
         review' \in [Reviews -> Passes], PassFits(r, review'[r], history', now'),
         \A q \in Reviews \ {r} :
           \/ review'[q] = review[q]
           \/ review[q].pc = "parked" /\ review'[q] = [review[q] EXCEPT !.pc = "enter"],
         \A q \in TurnReviews \ {r} : review[q].pc \in Working =>
           \A j \in Durables, b \in Agents : history'[j][b] = history[j][b],
         GateHeld'
  PROVE  MindInv'
<1>1. \A k \in Kinds, a \in Agents : ChainFits(history'[k][a])
  BY DEF ChainsGrow
<1>2. ASSUME NEW q \in Reviews, q # r PROVE PassFits(q, review'[q], history', now')
  <2>1. PassFits(q, review[q], history, now) /\ now \in Int
    BY DEF MindInv
  <2>2. q \in TurnReviews /\ review[q].pc \in Working =>
          \A j \in Durables : Quiet(history[j][Head(review[q].left)], history'[j][Head(review[q].left)])
    BY <1>2, AgentIs DEF Quiet
  <2>3. \/ review'[q] = review[q]
        \/ review[q].pc = "parked" /\ review'[q] = [review[q] EXCEPT !.pc = "enter"]
    BY <1>2
  <2>4. now' \in Int /\ now <= now'
    BY <2>1
  <2> QED
    BY <2>1, <2>2, <2>3, <2>4, PassGoesOn
<1>3. now' \in 0..MaxTime /\ policy' \in [Agents -> Policies]
  BY DEF MindInv
<1> QED
  BY <1>1, <1>2, <1>3 DEF MindInv

LEMMA UnreadFits ==
  ASSUME ReflectionAssumption, NEW r \in Reviews, NEW l \in Lefts, r \in TurnReviews /\ l # <<>> => Tail(l) = <<>>,
         NEW h, NEW t
  PROVE  /\ l # <<>> => PassFits(r, Unread("read", l), h, t)
         /\ l = <<>> => PassFits(r, Unread("over", l), h, t) /\ PassFits(r, Unread("idle", l), h, t)
<1>1. \A pc \in {"read", "over", "idle"} : Unread(pc, l) \in Passes
  <2> SUFFICES ASSUME NEW pc \in {"read", "over", "idle"} PROVE Unread(pc, l) \in Passes
    OBVIOUS
  <2>1. MaxTime \in Nat /\ <<>> \in Seq(Nat)
    BY ReflectionAssumption
  <2>2. 0 \in 0..MaxTime
    BY <2>1
  <2> QED
    BY <2>1, <2>2 DEF Unread, Passes, Working
<1>2. \A pc : /\ Unread(pc, l).pc = pc /\ Unread(pc, l).seen = <<>> /\ Unread(pc, l).left = l
              /\ Len(Unread(pc, l).seen) = 0
  BY DEF Unread
<1>3. ASSUME l # <<>> PROVE SnapshotFits(r, Unread("read", l), h)
  <2>1. \A k \in KindsRead(r) : ~(Pos(r, k) <= 0)
    BY StepsArePos
  <2>2. 0 < Len(Steps(r))
    BY StepsArePos
  <2>3. Durables \subseteq KindsRead(r) \/ r \notin TurnReviews
    BY KindsAre
  <2> DEFINE v == Unread("read", l)
  <2>4. v.pc = "read" /\ v.left = l /\ Len(v.seen) = 0
    BY <1>2
  <2> HIDE DEF v
  <2>5. SnapshotFits(r, v, h)
    BY <1>3, <2>1, <2>2, <2>3, <2>4 DEF SnapshotFits
  <2> QED
    BY <2>5 DEF v
<1>4. ASSUME l # <<>> PROVE PassFits(r, Unread("read", l), h, t)
  BY <1>1, <1>2, <1>3, <1>4 DEF PassFits
<1>5. PassFits(r, Unread("over", l), h, t) /\ PassFits(r, Unread("idle", l), h, t)
  BY <1>1, <1>2 DEF PassFits, Working
<1> QED
  BY <1>4, <1>5

\* What a review's going on to the next agent leaves.
LEMMA NextFits ==
  ASSUME ReflectionAssumption, MindInv, NEW r \in Reviews, review[r].pc \in Working, NEW h, NEW t
  PROVE  /\ NextAgent(r) \in Passes /\ PassFits(r, NextAgent(r), h, t)
         /\ NextAgent(r).pc \in {"read", "over"} /\ (r \in TurnReviews => NextAgent(r).pc = "over")
<1> DEFINE l == Tail(review[r].left)
<1>1. l \in Lefts
  BY AgentIs
<1>2. r \in TurnReviews => l = <<>>
  BY DEF MindInv, PassFits, SnapshotFits
<1>3. NextAgent(r) = Unread(IF l = <<>> THEN "over" ELSE "read", l)
  BY DEF NextAgent
<1> HIDE DEF l
<1>4. PassFits(r, NextAgent(r), h, t)
  BY <1>1, <1>2, <1>3, UnreadFits
<1>5. NextAgent(r) \in Passes
  BY <1>4 DEF PassFits
<1>6. NextAgent(r).pc = IF l = <<>> THEN "over" ELSE "read"
  BY <1>3 DEF Unread
<1> QED
  BY <1>2, <1>4, <1>5, <1>6

LEMMA LeaveFits ==
  ASSUME ReflectionAssumption, MindInv, NEW r \in Reviews, review[r].pc \in Working \ {"model"}, Leave(r),
         running' = running, NEW h, NEW t
  PROVE  /\ review' \in [Reviews -> Passes] /\ PassFits(r, review'[r], h, t)
         /\ \A q \in Reviews \ {r} : review'[q] = review[q]
         /\ GateHeld'
<1>1. review \in [Reviews -> Passes] /\ GateHeld
  BY DEF MindInv
<1>2. /\ NextAgent(r) \in Passes /\ PassFits(r, NextAgent(r), h, t)
      /\ NextAgent(r).pc \in {"read", "over"} /\ (r \in TurnReviews => NextAgent(r).pc = "over")
  BY NextFits
<1>3. review' = [review EXCEPT ![r] = NextAgent(r)]
  BY DEF Leave
<1>4. /\ review' \in [Reviews -> Passes] /\ review'[r] = NextAgent(r)
      /\ \A q \in Reviews \ {r} : review'[q] = review[q]
  BY <1>1, <1>2, <1>3
<1>5. gate' = IF gate = r THEN Nobody ELSE gate
  BY DEF Leave
<1>6. TurnReviews \subseteq Reviews
  BY DEF Reviews
<1>7. gate' \in TurnReviews \cup {Nobody} /\ running' \in [Agents -> Reviews \cup {Nobody}]
  BY <1>1, <1>5 DEF GateHeld
<1>8. \A q \in TurnReviews : review'[q].pc \in Working => gate' = q
  BY <1>1, <1>2, <1>4, <1>5, <1>6 DEF GateHeld, Working
<1>9. \A a \in Agents : running'[a] # Nobody => review'[running'[a]].pc = "model" /\ Head(review'[running'[a]].left) = a
  BY <1>1, <1>4 DEF GateHeld
<1>10. \A q \in Reviews : review'[q].pc = "model" => running'[Head(review'[q].left)] = q
  BY <1>1, <1>2, <1>4 DEF GateHeld
<1>11. \A q \in Reviews : review'[q].pc = "parked" => running'[Head(review'[q].left)] # Nobody
  BY <1>1, <1>2, <1>4 DEF GateHeld
<1>12. GateHeld'
  BY <1>7, <1>8, <1>9, <1>10, <1>11 DEF GateHeld
<1> QED
  BY <1>2, <1>4, <1>12

\* A step that writes no version.
LEMMA ReviewGoesOn ==
  ASSUME ReflectionAssumption, MindInv, NEW r \in Reviews, UNCHANGED <<now, policy, history, record>>,
         review' \in [Reviews -> Passes], PassFits(r, review'[r], history, now),
         \A q \in Reviews \ {r} :
           \/ review'[q] = review[q]
           \/ review[q].pc = "parked" /\ review'[q] = [review[q] EXCEPT !.pc = "enter"],
         GateHeld'
  PROVE  MindInv' /\ StepsAreSmall
<1>1. ChainsGrow(history, history') /\ StepsAreSmall
  BY ChainsStay
<1>2. /\ history' \in [Kinds -> [Agents -> Seq(Versions)]] /\ record' \subseteq Dialogues \X Agents
      /\ \A d \in Dialogues, b \in Agents, j \in {"peer", "affect"} :
           OnceIn(history'[j][b], d, b, <<d, b>> \in record')
  BY DEF MindInv
<1>3. MindInv'
  BY <1>1, <1>2, ReviewMoves
<1> QED
  BY <1>1, <1>3

LEMMA LeavingKeepsMinds ==
  ASSUME ReflectionAssumption, MindInv, NEW r \in Reviews, review[r].pc \in Working \ {"model"}, Leave(r),
         UNCHANGED <<now, policy, history, record, running>>
  PROVE  MindInv' /\ StepsAreSmall
  BY LeaveFits, ReviewGoesOn

LEMMA StartsKeepMinds ==
  ASSUME ReflectionAssumption, MindInv, NEW r \in Reviews, StartTurnReview(r) \/ StartSocialReview(r)
  PROVE  MindInv' /\ StepsAreSmall
<1>1. review \in [Reviews -> Passes] /\ GateHeld /\ review[r].pc = "idle" /\ TurnReviews \subseteq Reviews
  BY DEF MindInv, StartTurnReview, StartSocialReview, Reviews
<1>2. review[r] \in Passes /\ review[r].seen = <<>>
  BY <1>1 DEF MindInv, PassFits
<1>3. UNCHANGED <<now, policy, history, record, running>>
  BY DEF StartTurnReview, StartSocialReview
<1>4. CASE review' = To(r, "over") /\ gate' = gate
  <2> DEFINE w == [review[r] EXCEPT !.pc = "over"]
  <2>1. w \in Passes
    BY <1>2 DEF Passes
  <2>2. w.pc = "over"
    BY <1>2 DEF Passes
  <2>3. review'[r] = w /\ \A q \in Reviews \ {r} : review'[q] = review[q]
    BY <1>1, <1>4 DEF To
  <2> HIDE DEF w
  <2>4. review' \in [Reviews -> Passes]
    BY <1>1, <1>4, <2>1, <2>3 DEF To
  <2>5. PassFits(r, review'[r], history, now)
    BY <2>1, <2>2, <2>3 DEF PassFits, Working
  <2>6. GateHeld'
    BY <1>1, <1>3, <1>4, <2>2, <2>3 DEF GateHeld, Working
  <2> QED
    BY <1>3, <2>3, <2>4, <2>5, <2>6, ReviewGoesOn
<1>5. ASSUME NEW l \in Lefts, l # <<>>, review' = [review EXCEPT ![r].pc = "read", ![r].left = l],
             r \in TurnReviews => Tail(l) = <<>> /\ gate = Nobody /\ gate' = r,
             r \notin TurnReviews => gate' = gate
      PROVE  MindInv' /\ StepsAreSmall
  <2> DEFINE w == [review[r] EXCEPT !.pc = "read", !.left = l]
  <2>1. w \in Passes
    BY <1>2 DEF Passes, Working
  <2>2. w.pc = "read"
    BY <1>2 DEF Passes
  <2>3. w.left = l
    BY <1>2 DEF Passes
  <2>4. w.seen = <<>>
    BY <1>2 DEF Passes
  <2>5. review'[r] = w /\ \A q \in Reviews \ {r} : review'[q] = review[q]
    BY <1>1, <1>5
  <2>6. review' \in [Reviews -> Passes]
    BY <1>1, <1>5, <2>1, <2>5
  <2> HIDE DEF w
  <2>7. SnapshotFits(r, w, history)
    <3>1. Len(w.seen) = 0 /\ 0 < Len(Steps(r)) /\ \A k \in KindsRead(r) : ~(Pos(r, k) <= 0)
      BY <2>4, StepsArePos
    <3>2. r \in TurnReviews => Durables \subseteq KindsRead(r)
      BY KindsAre
    <3> QED
      BY <1>5, <2>2, <2>3, <3>1, <3>2 DEF SnapshotFits
  <2>8. PassFits(r, review'[r], history, now)
    BY <2>1, <2>2, <2>5, <2>7 DEF PassFits
  <2>9. gate' \in TurnReviews \cup {Nobody}
    BY <1>1, <1>5 DEF GateHeld
  <2>10. \A q \in TurnReviews : review'[q].pc \in Working => gate' = q
    <3> SUFFICES ASSUME NEW q \in TurnReviews, review'[q].pc \in Working, q # r PROVE gate' = q
      BY <1>5
    <3>1. gate = q
      BY <1>1, <2>5 DEF GateHeld
    <3>2. q # Nobody
      BY ReflectionAssumption DEF Nobody
    <3> QED
      BY <1>5, <3>1, <3>2
  <2>11. GateHeld'
    BY <1>1, <1>3, <2>2, <2>5, <2>9, <2>10 DEF GateHeld
  <2> QED
    BY <1>3, <2>5, <2>6, <2>8, <2>11, ReviewGoesOn
<1>6. CASE StartTurnReview(r)
  <2>1. CASE auto /\ GateFree
    <3>1. /\ r \in TurnReviews /\ gate = Nobody /\ gate' = r
          /\ review' = [review EXCEPT ![r].pc = "read", ![r].left = <<TurnAgent[r]>>]
      BY <1>6, <2>1 DEF StartTurnReview, GateFree
    <3>2. TurnAgent[r] \in Agents
      BY <3>1, ReflectionAssumption
    <3>3. <<TurnAgent[r]>> \in Lefts /\ <<TurnAgent[r]>> # <<>> /\ Tail(<<TurnAgent[r]>>) = <<>>
      BY <3>2 DEF Lefts
    <3> QED
      BY <1>5, <3>1, <3>3
  <2>2. CASE ~(auto /\ GateFree)
    BY <1>4, <1>6, <2>2 DEF StartTurnReview
  <2> QED
    BY <2>1, <2>2
<1>7. CASE StartSocialReview(r)
  <2> DEFINE d == DialogueOf[r]
  <2>1. r \in SocialReviews /\ r \notin TurnReviews /\ d \in Dialogues /\ gate' = gate
    BY <1>7, ReflectionAssumption DEF StartSocialReview
  <2>2. Observers[d] \in Agents \X Agents
    BY <2>1, ReflectionAssumption
  <2>3. Observers[d] \in Lefts /\ Observers[d] # <<>>
    BY <2>2 DEF Lefts
  <2>4. \/ review' = [review EXCEPT ![r].pc = "read", ![r].left = Observers[d]]
        \/ review' = To(r, "over")
    BY <1>7 DEF StartSocialReview
  <2> QED
    BY <1>4, <1>5, <2>1, <2>3, <2>4
<1> QED
  BY <1>6, <1>7

-----------------------------------------------------------------------------
(* Reviews: the snapshot grows by one version.                             *)

LEMMA SeesMore ==
  ASSUME NEW r, NEW v, NEW w, NEW h, NEW t, NEW n \in Nat, v \in Passes, v.pc = "read", SnapshotFits(r, v, h),
         w \in Passes, w.left = v.left, w.seen = Append(v.seen, n),
         w.pc = IF Len(v.seen) + 1 = Len(Steps(r)) THEN "enter" ELSE "read",
         \A k \in KindsRead(r) : Pos(r, k) = Len(v.seen) + 1 =>
           n \in 1..Len(h[k][Head(v.left)]) /\ n = Len(h[k][Head(v.left)])
  PROVE  PassFits(r, w, h, t)
<1> DEFINE s == v.seen
<1>1. /\ s \in Seq(Nat) /\ Len(s) \in Nat /\ Len(w.seen) = Len(s) + 1 /\ w.seen[Len(s) + 1] = n
      /\ \A i \in 1..Len(s) : w.seen[i] = s[i]
  BY DEF Passes
<1>2. Len(s) < Len(Steps(r)) /\ Len(Steps(r)) \in Nat
  BY StepsArePos DEF SnapshotFits
<1>3. \A k \in KindsRead(r) : Pos(r, k) \in 1..Len(Steps(r))
  BY StepsArePos
<1> HIDE DEF s
<1>4. ASSUME NEW k \in KindsRead(r), Pos(r, k) <= Len(w.seen)
      PROVE  \/ Pos(r, k) <= Len(s) /\ SeenIn(r, w, k) = SeenIn(r, v, k)
             \/ SeenIn(r, w, k) = Len(h[k][Head(v.left)]) /\ SeenIn(r, w, k) \in 1..Len(h[k][Head(v.left)])
  <2>1. CASE Pos(r, k) <= Len(s)
    BY <1>1, <1>3, <2>1 DEF SeenIn, s
  <2>2. CASE Pos(r, k) = Len(s) + 1
    BY <1>1, <2>2 DEF SeenIn, s
  <2> QED
    BY <1>1, <1>2, <1>3, <1>4, <2>1, <2>2
<1>5. \A k \in KindsRead(r) : Pos(r, k) <= Len(w.seen) => SeenIn(r, w, k) \in 1..Len(h[k][Head(w.left)])
  BY <1>4 DEF SnapshotFits, s
<1>6. r \in TurnReviews => \A j \in Durables :
        Pos(r, j) <= Len(w.seen) /\ h[j][Head(w.left)][Len(h[j][Head(w.left)])].op = "update" =>
          SeenIn(r, w, j) = Len(h[j][Head(w.left)])
  BY <1>4, KindsAre DEF SnapshotFits, s
<1>7. w.pc = "read" <=> Len(w.seen) < Len(Steps(r))
  BY <1>1, <1>2 DEF s
<1>8. /\ w.left # <<>> /\ (r \in TurnReviews => Tail(w.left) = <<>>) /\ Len(w.seen) <= Len(Steps(r))
  BY <1>1, <1>2 DEF SnapshotFits
<1>9. SnapshotFits(r, w, h)
  BY <1>5, <1>6, <1>7, <1>8 DEF SnapshotFits
<1> QED
  BY <1>9 DEF PassFits

LEMMA SawKeepsMinds ==
  ASSUME ReflectionAssumption, MindInv, NEW r \in Reviews, NEW n \in Nat, NEW w \in Passes,
         review[r].pc = "read", review' = [review EXCEPT ![r] = w], w.left = review[r].left,
         w.seen = Append(review[r].seen, n),
         w.pc = IF Len(review[r].seen) + 1 = Len(Steps(r)) THEN "enter" ELSE "read",
         UNCHANGED <<now, policy, record, gate, running>>,
         \/ history' = history
         \/ r \notin TurnReviews /\ history' = Appended("peer", Agent(r), PeerSeed),
         Steps(r)[Len(review[r].seen) + 1] \in Kinds =>
           n > 0 /\ n = Len(history'[Steps(r)[Len(review[r].seen) + 1]][Agent(r)])
  PROVE  MindInv' /\ StepsAreSmall
<1> DEFINE v == review[r]
<1>1. v \in Passes /\ PassFits(r, v, history, now) /\ review \in [Reviews -> Passes] /\ GateHeld /\ now \in Int
  BY DEF MindInv
<1>2. Agent(r) \in Agents /\ v.pc \in Working /\ Agent(r) = Head(v.left)
  BY AgentIs DEF Working
<1>3. /\ history' \in [Kinds -> [Agents -> Seq(Versions)]] /\ ChainsGrow(history, history') /\ StepsAreSmall
      /\ \A j \in Kinds, b \in Agents : Quiet(history[j][b], history'[j][b])
      /\ \A d \in Dialogues, b \in Agents, j \in {"peer", "affect"} :
           OnceIn(history'[j][b], d, b, <<d, b>> \in record)
      /\ \A j \in Durables, b \in Agents : history'[j][b] = history[j][b]
  <2>1. CASE history' = history
    <3>1. /\ history' \in [Kinds -> [Agents -> Seq(Versions)]]
          /\ \A d \in Dialogues, b \in Agents, j \in {"peer", "affect"} :
               OnceIn(history'[j][b], d, b, <<d, b>> \in record)
      BY <2>1 DEF MindInv
    <3>2. \A j \in Kinds, b \in Agents : Quiet(history[j][b], history'[j][b])
      BY <2>1, SMTT(40) DEF Quiet
    <3> QED
      BY <2>1, <3>1, <3>2, ChainsStay
  <2>2. CASE history' = Appended("peer", Agent(r), PeerSeed)
    <3>1. "peer" \in Kinds /\ PeerSeed \in Versions /\ PeerSeed.op # "update"
      BY SeedsAreVersions DEF Kinds
    <3>2. \A j \in Durables : j \in Kinds /\ j # "peer"
      BY DEF Durables, Kinds
    <3> QED
      BY <1>2, <2>2, <3>1, <3>2, AppendedOne
  <2> QED
    BY <2>1, <2>2
<1> HIDE DEF v
<1>4. PassFits(r, v, history', now)
  <2>1. r \in TurnReviews /\ v.pc \in Working =>
          \A j \in Durables : Quiet(history[j][Head(v.left)], history'[j][Head(v.left)])
    BY <1>2, <1>3 DEF Quiet
  <2>2. ChainsGrow(history, history') /\ now <= now
    BY <1>1, <1>3
  <2>3. PassFits(r, v, history, now) /\ now \in Int
    BY <1>1
  <2> QED
    BY <2>1, <2>2, <2>3, PassGoesOn
<1>5. \A k \in KindsRead(r) : Pos(r, k) = Len(v.seen) + 1 =>
        n \in 1..Len(history'[k][Head(v.left)]) /\ n = Len(history'[k][Head(v.left)])
  <2> SUFFICES ASSUME NEW k \in KindsRead(r), Pos(r, k) = Len(v.seen) + 1
               PROVE  n > 0 /\ n = Len(history'[k][Head(v.left)])
    OBVIOUS
  <2>1. Steps(r)[Len(v.seen) + 1] = k /\ k \in Kinds
    BY StepsArePos, KindsAre
  <2> QED
    BY <1>2, <2>1 DEF v
<1>6. PassFits(r, w, history', now)
  <2>1. SnapshotFits(r, v, history') /\ v.pc = "read" /\ v \in Passes /\ w.left = v.left /\ w.seen = Append(v.seen, n)
    BY <1>1, <1>2, <1>4 DEF PassFits, v
  <2>2. w.pc = IF Len(v.seen) + 1 = Len(Steps(r)) THEN "enter" ELSE "read"
    BY DEF v
  <2> QED
    BY <1>5, <2>1, <2>2, SeesMore
<1>7. review'[r] = w /\ review' \in [Reviews -> Passes] /\ \A q \in Reviews \ {r} : review'[q] = review[q]
  BY <1>1
<1>8. GateHeld'
  <2>1. w.pc \in {"enter", "read"}
    OBVIOUS
  <2>2. \A q \in TurnReviews : review'[q].pc \in Working => gate' = q
    BY <1>1, <1>2, <1>7 DEF GateHeld, Reviews, v
  <2> QED
    BY <1>1, <1>7, <2>1, <2>2 DEF GateHeld
<1>9. MindInv'
  BY <1>3, <1>6, <1>7, <1>8, ReviewMoves DEF MindInv
<1> QED
  BY <1>3, <1>9

LEMMA SawIs ==
  ASSUME MindInv, NEW r \in Reviews, NEW n \in Nat, Saw(r, n)
  PROVE  \E w \in Passes :
           /\ review' = [review EXCEPT ![r] = w] /\ w.left = review[r].left /\ w.seen = Append(review[r].seen, n)
           /\ w.pc = IF Len(review[r].seen) + 1 = Len(Steps(r)) THEN "enter" ELSE "read"
<1> DEFINE v == review[r]
<1> DEFINE pc == IF Len(v.seen) + 1 = Len(Steps(r)) THEN "enter" ELSE "read"
<1> DEFINE s == Append(v.seen, n)
<1>1. v \in Passes /\ review \in [Reviews -> Passes]
  BY DEF MindInv
<1>2. review' = [review EXCEPT ![r] = [v EXCEPT !.seen = s, !.pc = pc]]
  BY <1>1 DEF Saw
<1>3. s \in Seq(Nat) /\ pc \in Working
  BY <1>1 DEF Passes, Working
<1>4. s = Append(review[r].seen, n) /\ pc = IF Len(review[r].seen) + 1 = Len(Steps(r)) THEN "enter" ELSE "read"
  OBVIOUS
<1>5. v.left = review[r].left
  OBVIOUS
<1> HIDE DEF s, pc, v
<1> DEFINE w == [v EXCEPT !.seen = s, !.pc = pc]
<1>6. w \in Passes
  BY <1>1, <1>3 DEF Passes
<1>7. w.left = v.left
  BY <1>1 DEF Passes
<1>8. w.seen = s
  BY <1>1 DEF Passes
<1>9. w.pc = pc
  BY <1>1 DEF Passes
<1> QED
  BY <1>2, <1>4, <1>5, <1>6, <1>7, <1>8, <1>9

LEMMA ReadsKeepMinds ==
  ASSUME ReflectionAssumption, MindInv, NEW r \in Reviews, Read(r)
  PROVE  MindInv' /\ StepsAreSmall
<1> DEFINE what == Steps(r)[Len(review[r].seen) + 1]
<1>1. /\ review[r].pc = "read" /\ review[r].pc \in Working \ {"model"}
      /\ UNCHANGED <<policy, auto, record, running, now, edits, switches>>
  BY DEF Read, Working
<1>2. review[r] \in Passes /\ SnapshotFits(r, review[r], history) /\ Agent(r) \in Agents /\ review \in [Reviews -> Passes]
  BY <1>1, AgentIs DEF MindInv, PassFits
<1>3. Len(review[r].seen) + 1 \in 1..Len(Steps(r))
  BY <1>1, <1>2, StepsArePos DEF SnapshotFits, Passes
<1>4. /\ what \in Kinds \cup {"record", "policy"}
      /\ what \in Kinds => what \in KindsRead(r)
      /\ what = "policy" => Len(review[r].seen) + 1 = 4
  <2>1. Steps(r) = <<"persona", "owner", "affect", "policy">> \/ Steps(r) = <<"record", "persona", "affect", "policy", "peer">>
    BY DEF Steps
  <2>2. \A i \in 1..Len(Steps(r)) : Steps(r)[i] = "policy" => i = 4
    <3>1. \A i \in 1..5 : i = 1 \/ i = 2 \/ i = 3 \/ i = 4 \/ i = 5
      OBVIOUS
    <3>2. \A i \in 1..4 : i = 1 \/ i = 2 \/ i = 3 \/ i = 4
      OBVIOUS
    <3>3. CASE Steps(r) = <<"persona", "owner", "affect", "policy">>
      BY <3>2, <3>3
    <3>4. CASE Steps(r) = <<"record", "persona", "affect", "policy", "peer">>
      BY <3>1, <3>4
    <3> QED
      BY <2>1, <3>3, <3>4
  <2> QED
    BY <1>3, <2>2, StepsArePos
<1>5. ASSUME NEW n \in Nat, Saw(r, n), gate' = gate,
             \/ history' = history
             \/ r \notin TurnReviews /\ history' = Appended("peer", Agent(r), PeerSeed),
             what \in Kinds => n > 0 /\ n = Len(history'[what][Agent(r)])
      PROVE  MindInv' /\ StepsAreSmall
  BY <1>1, <1>5, SawIs, SawKeepsMinds
<1>6. ASSUME Leave(r), history' = history PROVE MindInv' /\ StepsAreSmall
  BY <1>1, <1>6, LeavingKeepsMinds
<1>7. CASE what = "record"
  <2>1. ReadRecord(r)
    BY <1>7 DEF Read
  <2>2. what \notin Kinds
    BY <1>7 DEF Kinds
  <2> QED
    BY <1>5, <1>6, <2>1, <2>2 DEF ReadRecord
<1>8. CASE what = "policy"
  <2>1. ReadPolicy(r)
    BY <1>8 DEF Read
  <2>2. CASE ~MayReflect(Agent(r))
    BY <1>6, <2>1, <2>2 DEF ReadPolicy
  <2>3. CASE MayReflect(Agent(r))
    <3> DEFINE v == review[r]
    <3> DEFINE pc == IF r \in TurnReviews THEN "enter" ELSE "read"
    <3> DEFINE s == Append(v.seen, 0)
    <3> DEFINE l == policy[Agent(r)].locked
    <3>1. /\ review' = [review EXCEPT ![r] = [v EXCEPT !.seen = s, !.locked = l, !.pc = pc]]
          /\ history' = history /\ gate' = gate
      BY <1>2, <2>1, <2>3 DEF ReadPolicy
    <3>2. pc = IF Len(review[r].seen) + 1 = Len(Steps(r)) THEN "enter" ELSE "read"
      <4>1. Len(review[r].seen) + 1 = 4
        BY <1>4, <1>8
      <4>2. Len(Steps(r)) = IF r \in TurnReviews THEN 4 ELSE 5
        BY DEF Steps
      <4> QED
        BY <4>1, <4>2
    <3>3. s \in Seq(Nat) /\ pc \in Working
      BY <1>2 DEF Passes, Working
    <3>4. l \in SUBSET Kinds
      <4>1. policy[Agent(r)] \in Policies
        BY <1>2 DEF MindInv
      <4> QED
        BY <4>1, ReflectionAssumption DEF Policies, Kinds
    <3>5. s = Append(review[r].seen, 0) /\ v.left = review[r].left /\ v \in Passes
      BY <1>2
    <3> HIDE DEF s, pc, l, v
    <3> DEFINE w == [v EXCEPT !.seen = s, !.locked = l, !.pc = pc]
    <3>6. w \in Passes
      BY <3>3, <3>4, <3>5 DEF Passes
    <3>7. w.left = v.left
      BY <3>5 DEF Passes
    <3>8. w.seen = s
      BY <3>5 DEF Passes
    <3>9. w.pc = pc
      BY <3>5 DEF Passes
    <3>10. review' = [review EXCEPT ![r] = w]
      BY <3>1
    <3> HIDE DEF w
    <3>11. what \notin Kinds
      BY <1>8 DEF Kinds
    <3>12. /\ w.left = review[r].left /\ w.seen = Append(review[r].seen, 0)
           /\ w.pc = IF Len(review[r].seen) + 1 = Len(Steps(r)) THEN "enter" ELSE "read"
      BY <3>2, <3>5, <3>7, <3>8, <3>9
    <3>13. UNCHANGED <<now, policy, record, gate, running>> /\ history' = history
      BY <1>1, <3>1
    <3>14. review[r].pc = "read" /\ 0 \in Nat /\ Steps(r)[Len(review[r].seen) + 1] \notin Kinds
      BY <1>1, <3>11
    <3> QED
      BY <3>6, <3>10, <3>12, <3>13, <3>14, SawKeepsMinds
  <2> QED
    BY <2>2, <2>3
<1>9. CASE what = "peer"
  <2>1. ReadPeer(r)
    BY <1>9 DEF Read
  <2>2. r \notin TurnReviews /\ "peer" \in Kinds
    BY <1>4, <1>9 DEF Kinds, KindsRead
  <2>3. history["peer"][Agent(r)] \in Seq(Versions)
    BY <1>2, <2>2, ChainsAre
  <2>4. CASE Exists("peer", Agent(r))
    <3>1. Len(history["peer"][Agent(r)]) \in Nat /\ Len(history["peer"][Agent(r)]) > 0
      BY <2>3, <2>4 DEF Exists
    <3> QED
      BY <1>5, <1>9, <2>1, <2>4, <3>1 DEF ReadPeer
  <2>5. CASE ~Exists("peer", Agent(r))
    <3>1. Saw(r, 1) /\ history' = Appended("peer", Agent(r), PeerSeed) /\ gate' = gate
      BY <2>1, <2>5 DEF ReadPeer
    <3>2. history'["peer"][Agent(r)] = Append(<<>>, PeerSeed)
      BY <1>2, <2>2, <2>5, <3>1 DEF Appended, Exists, MindInv
    <3>3. Len(history'["peer"][Agent(r)]) = 1
      BY <3>2
    <3> QED
      <4>1. what \in Kinds => 1 > 0 /\ 1 = Len(history'[what][Agent(r)])
        BY <1>9, <3>3
      <4> HIDE DEF what
      <4> QED
        BY <1>5, <2>2, <3>1, <4>1
  <2> QED
    BY <2>4, <2>5
<1>10. CASE what \in Kinds \ {"peer"}
  <2>1. ReadChain(r, what)
    BY <1>10 DEF Read, Kinds
  <2>2. history[what][Agent(r)] \in Seq(Versions)
    BY <1>2, <1>10, ChainsAre
  <2>3. CASE Exists(what, Agent(r))
    <3>1. Len(history[what][Agent(r)]) \in Nat /\ Len(history[what][Agent(r)]) > 0
      BY <2>2, <2>3 DEF Exists
    <3> QED
      BY <1>5, <2>1, <2>3, <3>1 DEF ReadChain
  <2>4. CASE ~Exists(what, Agent(r))
    BY <1>6, <2>1, <2>4 DEF ReadChain
  <2> QED
    BY <2>3, <2>4
<1> QED
  BY <1>4, <1>7, <1>8, <1>9, <1>10

-----------------------------------------------------------------------------
(* Reviews: at the coordinator, and with the model.                        *)

\* What a review that has read everything knows.
LEMMA AllIsSeen ==
  ASSUME MindInv, NEW r \in Reviews, review[r].pc \in Working \ {"read"}, NEW k \in KindsRead(r)
  PROVE  /\ SeenVersion(r, k) = SeenIn(r, review[r], k)
         /\ Basis(r, k) = ReadIn(r, review[r], history, k)
         /\ SeenVersion(r, k) \in 1..Len(history[k][Agent(r)])
         /\ Basis(r, k) \in Versions /\ k \in Kinds
         /\ Basis(r, k) = history[k][Agent(r)][SeenVersion(r, k)]
<1>1. SnapshotFits(r, review[r], history) /\ review[r].seen \in Seq(Nat)
  BY DEF MindInv, PassFits, Passes
<1>2. Len(review[r].seen) = Len(Steps(r))
  BY <1>1, StepsArePos DEF SnapshotFits
<1>3. Pos(r, k) <= Len(review[r].seen)
  BY <1>2, StepsArePos
<1> QED
  BY <1>3, SeenIsThere DEF Basis

\* The newest of two heads is the last durable update.
LEMMA NotPaused ==
  ASSUME ReflectionAssumption, MindInv, NEW r \in Reviews, review[r].pc \in Working \ {"read"}, ~Paused(r)
  PROVE  Cooled(r, review[r], history, now)
<1> SUFFICES ASSUME r \in TurnReviews, NEW j \in Durables, ReadIn(r, review[r], history, j).op = "update"
             PROVE  ReadIn(r, review[r], history, j).at + Cooldown <= now
  BY DEF Cooled
<1>1. {"persona", "owner"} \cap Proposable(r) = Durables /\ Durables \subseteq KindsRead(r)
  BY DEF Proposable, Durables, KindsRead
<1> DEFINE hd(k) == [n |-> SeenVersion(r, k), author |-> Basis(r, k).author, at |-> Basis(r, k).at]
<1>2. Heads(r) = {hd(k) : k \in Durables}
  BY <1>1 DEF Heads
<1>3. \A k \in Durables : Basis(r, k) \in Versions
  BY <1>1, AllIsSeen
<1>4. \A k \in Durables : hd(k).at \in 0..MaxTime
  BY <1>3 DEF Versions
<1> DEFINE durable == {v \in Heads(r) : v.n > 1 /\ v.author # NoRun}
<1>5. hd(j) \in durable
  <2>1. Basis(r, j).op = "update" /\ SeenVersion(r, j) \in 1..Len(history[j][Agent(r)]) /\ j \in Kinds
        /\ Basis(r, j) = history[j][Agent(r)][SeenVersion(r, j)]
    BY <1>1, AllIsSeen
  <2>2. Agent(r) \in Agents
    BY AgentIs
  <2>3. SeenVersion(r, j) > 1 /\ Basis(r, j).author # NoRun
    BY <2>1, <2>2, ChainsAre DEF ChainFits
  <2> QED
    BY <1>2, <2>3
<1>6. \A v \in durable : v.at \in 0..MaxTime
  BY <1>2, <1>4
<1> DEFINE ats == {v.at : v \in durable}
<1>7. \E t \in ats : \A v \in durable : v.at <= t
  <2>1. \A v \in durable : v = hd("persona") \/ v = hd("owner")
    BY <1>2 DEF Durables
  <2> HIDE DEF durable, hd
  <2>2. CASE \A v \in durable : v.at <= hd(j).at
    BY <1>5, <2>2
  <2>3. CASE \E x \in durable : ~(x.at <= hd(j).at)
    <3>1. PICK x \in durable : ~(x.at <= hd(j).at)
      BY <2>3
    <3>2. x.at \in 0..MaxTime /\ hd(j).at \in 0..MaxTime /\ MaxTime \in Nat
      BY <1>5, <1>6, ReflectionAssumption
    <3>3. x # hd(j) /\ x.at <= x.at /\ hd(j).at <= x.at
      BY <3>1, <3>2
    <3>4. \A v \in durable : v = x \/ v = hd(j)
      BY <1>5, <2>1, <3>3
    <3>5. \A v \in durable : v.at <= x.at
      BY <3>3, <3>4
    <3> QED
      BY <3>5
  <2> QED
    BY <2>2, <2>3
<1> DEFINE d == DurableAt(Heads(r))
<1>8. d = CHOOSE t \in ats : \A v \in durable : v.at <= t
  <2>1. durable # {}
    BY <1>5
  <2> QED
    BY <2>1 DEF DurableAt
<1>9. d \in ats /\ \A v \in durable : v.at <= d
  BY <1>7, <1>8
<1>10. d \in 0..MaxTime /\ hd(j).at <= d
  BY <1>5, <1>6, <1>9
<1>11. ~(now < d + Cooldown)
  <2>1. d # -1
    BY <1>10, ReflectionAssumption
  <2> QED
    BY <2>1 DEF Paused
<1>12. hd(j).at = ReadIn(r, review[r], history, j).at
  BY <1>1, AllIsSeen
<1>13. now \in Int /\ Cooldown \in Nat /\ hd(j).at \in Int /\ MaxTime \in Nat
  BY <1>4, ReflectionAssumption DEF MindInv
<1> HIDE DEF d, hd
<1> QED
  BY <1>10, <1>11, <1>12, <1>13

LEMMA AcquireKeepsMinds ==
  ASSUME ReflectionAssumption, MindInv, NEW r \in Reviews, Acquire(r)
  PROVE  MindInv' /\ StepsAreSmall
<1>1. /\ review[r].pc = "enter" /\ review[r].pc \in Working \ {"read"}
      /\ UNCHANGED <<now, policy, history, record, gate>>
  BY DEF Acquire, Working
<1>2. review[r] \in Passes /\ SnapshotFits(r, review[r], history) /\ review \in [Reviews -> Passes] /\ GateHeld
  BY <1>1 DEF MindInv, PassFits
<1>3. Agent(r) \in Agents /\ Agent(r) = Head(review[r].left)
  BY <1>1, AgentIs
<1>4. CASE running[Agent(r)] = Nobody
  <2> DEFINE p == Paused(r)
  <2> DEFINE f == AffectFades(r)
  <2>1. p \in BOOLEAN /\ f \in BOOLEAN
    BY DEF Paused, AffectFades
  <2>2. ~p => Cooled(r, review[r], history, now)
    BY <1>1, NotPaused
  <2>3. f => ReadIn(r, review[r], history, "affect").trait > 0
    <3>1. "affect" \in KindsRead(r)
      BY DEF KindsRead
    <3>2. Basis(r, "affect") = ReadIn(r, review[r], history, "affect")
      BY <1>1, <3>1, AllIsSeen
    <3> QED
      BY <3>2 DEF AffectFades
  <2>4. /\ review' = [review EXCEPT ![r].pc = "model", ![r].paused = p, ![r].decayed = f]
        /\ running' = [running EXCEPT ![Agent(r)] = r]
    BY <1>4 DEF Acquire
  <2> HIDE DEF p, f
  <2> DEFINE w == [review[r] EXCEPT !.pc = "model", !.paused = p, !.decayed = f]
  <2>5. w \in Passes
    BY <1>2, <2>1 DEF Passes, Working
  <2>6. w.pc = "model"
    BY <1>2 DEF Passes
  <2>7. w.left = review[r].left /\ w.seen = review[r].seen
    BY <1>2 DEF Passes
  <2>8. w.paused = p
    BY <1>2 DEF Passes
  <2>9. w.decayed = f
    BY <1>2 DEF Passes
  <2>10. review'[r] = w /\ \A q \in Reviews \ {r} : review'[q] = review[q]
    BY <1>2, <2>4
  <2>11. review' \in [Reviews -> Passes]
    BY <1>2, <2>4, <2>5, <2>10
  <2> HIDE DEF w
  <2>12. SnapshotFits(r, w, history)
    BY <1>1, <1>2, <2>6, <2>7, SMTT(40) DEF SnapshotFits, SeenIn
  <2>13. /\ \A k : ReadIn(r, w, history, k) = ReadIn(r, review[r], history, k)
         /\ Cooled(r, review[r], history, now) => Cooled(r, w, history, now)
    BY <2>7 DEF ReadIn, SeenIn, Cooled
  <2>14. PassFits(r, review'[r], history, now)
    BY <2>2, <2>3, <2>5, <2>6, <2>8, <2>9, <2>10, <2>12, <2>13 DEF PassFits
  <2>15. \A q \in TurnReviews : review'[q].pc \in Working => gate' = q
    BY <1>1, <1>2, <2>10 DEF GateHeld, Reviews
  <2>16. running' \in [Agents -> Reviews \cup {Nobody}] /\ running'[Agent(r)] = r
         /\ \A a \in Agents \ {Agent(r)} : running'[a] = running[a]
    BY <1>2, <1>3, <2>4 DEF GateHeld
  <2>17. r # Nobody
    BY ReflectionAssumption DEF Reviews, Nobody
  <2>18. \A a \in Agents : running'[a] # Nobody => review'[running'[a]].pc = "model" /\ Head(review'[running'[a]].left) = a
    <3> SUFFICES ASSUME NEW a \in Agents, running'[a] # Nobody
                 PROVE  review'[running'[a]].pc = "model" /\ Head(review'[running'[a]].left) = a
      OBVIOUS
    <3>1. CASE a = Agent(r)
      BY <1>3, <2>6, <2>7, <2>10, <2>16, <3>1
    <3>2. CASE a # Agent(r)
      <4>1. running[a] \in Reviews /\ review[running[a]].pc = "model" /\ Head(review[running[a]].left) = a
        BY <1>2, <2>16, <3>2 DEF GateHeld
      <4> QED
        BY <1>1, <2>10, <2>16, <3>2, <4>1
    <3> QED
      BY <3>1, <3>2
  <2>19. ASSUME NEW q \in Reviews, review'[q].pc = "model" PROVE running'[Head(review'[q].left)] = q
    <3>1. CASE q = r
      BY <1>3, <2>7, <2>10, <2>16, <3>1
    <3>2. CASE q # r
      <4>1. running[Head(review[q].left)] = q /\ review[q].pc = "model"
        BY <1>2, <2>10, <2>19, <3>2 DEF GateHeld
      <4>2. Head(review[q].left) \in Agents
        BY <4>1, AgentIs DEF Working
      <4>3. q # Nobody
        BY ReflectionAssumption DEF Reviews, Nobody
      <4>4. Head(review[q].left) # Agent(r)
        BY <1>4, <4>1, <4>3
      <4> QED
        BY <2>10, <2>16, <3>2, <4>1, <4>2, <4>4
    <3> QED
      BY <3>1, <3>2
  <2>20. ASSUME NEW q \in Reviews, review'[q].pc = "parked" PROVE running'[Head(review'[q].left)] # Nobody
    <3>1. q # r
      BY <2>6, <2>10, <2>20
    <3>2. running[Head(review[q].left)] # Nobody /\ review[q].pc = "parked"
      BY <1>2, <2>10, <2>20, <3>1 DEF GateHeld
    <3>3. Head(review[q].left) \in Agents
      BY <3>2, AgentIs DEF Working
    <3> QED
      BY <2>10, <2>16, <2>17, <3>1, <3>2, <3>3
  <2>21. GateHeld'
    BY <1>1, <1>2, <2>15, <2>16, <2>18, <2>19, <2>20 DEF GateHeld
  <2> QED
    BY <1>1, <2>10, <2>11, <2>14, <2>21, ReviewGoesOn
<1>5. CASE running[Agent(r)] # Nobody
  <2>1. review' = To(r, "parked") /\ running' = running
    BY <1>5 DEF Acquire
  <2> DEFINE w == [review[r] EXCEPT !.pc = "parked"]
  <2>2. w \in Passes
    BY <1>2 DEF Passes, Working
  <2>3. w.pc = "parked"
    BY <1>2 DEF Passes
  <2>4. w.left = review[r].left /\ w.seen = review[r].seen
    BY <1>2 DEF Passes
  <2>5. review'[r] = w /\ \A q \in Reviews \ {r} : review'[q] = review[q]
    BY <1>2, <2>1 DEF To
  <2>6. review' \in [Reviews -> Passes]
    BY <1>2, <2>1, <2>2, <2>5 DEF To
  <2> HIDE DEF w
  <2>7. SnapshotFits(r, w, history)
    BY <1>1, <1>2, <2>3, <2>4 DEF SnapshotFits, SeenIn
  <2>8. PassFits(r, review'[r], history, now)
    BY <2>2, <2>3, <2>5, <2>7 DEF PassFits
  <2>9. \A q \in TurnReviews : review'[q].pc \in Working => gate' = q
    BY <1>1, <1>2, <2>5 DEF GateHeld, Reviews
  <2>10. \A a \in Agents : running'[a] # Nobody => review'[running'[a]].pc = "model" /\ Head(review'[running'[a]].left) = a
    BY <1>1, <1>2, <2>1, <2>5 DEF GateHeld
  <2>11. GateHeld'
    BY <1>1, <1>2, <1>3, <1>5, <2>1, <2>3, <2>4, <2>5, <2>9, <2>10, SMTT(40) DEF GateHeld
  <2> QED
    BY <1>1, <2>5, <2>6, <2>8, <2>11, ReviewGoesOn
<1> QED
  BY <1>4, <1>5

-----------------------------------------------------------------------------
(* Reviews: the coordinator lets the next one in.                          *)

LEMMA WokenKeepMinds ==
  ASSUME ReflectionAssumption, MindInv, NEW r \in Reviews, review[r].pc = "model",
         NEW w \in Passes, w.pc \in {"apply", "read", "over"}, PassFits(r, w, history, now),
         review' = Woken([review EXCEPT ![r] = w], Agent(r)), Release(Agent(r)),
         \/ gate' = gate
         \/ gate' = (IF gate = r THEN Nobody ELSE gate) /\ (r \in TurnReviews => w.pc = "over"),
         UNCHANGED <<now, policy, history, record>>
  PROVE  MindInv' /\ StepsAreSmall
<1> DEFINE rev == [review EXCEPT ![r] = w]
<1>1. review[r].pc \in Working /\ review \in [Reviews -> Passes] /\ GateHeld
  BY DEF MindInv, Working
<1>2. Agent(r) \in Agents /\ Agent(r) = Head(review[r].left)
  BY <1>1, AgentIs
<1>3. running[Agent(r)] = r
  BY <1>1, <1>2 DEF GateHeld
<1>4. rev \in [Reviews -> Passes] /\ rev[r] = w /\ \A q \in Reviews \ {r} : rev[q] = review[q]
  BY <1>1
<1>5. review' = [q \in Reviews |-> IF rev[q].pc = "parked" /\ Head(rev[q].left) = Agent(r)
                                   THEN [rev[q] EXCEPT !.pc = "enter"] ELSE rev[q]]
  BY DEF Woken
<1> HIDE DEF rev
<1>6. ASSUME NEW q \in Reviews
      PROVE  /\ [review[q] EXCEPT !.pc = "enter"] \in Passes
             /\ [review[q] EXCEPT !.pc = "enter"].pc = "enter"
             /\ [review[q] EXCEPT !.pc = "enter"].left = review[q].left
  <2> DEFINE v == review[q]
  <2>1. v \in Passes
    BY <1>1
  <2> HIDE DEF v
  <2>2. [v EXCEPT !.pc = "enter"] \in Passes
    BY <2>1 DEF Passes, Working
  <2>3. [v EXCEPT !.pc = "enter"].pc = "enter"
    BY <2>1 DEF Passes
  <2>4. [v EXCEPT !.pc = "enter"].left = v.left
    BY <2>1 DEF Passes
  <2> QED
    BY <2>2, <2>3, <2>4 DEF v
<1>7. review'[r] = w
  BY <1>4, <1>5
<1>8. ASSUME NEW q \in Reviews, q # r
      PROVE  IF review[q].pc = "parked" /\ Head(review[q].left) = Agent(r)
             THEN review'[q] = [review[q] EXCEPT !.pc = "enter"] ELSE review'[q] = review[q]
  <2>1. rev[q] = review[q]
    BY <1>4, <1>8
  <2>2. review'[q] = IF rev[q].pc = "parked" /\ Head(rev[q].left) = Agent(r)
                     THEN [rev[q] EXCEPT !.pc = "enter"] ELSE rev[q]
    BY <1>5
  <2>3. CASE review[q].pc = "parked" /\ Head(review[q].left) = Agent(r)
    BY <2>1, <2>2, <2>3
  <2>4. CASE ~(review[q].pc = "parked" /\ Head(review[q].left) = Agent(r))
    BY <2>1, <2>2, <2>4
  <2> QED
    BY <2>3, <2>4
<1>9. review' \in [Reviews -> Passes]
  <2>1. \A q \in Reviews : review'[q] \in Passes
    BY <1>1, <1>6, <1>7, <1>8, ZenonT(60)
  <2>2. review' = [q \in Reviews |-> review'[q]]
    BY <1>5
  <2> QED
    BY <2>1, <2>2
<1>10. running' \in [Agents -> Reviews \cup {Nobody}] /\ running'[Agent(r)] = Nobody
       /\ \A a \in Agents \ {Agent(r)} : running'[a] = running[a]
  BY <1>1, <1>2 DEF GateHeld, Release
<1>11. gate' \in TurnReviews \cup {Nobody}
  BY <1>1 DEF GateHeld
<1>12. ASSUME NEW q \in TurnReviews, review'[q].pc \in Working PROVE gate' = q
  <2>1. CASE q = r
    <3>1. w.pc # "over"
      BY <1>7, <1>12, <2>1 DEF Working
    <3>2. gate = r
      BY <1>1, <2>1 DEF GateHeld
    <3> QED
      BY <2>1, <3>1, <3>2
  <2>2. CASE q # r
    <3>1. q \in Reviews
      BY DEF Reviews
    <3>2. review[q].pc \in Working
      BY <1>8, <1>12, <2>2, <3>1 DEF Working
    <3>3. gate = q
      BY <1>1, <3>2 DEF GateHeld
    <3> QED
      BY <2>2, <3>3
  <2> QED
    BY <2>1, <2>2
<1>13. ASSUME NEW a \in Agents, running'[a] # Nobody
       PROVE  review'[running'[a]].pc = "model" /\ Head(review'[running'[a]].left) = a
  <2>1. a # Agent(r)
    BY <1>10, <1>13
  <2>2. running'[a] = running[a]
    BY <1>10, <2>1
  <2>3. running[a] \in Reviews /\ review[running[a]].pc = "model" /\ Head(review[running[a]].left) = a
    BY <1>1, <1>13, <2>2 DEF GateHeld
  <2>4. running[a] # r
    BY <1>2, <2>1, <2>3
  <2>5. review'[running[a]] = review[running[a]]
    BY <1>8, <2>3, <2>4
  <2> QED
    BY <2>2, <2>3, <2>5
<1>14. ASSUME NEW q \in Reviews, review'[q].pc = "model" PROVE running'[Head(review'[q].left)] = q
  <2>1. q # r
    BY <1>7, <1>14
  <2>2. review'[q] = review[q]
    BY <1>6, <1>8, <1>14, <2>1
  <2>3. running[Head(review[q].left)] = q /\ Head(review[q].left) \in Agents
    BY <1>1, <1>14, <2>2, AgentIs DEF GateHeld, Working
  <2>4. Head(review[q].left) # Agent(r)
    BY <1>3, <2>1, <2>3
  <2> QED
    BY <1>10, <2>2, <2>3, <2>4
<1>15. ASSUME NEW q \in Reviews, review'[q].pc = "parked" PROVE running'[Head(review'[q].left)] # Nobody
  <2>1. q # r
    BY <1>7, <1>15
  <2>2. review'[q] = review[q] /\ review[q].pc = "parked" /\ Head(review[q].left) # Agent(r)
    BY <1>6, <1>8, <1>15, <2>1
  <2>3. running[Head(review[q].left)] # Nobody /\ Head(review[q].left) \in Agents
    BY <1>1, <2>2, AgentIs DEF GateHeld, Working
  <2> QED
    BY <1>10, <2>2, <2>3
<1>16. GateHeld'
  BY <1>10, <1>11, <1>12, <1>13, <1>14, <1>15 DEF GateHeld
<1> QED
  BY <1>7, <1>8, <1>9, <1>16, ReviewGoesOn, ZenonT(60)

\* What the model proposes and the engine lets through fits the versions read.
LEMMA PlansFit ==
  ASSUME ReflectionAssumption, MindInv, NEW r \in Reviews, review[r].pc = "model",
         NEW kinds \in SUBSET Proposable(r), NEW step \in {-1, 1}, Guarded(r, kinds, step)
  PROVE  LET p == Mutation(r, kinds, step)
         IN  /\ p \in [DOMAIN p -> Int] /\ DOMAIN p \in SUBSET Kinds /\ DOMAIN p \subseteq Proposable(r)
             /\ \A k \in DOMAIN p :
                  /\ p[k] \in 0..MaxTrait
                  /\ k # "affect" => p[k] - ReadIn(r, review[r], history, k).trait \in -1..1
                  /\ k \in Durables => Cooled(r, review[r], history, now)
<1> DEFINE p == Mutation(r, kinds, step)
<1> DEFINE kept == Kept(r, kinds)
<1> DEFINE moved == kept \cup (IF review[r].decayed THEN {"affect"} ELSE {})
<1>1. review[r].pc \in Working \ {"read"} /\ review[r] \in Passes /\ PassFits(r, review[r], history, now)
  BY DEF MindInv, Working
<1>2. kept \subseteq Proposable(r) /\ moved \subseteq Proposable(r) /\ Proposable(r) \subseteq KindsRead(r)
      /\ KindsRead(r) \subseteq Kinds
  BY KindsAre DEF Kept
<1>3. \A k \in KindsRead(r) : Basis(r, k) = ReadIn(r, review[r], history, k) /\ Basis(r, k) \in Versions
  BY <1>1, AllIsSeen
<1>4. p = [k \in moved \ review[r].locked |-> Projected(r, k, IF k \in kept THEN step ELSE 0)]
  BY DEF Mutation
<1>5. DOMAIN p = moved \ review[r].locked
  BY <1>4
<1> HIDE DEF p
<1>6. ASSUME NEW k \in DOMAIN p
      PROVE  /\ p[k] \in 0..MaxTrait
             /\ k # "affect" => p[k] - ReadIn(r, review[r], history, k).trait \in -1..1
             /\ k \in Durables => Cooled(r, review[r], history, now)
  <2>1. k \in KindsRead(r) /\ k \in moved
    BY <1>2, <1>5
  <2>2. Basis(r, k).trait \in 0..MaxTrait /\ Basis(r, k) = ReadIn(r, review[r], history, k)
    BY <1>3, <2>1 DEF Versions
  <2>3. MaxTrait \in Nat
    BY ReflectionAssumption
  <2>4. CASE k \in kept
    <3>1. p[k] = Projected(r, k, step)
      BY <1>4, <1>5, <2>4
    <3>2. p[k] \in 0..MaxTrait
      BY <2>4, <3>1 DEF Guarded
    <3>3. ASSUME k # "affect" PROVE p[k] - ReadIn(r, review[r], history, k).trait \in -1..1
      <4>1. p[k] = Basis(r, k).trait + step - 0
        BY <3>1, <3>3 DEF Projected
      <4> HIDE DEF moved, kept
      <4> QED
        BY <2>2, <2>3, <4>1
    <3>4. ASSUME k \in Durables PROVE Cooled(r, review[r], history, now)
      <4>1. ~review[r].paused
        BY <2>4, <3>4 DEF Kept, Durables
      <4> QED
        BY <1>1, <4>1 DEF PassFits
    <3> QED
      BY <3>2, <3>3, <3>4
  <2>5. CASE k \notin kept
    <3>1. k = "affect" /\ review[r].decayed
      BY <2>1, <2>5
    <3>2. p[k] = Basis(r, k).trait + 0 - 1
      BY <1>4, <1>5, <2>5, <3>1 DEF Projected
    <3>3. ReadIn(r, review[r], history, "affect").trait > 0
      BY <1>1, <3>1 DEF PassFits
    <3>4. p[k] \in 0..MaxTrait
      <4> HIDE DEF moved, kept
      <4> QED
        BY <2>2, <2>3, <3>1, <3>2, <3>3
    <3> QED
      BY <3>1, <3>4 DEF Durables
  <2> QED
    BY <2>4, <2>5
<1>7. p \in [DOMAIN p -> Int]
  <2>1. \A k \in DOMAIN p : p[k] \in Int
    BY <1>6, ReflectionAssumption
  <2>2. p = [k \in DOMAIN p |-> p[k]]
    BY <1>4, <1>5
  <2> QED
    BY <2>1, <2>2
<1>8. DOMAIN p \in SUBSET Kinds /\ DOMAIN p \subseteq Proposable(r)
  BY <1>2, <1>5
<1> QED
  BY <1>6, <1>7, <1>8 DEF p

LEMMA AnswersKeepMinds ==
  ASSUME ReflectionAssumption, MindInv, NEW r \in Reviews, Answer(r)
  PROVE  MindInv' /\ StepsAreSmall
<1>1. review[r].pc = "model" /\ Release(Agent(r)) /\ UNCHANGED <<now, policy, history, record, gate>>
  BY DEF Answer
<1>2. PICK kinds \in SUBSET Proposable(r), step \in {-1, 1} :
        /\ Guarded(r, kinds, step)
        /\ review' = Woken([review EXCEPT ![r].pc = "apply", ![r].at = now,
                              ![r].plan = Mutation(r, kinds, step)], Agent(r))
  BY DEF Answer
<1> DEFINE p == Mutation(r, kinds, step)
<1>3. /\ p \in [DOMAIN p -> Int] /\ DOMAIN p \in SUBSET Kinds /\ DOMAIN p \subseteq Proposable(r)
      /\ \A k \in DOMAIN p :
           /\ p[k] \in 0..MaxTrait
           /\ k # "affect" => p[k] - ReadIn(r, review[r], history, k).trait \in -1..1
           /\ k \in Durables => Cooled(r, review[r], history, now)
  BY <1>1, <1>2, PlansFit
<1>4. review[r] \in Passes /\ SnapshotFits(r, review[r], history) /\ review \in [Reviews -> Passes] /\ now \in 0..MaxTime
  BY <1>1 DEF MindInv, PassFits, Working
<1>5. review' = Woken([review EXCEPT ![r].pc = "apply", ![r].at = now, ![r].plan = p], Agent(r))
  BY <1>2
<1> HIDE DEF p
<1>6. p \in {<<>>} \cup UNION {[K -> Int] : K \in SUBSET Kinds}
  BY <1>3
<1> DEFINE w == [review[r] EXCEPT !.pc = "apply", !.at = now, !.plan = p]
<1>7. w \in Passes
  BY <1>4, <1>6 DEF Passes, Working
<1>8. w.pc = "apply"
  BY <1>4 DEF Passes
<1>9. w.left = review[r].left /\ w.seen = review[r].seen
  BY <1>4 DEF Passes
<1>10. w.at = now
  BY <1>4 DEF Passes
<1>11. w.plan = p
  BY <1>4 DEF Passes
<1>12. review' = Woken([review EXCEPT ![r] = w], Agent(r))
  BY <1>4, <1>5
<1> HIDE DEF w
<1>13. SnapshotFits(r, w, history)
  BY <1>1, <1>4, <1>8, <1>9 DEF SnapshotFits, SeenIn
<1>14. /\ \A k : ReadIn(r, w, history, k) = ReadIn(r, review[r], history, k)
       /\ Cooled(r, review[r], history, now) => Cooled(r, w, history, now)
  BY <1>9 DEF ReadIn, SeenIn, Cooled
<1>15. PlanFits(r, w, history)
  BY <1>3, <1>10, <1>11, <1>14 DEF PlanFits
<1>16. PassFits(r, w, history, now)
  BY <1>7, <1>8, <1>13, <1>15 DEF PassFits
<1> QED
  BY <1>1, <1>7, <1>8, <1>12, <1>16, WokenKeepMinds

LEMMA AbandonKeepsMinds ==
  ASSUME ReflectionAssumption, MindInv, NEW r \in Reviews, Abandon(r)
  PROVE  MindInv' /\ StepsAreSmall
<1>1. /\ review[r].pc \in Working /\ UNCHANGED <<now, policy, history, record>>
      /\ review[r].pc \in {"read", "parked", "model", "apply"}
  BY DEF Abandon, Working
<1>2. GateHeld /\ Agent(r) \in Agents /\ Agent(r) = Head(review[r].left)
  BY <1>1, AgentIs DEF MindInv
<1>3. CASE running[Agent(r)] = r
  <2>1. r # Nobody
    BY ReflectionAssumption DEF Reviews, Nobody
  <2>2. review[r].pc = "model"
    BY <1>2, <1>3, <2>1 DEF GateHeld
  <2>3. /\ Release(Agent(r)) /\ review' = Woken([review EXCEPT ![r] = NextAgent(r)], Agent(r))
        /\ gate' = IF gate = r THEN Nobody ELSE gate
    BY <1>3 DEF Abandon
  <2>4. /\ NextAgent(r) \in Passes /\ PassFits(r, NextAgent(r), history, now)
        /\ NextAgent(r).pc \in {"read", "over"} /\ (r \in TurnReviews => NextAgent(r).pc = "over")
    BY <1>1, NextFits
  <2> QED
    BY <1>1, <2>2, <2>3, <2>4, WokenKeepMinds
<1>4. CASE running[Agent(r)] # r
  <2>1. review[r].pc # "model"
    BY <1>2, <1>4 DEF GateHeld
  <2>2. Leave(r) /\ running' = running
    BY <1>4 DEF Abandon
  <2> QED
    BY <1>1, <2>1, <2>2, LeavingKeepsMinds
<1> QED
  BY <1>3, <1>4

-----------------------------------------------------------------------------
(* Reviews: what a review writes.                                          *)

LEMMA ChainUpdates ==
  ASSUME NEW c, NEW e, NEW v, NEW run, ChainFits(c), Len(c) > 0, v \in Versions, v.op = "update", v.author = run,
         run # NoRun, e = Append(c, v)
  PROVE  ChainFits(e) /\ Grown(c, e) /\ e[Len(e)] = v
<1>1. c \in Seq(Versions) /\ Len(c) \in Nat
  BY DEF ChainFits
<1>2. e \in Seq(Versions) /\ Len(e) = Len(c) + 1 /\ e[Len(c) + 1] = v /\ \A i \in 1..Len(c) : e[i] = c[i]
  BY <1>1
<1> QED
  BY <1>1, <1>2 DEF ChainFits, Grown

LEMMA UpdatesOnce ==
  ASSUME NEW c, NEW e, NEW v, NEW run, NEW d, NEW b, NEW R, NEW S, ChainFits(c), v.op = "update", v.author = run,
         v \in Versions, e = Append(c, v), OnceIn(c, d, b, <<d, b>> \in R), R \subseteq S,
         run = <<d, b>> => <<d, b>> \notin R /\ <<d, b>> \in S
  PROVE  OnceIn(e, d, b, <<d, b>> \in S)
<1>1. c \in Seq(Versions) /\ Len(c) \in Nat
  BY DEF ChainFits
<1>2. e \in Seq(Versions) /\ Len(e) = Len(c) + 1 /\ e[Len(c) + 1] = v /\ \A i \in 1..Len(c) : e[i] = c[i]
  BY <1>1
<1>3. DOMAIN e = 1..(Len(c) + 1) /\ DOMAIN c = 1..Len(c)
  BY <1>1, <1>2
<1>4. \A i : i \in 1..(Len(c) + 1) <=> i \in 1..Len(c) \/ i = Len(c) + 1
  BY <1>1
<1>5. CASE run = <<d, b>>
  <2>1. ByDialogue(e, d, b) = ByDialogue(c, d, b) \cup {Len(c) + 1}
    BY <1>2, <1>3, <1>4, <1>5 DEF ByDialogue
  <2>2. ByDialogue(c, d, b) = {}
    BY <1>5 DEF OnceIn
  <2> QED
    BY <1>5, <2>1, <2>2 DEF OnceIn
<1>6. CASE run # <<d, b>>
  <2>1. ByDialogue(e, d, b) = ByDialogue(c, d, b)
    BY <1>2, <1>3, <1>4, <1>6 DEF ByDialogue
  <2> QED
    BY <2>1 DEF OnceIn
<1> QED
  BY <1>5, <1>6

\* A review that finds its versions current writes at most one to each chain.
LEMMA WritesKeepMinds ==
  ASSUME ReflectionAssumption, MindInv, NEW r \in Reviews, review[r].pc = "apply", Accepted(r),
         history' = Applied(r), Leave(r), UNCHANGED <<now, policy, running>>,
         IF r \in TurnReviews THEN record' = record
         ELSE Unrecorded(r) /\ record' = record \cup {RunOf(r)}
  PROVE  MindInv' /\ StepsAreSmall
<1> DEFINE a == Agent(r)
<1> DEFINE p == review[r].plan
<1> DEFINE nv(k) == Version("update", RunOf(r), review[r].at, p[k], HeadOf(k, a).pinned)
<1>1. /\ review[r].pc \in Working \ {"read", "model"} /\ review[r] \in Passes
      /\ SnapshotFits(r, review[r], history) /\ PlanFits(r, review[r], history)
      /\ GateHeld /\ history \in [Kinds -> [Agents -> Seq(Versions)]]
  BY DEF MindInv, PassFits, Working
<1>2. a \in Agents /\ a = Head(review[r].left)
  BY <1>1, AgentIs
<1>3. review[r].at \in 0..MaxTime /\ MaxTime \in Nat /\ Cooldown \in Nat
  BY <1>1, ReflectionAssumption DEF Passes
<1>4. DOMAIN p \subseteq Proposable(r) /\ Proposable(r) \subseteq KindsRead(r) /\ KindsRead(r) \subseteq Kinds
  BY <1>1, KindsAre DEF PlanFits
<1>5. RunOf(r) \in Writers /\ RunOf(r) # NoRun
      /\ (r \notin TurnReviews => RunOf(r) = <<DialogueOf[r], a>> /\ DialogueOf[r] \in Dialogues)
      /\ (r \in TurnReviews => RunOf(r) = r)
  <2>1. CASE r \in TurnReviews
    BY <2>1, ReflectionAssumption DEF RunOf, Writers, NoRun
  <2>2. CASE r \notin TurnReviews
    <3>1. DialogueOf[r] \in Dialogues /\ RunOf(r) = <<DialogueOf[r], a>>
      BY <2>2, ReflectionAssumption DEF Reviews, RunOf
    <3> QED
      BY <1>2, <2>2, <3>1 DEF Writers, NoRun
  <2> QED
    BY <2>1, <2>2
<1>6. ASSUME NEW k \in DOMAIN p
      PROVE  /\ Len(history[k][a]) > 0 /\ HeadOf(k, a) \in Versions
             /\ HeadOf(k, a) = ReadIn(r, review[r], history, k)
             /\ ChainFits(history[k][a])
  <2>1. k \in KindsRead(r) /\ k \in Kinds
    BY <1>4
  <2>2. SeenVersion(r, k) = Len(history[k][a])
    BY DEF Accepted, Current
  <2>3. /\ SeenVersion(r, k) \in 1..Len(history[k][a]) /\ Basis(r, k) = history[k][a][SeenVersion(r, k)]
        /\ Basis(r, k) \in Versions /\ Basis(r, k) = ReadIn(r, review[r], history, k)
    BY <1>1, <2>1, AllIsSeen
  <2>4. ChainFits(history[k][a]) /\ Len(history[k][a]) \in Nat
    BY <1>2, <2>1, ChainsAre
  <2> QED
    BY <2>2, <2>3, <2>4 DEF HeadOf
<1>7. ASSUME NEW k \in DOMAIN p
      PROVE  /\ nv(k) \in Versions /\ nv(k).op = "update" /\ nv(k).author = RunOf(r) /\ nv(k).author # NoRun
             /\ nv(k).trait = p[k] /\ nv(k).at = review[r].at
  <2>1. p[k] \in 0..MaxTrait
    BY <1>1 DEF PlanFits
  <2>2. HeadOf(k, a).pinned \in BOOLEAN
    BY <1>6 DEF Versions
  <2> HIDE DEF p, a
  <2> QED
    BY <1>3, <1>5, <2>1, <2>2 DEF Version, Versions
<1>8. /\ \A k \in Kinds, b \in Agents : k \notin DOMAIN p \/ b # a => history'[k][b] = history[k][b]
      /\ \A k \in DOMAIN p : history'[k][a] = Append(history[k][a], nv(k))
      /\ history' \in [Kinds -> [Agents -> Seq(Versions)]]
  <2>1. ASSUME NEW k \in DOMAIN p
        PROVE  history'[k] = [history[k] EXCEPT ![a] = Append(@, nv(k))] /\ k \in Kinds
    BY <1>4, <2>1 DEF Applied
  <2>2. ASSUME NEW k \in Kinds, k \notin DOMAIN p PROVE history'[k] = history[k]
    BY <2>2 DEF Applied
  <2>3. \A k \in DOMAIN p : nv(k) \in Versions
    BY <1>7
  <2> HIDE DEF nv, p, a
  <2>4. ASSUME NEW k \in Kinds PROVE history'[k] \in [Agents -> Seq(Versions)]
    <3>1. CASE k \in DOMAIN p
      <4> DEFINE f == history[k]
      <4> DEFINE e == Append(f[a], nv(k))
      <4>1. f \in [Agents -> Seq(Versions)] /\ e \in Seq(Versions)
        BY <1>1, <1>2, <2>3, <3>1
      <4>2. history'[k] = [f EXCEPT ![a] = e]
        BY <2>1, <3>1
      <4> HIDE DEF e, f
      <4> QED
        BY <4>1, <4>2, ZenonT(60)
    <3>2. CASE k \notin DOMAIN p
      BY <1>1, <2>2, <3>2
    <3> QED
      BY <3>1, <3>2
  <2>5. history' = [k \in Kinds |-> history'[k]]
    BY DEF Applied
  <2>6. history' \in [Kinds -> [Agents -> Seq(Versions)]]
    BY <2>4, <2>5
  <2>7. \A k \in Kinds, b \in Agents : k \notin DOMAIN p \/ b # a => history'[k][b] = history[k][b]
    <3> SUFFICES ASSUME NEW k \in Kinds, NEW b \in Agents, k \notin DOMAIN p \/ b # a
                 PROVE  history'[k][b] = history[k][b]
      OBVIOUS
    <3>1. CASE k \in DOMAIN p
      <4> DEFINE f == history[k]
      <4> DEFINE e == Append(f[a], nv(k))
      <4>1. f \in [Agents -> Seq(Versions)] /\ b # a
        BY <1>1, <3>1
      <4>2. history'[k] = [f EXCEPT ![a] = e]
        BY <2>1, <3>1
      <4>3. f[b] = history[k][b]
        OBVIOUS
      <4> HIDE DEF e, f
      <4> QED
        BY <4>1, <4>2, <4>3
    <3> QED
      BY <2>2, <3>1
  <2>8. \A k \in DOMAIN p : history'[k][a] = Append(history[k][a], nv(k))
    <3> SUFFICES ASSUME NEW k \in DOMAIN p PROVE history'[k][a] = Append(history[k][a], nv(k))
      OBVIOUS
    <3> DEFINE f == history[k]
    <3> DEFINE e == Append(f[a], nv(k))
    <3>1. f \in [Agents -> Seq(Versions)] /\ e = Append(history[k][a], nv(k))
      BY <1>1, <2>1
    <3>2. history'[k] = [f EXCEPT ![a] = e]
      BY <2>1
    <3> HIDE DEF e, f
    <3> QED
      BY <1>2, <3>1, <3>2, ZenonT(60)
  <2> QED
    BY <2>6, <2>7, <2>8
<1>9. ASSUME NEW k \in DOMAIN p
      PROVE  /\ ChainFits(history'[k][a]) /\ Grown(history[k][a], history'[k][a]) /\ Newest(k, a) = nv(k)
  <2> DEFINE c == history[k][a]
  <2> DEFINE v == nv(k)
  <2>1. ChainFits(c) /\ Len(c) > 0 /\ v \in Versions /\ v.op = "update" /\ v.author = RunOf(r) /\ v.author # NoRun
    BY <1>6, <1>7
  <2> DEFINE e == history'[k][a]
  <2>2. e = Append(c, v)
    BY <1>8
  <2>3. e[Len(e)] = Newest(k, a)
    BY DEF Newest
  <2> DEFINE run == RunOf(r)
  <2>4. v.author = run /\ run # NoRun
    BY <2>1
  <2>5. ChainFits(c) /\ Len(c) > 0 /\ v \in Versions /\ v.op = "update"
    BY <2>1
  <2> HIDE DEF c, v, e, run
  <2>6. ChainFits(e)
    BY <2>2, <2>4, <2>5, ChainUpdates
  <2>7. Grown(c, e)
    BY <2>2, <2>4, <2>5, ChainUpdates
  <2>8. e[Len(e)] = v
    BY <2>2, <2>4, <2>5, ChainUpdates
  <2> QED
    BY <2>3, <2>6, <2>7, <2>8 DEF c, v, e
<1> HIDE DEF nv
<1>10. ChainsGrow(history, history')
  <2> SUFFICES ASSUME NEW k \in Kinds, NEW b \in Agents
               PROVE  ChainFits(history[k][b]) /\ ChainFits(history'[k][b]) /\ Grown(history[k][b], history'[k][b])
    BY DEF ChainsGrow
  <2>1. ChainFits(history[k][b]) /\ Len(history[k][b]) \in Nat
    BY ChainsAre
  <2>2. CASE k \in DOMAIN p /\ b = a
    BY <1>9, <2>1, <2>2
  <2>3. CASE k \notin DOMAIN p \/ b # a
    BY <1>8, <2>1, <2>3 DEF Grown
  <2> QED
    BY <2>2, <2>3
<1>11. ASSUME NEW d \in Dialogues, NEW b \in Agents, NEW k \in {"peer", "affect"}
       PROVE  OnceIn(history'[k][b], d, b, <<d, b>> \in record')
  <2>1. k \in Kinds /\ OnceIn(history[k][b], d, b, <<d, b>> \in record) /\ record \subseteq record'
    BY DEF Kinds, MindInv
  <2>2. CASE k \notin DOMAIN p \/ b # a
    BY <1>8, <2>1, <2>2 DEF OnceIn
  <2>3. CASE k \in DOMAIN p /\ b = a
    <3> DEFINE c == history[k][b]
    <3> DEFINE e == history'[k][b]
    <3> DEFINE v == nv(k)
    <3> DEFINE run == RunOf(r)
    <3>1. ChainFits(c) /\ v \in Versions /\ v.op = "update" /\ v.author = run
      BY <1>6, <1>7, <2>3
    <3>2. e = Append(c, v)
      BY <1>8, <2>3
    <3>3. OnceIn(c, d, b, <<d, b>> \in record)
      BY <2>1
    <3>4. run = <<d, b>> => <<d, b>> \notin record /\ <<d, b>> \in record'
      BY <1>5, ReflectionAssumption DEF Unrecorded
    <3> HIDE DEF c, e, v, run
    <3>5. OnceIn(e, d, b, <<d, b>> \in record')
      BY <2>1, <3>1, <3>2, <3>3, <3>4, UpdatesOnce
    <3> QED
      BY <3>5 DEF e
  <2> QED
    BY <2>2, <2>3
<1>12. ASSUME NEW q \in TurnReviews \ {r}, review[q].pc \in Working, NEW j \in Durables, NEW b \in Agents
       PROVE  history'[j][b] = history[j][b]
  <2>1. CASE r \in TurnReviews
    <3>1. gate = q /\ gate = r
      BY <1>1, <1>12, <2>1 DEF GateHeld
    <3> QED
      BY <3>1
  <2>2. CASE r \notin TurnReviews
    BY <1>4, <1>8, <2>2, KindsAre DEF Durables, Kinds
  <2> QED
    BY <2>1, <2>2
<1>13. record' \subseteq Dialogues \X Agents
  BY <1>2, <1>5 DEF MindInv
<1>14. /\ review' \in [Reviews -> Passes] /\ PassFits(r, review'[r], history', now')
       /\ \A q \in Reviews \ {r} : review'[q] = review[q]
       /\ GateHeld'
  BY <1>1, LeaveFits
<1>15. MindInv'
  BY <1>8, <1>10, <1>11, <1>12, <1>13, <1>14, ReviewMoves
<1>16. ASSUME NEW k \in Kinds, NEW b \in Agents, Gained(k, b) PROVE k \in DOMAIN p /\ b = a
  <2>1. Len(history[k][b]) \in Nat
    BY ChainsAre
  <2>2. history'[k][b] # history[k][b]
    BY <1>16, <2>1 DEF Gained
  <2> QED
    BY <1>8, <2>2
<1>17. ASSUME NEW k \in Kinds \ {"affect"}, NEW b \in Agents, Gained(k, b)
       PROVE  Newest(k, b).trait - HeadOf(k, b).trait \in -1..1
  <2>1. k \in DOMAIN p /\ b = a
    BY <1>16, <1>17
  <2>2. p[k] - ReadIn(r, review[r], history, k).trait \in -1..1
    BY <1>1, <2>1 DEF PlanFits
  <2>3. Newest(k, b).trait = p[k]
    BY <1>7, <1>9, <2>1 DEF nv
  <2>4. HeadOf(k, b) = ReadIn(r, review[r], history, k)
    BY <1>6, <2>1
  <2> QED
    BY <2>2, <2>3, <2>4
<1>18. ASSUME NEW k \in Durables, NEW j \in Durables, NEW b \in Agents, Gained(k, b),
              Exists(j, b), HeadOf(j, b).op = "update"
       PROVE  Newest(k, b).at - HeadOf(j, b).at >= Cooldown
  <2>1. k \in DOMAIN p /\ b = a /\ j \in Kinds
    BY <1>16, <1>18 DEF Durables, Kinds
  <2>2. r \in TurnReviews /\ j \in KindsRead(r)
    BY <1>4, <2>1, KindsAre
  <2>3. Cooled(r, review[r], history, review[r].at)
    BY <1>1, <2>1 DEF PlanFits
  <2>4. Pos(r, j) <= Len(review[r].seen)
    <3>1. Len(review[r].seen) = Len(Steps(r))
      BY <1>1, StepsArePos DEF SnapshotFits, Passes
    <3> QED
      BY <2>2, <3>1, StepsArePos
  <2>5. SeenIn(r, review[r], j) = Len(history[j][a])
    BY <1>1, <1>2, <1>18, <2>1, <2>2, <2>4 DEF SnapshotFits, HeadOf
  <2>6. ReadIn(r, review[r], history, j) = HeadOf(j, a)
    BY <1>2, <2>5 DEF ReadIn, HeadOf
  <2>7. HeadOf(j, a).at + Cooldown <= review[r].at
    BY <1>18, <2>1, <2>2, <2>3, <2>6 DEF Cooled
  <2>8. HeadOf(j, a).at \in Int
    <3>1. HeadOf(j, a) \in Versions
      BY <1>2, <1>18, <2>1, ChainsHaveVersions
    <3> QED
      BY <3>1 DEF Versions
  <2>9. Newest(k, b).at = review[r].at
    BY <1>7, <1>9, <2>1 DEF nv
  <2> QED
    BY <1>3, <2>1, <2>7, <2>8, <2>9
<1>19. StepsAreSmall
  BY <1>17, <1>18 DEF StepsAreSmall, Durables
<1> QED
  BY <1>15, <1>19

LEMMA AppliesKeepMinds ==
  ASSUME ReflectionAssumption, MindInv, NEW r \in Reviews, ApplyReflectionState(r) \/ ApplySocial(r)
  PROVE  MindInv' /\ StepsAreSmall
<1>1. review[r].pc = "apply" /\ review[r].pc \in Working \ {"model"} /\ Leave(r) /\ UNCHANGED <<now, policy, running>>
  BY DEF ApplyReflectionState, ApplySocial, Working
<1>2. CASE history' = history /\ record' = record
  BY <1>1, <1>2, LeavingKeepsMinds
<1>3. CASE ApplyReflectionState(r)
  <2>1. r \in TurnReviews /\ record' = record /\ history' = IF Accepted(r) THEN Applied(r) ELSE history
    BY <1>3 DEF ApplyReflectionState
  <2>2. CASE Accepted(r)
    BY <1>1, <2>1, <2>2, WritesKeepMinds
  <2> QED
    BY <1>2, <2>1, <2>2
<1>4. CASE ApplySocial(r)
  <2>1. r \notin TurnReviews
    BY <1>4, ReflectionAssumption DEF ApplySocial
  <2>2. CASE Accepted(r) /\ Unrecorded(r)
    <3>1. history' = Applied(r) /\ record' = record \cup {RunOf(r)}
      BY <1>4, <2>2 DEF ApplySocial
    <3> QED
      BY <1>1, <2>1, <2>2, <3>1, WritesKeepMinds
  <2>3. CASE ~(Accepted(r) /\ Unrecorded(r))
    BY <1>2, <1>4, <2>3 DEF ApplySocial
  <2> QED
    BY <2>2, <2>3
<1> QED
  BY <1>3, <1>4

-----------------------------------------------------------------------------
(* Reviews: the invariant, and what it says.                               *)

LEMMA MindStarts ==
  ASSUME ReflectionAssumption, MindInit
  PROVE  MindInv
<1>1. /\ history = [k \in Kinds |-> [a \in Agents |-> <<>>]]
      /\ policy = [a \in Agents |-> [mode |-> "inherit", locked |-> {}]]
      /\ record = {} /\ review = [r \in Reviews |-> Unstarted] /\ gate = Nobody
      /\ running = [a \in Agents |-> Nobody] /\ now = 0
  BY DEF MindInit, MindInitWith
<1>2. now \in 0..MaxTime /\ record \subseteq Dialogues \X Agents /\ policy \in [Agents -> Policies]
  BY <1>1, ReflectionAssumption DEF Policies
<1>3. <<>> \in Seq(Versions) /\ Len(<<>>) = 0
  OBVIOUS
<1>4. \A k \in Kinds, a \in Agents : history[k][a] = <<>> /\ ChainFits(history[k][a])
  <2>1. \A i \in 1..Len(<<>>) : FALSE
    BY <1>3
  <2>2. ChainFits(<<>>)
    BY <1>3, <2>1 DEF ChainFits
  <2> QED
    BY <1>1, <2>2
<1>5. history \in [Kinds -> [Agents -> Seq(Versions)]]
  BY <1>1, <1>3
<1>6. \A r \in Reviews : PassFits(r, Unstarted, history, now) /\ Unstarted \in Passes /\ Unstarted.pc = "idle"
  <2> SUFFICES ASSUME NEW r \in Reviews
               PROVE  PassFits(r, Unstarted, history, now) /\ Unstarted \in Passes /\ Unstarted.pc = "idle"
    OBVIOUS
  <2> DEFINE l == <<>>
  <2>1. l \in Lefts /\ l = <<>>
    BY DEF Lefts
  <2> HIDE DEF l
  <2>2. PassFits(r, Unread("idle", l), history, now)
    BY <2>1, UnreadFits
  <2>3. Unstarted = Unread("idle", l)
    BY <2>1 DEF Unstarted
  <2> QED
    BY <2>2, <2>3 DEF PassFits, Unread
<1>7. review \in [Reviews -> Passes] /\ \A r \in Reviews : PassFits(r, review[r], history, now)
  BY <1>1, <1>6
<1>8. GateHeld
  <2>1. \A r \in Reviews : review[r].pc = "idle"
    BY <1>1, <1>6
  <2>2. TurnReviews \subseteq Reviews
    BY DEF Reviews
  <2> QED
    BY <1>1, <2>1, <2>2 DEF GateHeld, Working
<1>9. \A d \in Dialogues, a \in Agents, k \in {"peer", "affect"} : OnceIn(history[k][a], d, a, <<d, a>> \in record)
  <2> SUFFICES ASSUME NEW d \in Dialogues, NEW a \in Agents, NEW k \in {"peer", "affect"}
               PROVE  OnceIn(history[k][a], d, a, <<d, a>> \in record)
    OBVIOUS
  <2>1. history[k][a] = <<>>
    BY <1>4 DEF Kinds
  <2>2. ByDialogue(history[k][a], d, a) = {}
    BY <2>1 DEF ByDialogue
  <2> QED
    BY <2>2 DEF OnceIn
<1> QED
  BY <1>2, <1>4, <1>5, <1>7, <1>8, <1>9 DEF MindInv

LEMMA MindStays ==
  ASSUME MindInv, UNCHANGED mindVars
  PROVE  MindInv' /\ StepsAreSmall
<1>1. /\ history' = history /\ policy' = policy /\ record' = record /\ review' = review /\ gate' = gate
      /\ running' = running /\ now' = now
  BY DEF mindVars
<1>2. GateHeld'
  BY <1>1 DEF GateHeld, MindInv
<1>3. StepsAreSmall
  BY <1>1, ChainsStay
<1>4. MindInv'
  BY <1>1, <1>2 DEF MindInv
<1> QED
  BY <1>3, <1>4

LEMMA MindStep ==
  ASSUME ReflectionAssumption, MindInv, [MindNext]_mindVars
  PROVE  MindInv' /\ StepsAreSmall
<1>1. CASE UNCHANGED mindVars
  BY <1>1, MindStays
<1>2. CASE MindNext
  <2>1. ASSUME NEW r \in Reviews,
               \/ StartTurnReview(r) \/ StartSocialReview(r) \/ Read(r) \/ Acquire(r)
               \/ Answer(r) \/ Abandon(r) \/ ApplyReflectionState(r) \/ ApplySocial(r)
        PROVE  MindInv' /\ StepsAreSmall
    BY <2>1, StartsKeepMinds, ReadsKeepMinds, AcquireKeepsMinds, AnswersKeepMinds, AbandonKeepsMinds, AppliesKeepMinds
  <2>2. ASSUME NEW a \in Agents,
               \/ EnsurePersonaState(a) \/ ReconcileOwnerSeed(a) \/ SetPersonaTraitPinned(a)
               \/ RollbackPersona(a) \/ RollbackRelationship(a) \/ RollbackPeerRelationship(a)
               \/ ResetPersona(a) \/ ResetRelationship(a) \/ ResetPeerRelationship(a) \/ UpdatePolicy(a)
        PROVE  MindInv' /\ StepsAreSmall
    BY <2>2, OwnersKeepMinds
  <2>3. CASE SetPersonaAutoEvolution \/ Tick
    BY <2>3, TimeKeepsMinds
  <2> QED
    BY <1>2, <2>1, <2>2, <2>3 DEF MindNext
<1> QED
  BY <1>1, <1>2

LEMMA MindInvSays ==
  ASSUME ReflectionAssumption, MindInv
  PROVE  MindTypeOK /\ ShapedOnce /\ WaitersHaveAHolder
<1>1. GateHeld /\ record \subseteq Dialogues \X Agents
  BY DEF MindInv
<1>2. ASSUME NEW r \in Reviews, review[r].pc \in Working PROVE Agent(r) = Head(review[r].left) /\ Agent(r) \in Agents
  BY <1>2, AgentIs
<1>3. MindTypeOK
  <2>1. ASSUME NEW k \in Kinds, NEW a \in Agents, NEW i \in DOMAIN history[k][a]
        PROVE  LET v == history[k][a][i]
               IN  /\ v.op \in {"seed", "legacy", "update", "pin", "rollback", "reset"}
                   /\ v.trait \in 0..MaxTrait /\ v.at \in 0..MaxTime /\ v.pinned \in BOOLEAN
    <3>1. history[k][a][i] \in Versions
      BY ChainsHaveVersions
    <3> QED
      BY <3>1 DEF Versions
  <2>2. ASSUME NEW a \in Agents, running[a] # Nobody
        PROVE  running[a] \in Reviews /\ review[running[a]].pc = "model" /\ Agent(running[a]) = a
    <3>1. running[a] \in Reviews /\ review[running[a]].pc = "model" /\ Head(review[running[a]].left) = a
      BY <1>1, <2>2 DEF GateHeld
    <3> QED
      BY <3>1 DEF Agent
  <2> QED
    BY <1>1, <2>1, <2>2 DEF MindTypeOK, GateHeld
<1>4. ShapedOnce
  <2> SUFFICES ASSUME NEW d \in Dialogues, NEW a \in Agents, NEW k \in {"peer", "affect"}
               PROVE  /\ Cardinality(ByDialogue(history[k][a], d, a)) <= 1
                      /\ ByDialogue(history[k][a], d, a) # {} => <<d, a>> \in record
    BY DEF ShapedOnce, ByDialogue
  <2> DEFINE by == ByDialogue(history[k][a], d, a)
  <2>1. (\A i, j \in by : i = j) /\ (by # {} => <<d, a>> \in record)
    BY DEF MindInv, OnceIn
  <2> HIDE DEF by
  <2>2. Cardinality(by) <= 1
    <3>1. CASE by = {}
      BY <3>1, FS_EmptySet
    <3>2. CASE by # {}
      <4>1. PICK i : i \in by
        BY <3>2
      <4>2. by = {i}
        BY <2>1, <4>1
      <4>3. \E x : by = {x}
        BY <4>2
      <4>4. Cardinality(by) = 1
        BY <4>3, FS_Singleton
      <4> QED
        BY <4>4
    <3> QED
      BY <3>1, <3>2
  <2> QED
    BY <2>1, <2>2 DEF by
<1>5. WaitersHaveAHolder
  <2> SUFFICES ASSUME NEW r \in Reviews, review[r].pc = "parked"
               PROVE  running[Agent(r)] \notin {Nobody, r}
    BY DEF WaitersHaveAHolder
  <2>1. Agent(r) = Head(review[r].left) /\ Agent(r) \in Agents
    BY <1>2 DEF Working
  <2>2. running[Agent(r)] # Nobody
    BY <1>1, <2>1 DEF GateHeld
  <2>3. review[running[Agent(r)]].pc = "model"
    BY <1>1, <2>1, <2>2 DEF GateHeld
  <2> QED
    BY <2>2, <2>3
<1> QED
  BY <1>3, <1>4, <1>5

\* Every review shapes an agent at most once and leaves the record of the
\* dialogue with it, nobody is parked without somebody who will wake him, no
\* automatic version overwrites what was written since the review read its
\* versions, and the cooldown of the durable ones is kept: whatever reviews run
\* at once, whatever the owner edits in between, and whenever they are
\* abandoned (Coordinator, ApplyReflectionState, PeerSocialRepository.Apply).
THEOREM ReviewsKept ==
  ASSUME ReflectionAssumption
  PROVE  MindSpec => ReviewsHold
<1>1. MindInit => MindInv
  BY MindStarts
<1>2. MindInv /\ [MindNext]_mindVars => MindInv' /\ StepsAreSmall
  BY MindStep
<1>3. MindInv => MindTypeOK /\ ShapedOnce /\ WaitersHaveAHolder
  BY MindInvSays
<1>4. StepsAreSmall =>
        /\ \A k \in Kinds \ {"affect"}, a \in Agents :
             Gained(k, a) /\ Newest(k, a).op = "update" =>
               Newest(k, a).trait - HeadOf(k, a).trait \in -1..1
        /\ \A k, j \in {"persona", "owner"}, a \in Agents :
             /\ Gained(k, a) /\ Newest(k, a).op = "update"
             /\ Exists(j, a) /\ HeadOf(j, a).op = "update"
             => Newest(k, a).at - HeadOf(j, a).at >= Cooldown
  BY DEF StepsAreSmall
<1> QED
  BY <1>1, <1>2, <1>3, <1>4, PTL DEF MindSpec, ReviewsHold, NothingIsOverwritten, CooldownIsKept

================================================================================
