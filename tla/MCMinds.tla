-------------------------------- MODULE MCMinds --------------------------------
(***************************************************************************)
(* The reviews that shape an agent and the memories it keeps, which share  *)
(* nothing in these models: part says which of them a behaviour is about,  *)
(* and the variables of the other one keep an initial state.               *)
(***************************************************************************)
EXTENDS MemoryProperties, ReflectionProperties, TLC

CONSTANTS ada, bob, t1, t2, worker, retry, talk, e1, e2, m1, d1, d2, k

VARIABLES
  part,
  cast \* what a behaviour about memories is about

-----------------------------------------------------------------------------
(* Reviews.                                                                *)

TurnAgents == (t1 :> ada) @@ (t2 :> ada)
Dialogue == (worker :> talk) @@ (retry :> talk)
Pairs == talk :> <<ada, bob>>

\* Which reviews happen, in which of the worlds worth telling apart: two
\* reviews of one agent while the owner edits; two reviews of one dialogue; a
\* turn and a dialogue at once; the owner's switches; a new installation.
Reviewing ==
  {[who |-> {t1, t2}, seeded |-> {ada, bob}, at |-> 0, edits |-> 0, switches |-> 1],
   [who |-> {worker, retry}, seeded |-> {ada, bob}, at |-> 1, edits |-> 1, switches |-> 1],
   [who |-> {t1, worker}, seeded |-> {ada, bob}, at |-> 1, edits |-> 1, switches |-> 1],
   [who |-> {worker}, seeded |-> {ada, bob}, at |-> 1, edits |-> 0, switches |-> 1],
   [who |-> {t1}, seeded |-> {ada, bob}, at |-> 1, edits |-> 1, switches |-> 0],
   [who |-> {}, seeded |-> {}, at |-> 1, edits |-> 0, switches |-> 1]}

ReviewsInit ==
  \E c \in Reviewing :
    MindInitWith([r \in Reviews |-> IF r \in c.who THEN Unstarted ELSE [Unstarted EXCEPT !.pc = "over"]],
                 c.seeded, c.at, c.edits, c.switches)

-----------------------------------------------------------------------------
(* Memories.                                                               *)

NoEpisodes == [e \in Episodes |-> None]
OneEpisode == [NoEpisodes EXCEPT ![e1] = ada]

\* Hydrating turns against the owner's editor, with an episode to begin with
\* or a narrative to be cut up; reviewing turns, the owner and a dialogue.
MemoriesInit ==
  \/ cast = "seed" /\ InitWith(OneEpisode, None, <<>>)
  \/ cast = "narrative" /\ InitWith(NoEpisodes, bob, <<>>)
  \/ cast = "facts" /\ InitWith(OneEpisode, None, (e1 :> EpisodeMemory(e1, ada)) @@ (m1 :> Row("active", ada, k)))
  \/ cast = "dialogue" /\ InitWith(NoEpisodes, None, <<>>)

\* The two casts about the seed keep to its memories;  a dialogue's memories are
\* derived while no turn runs.
MemoriesNext ==
  /\ Next
  /\ CASE cast \in {"seed", "narrative"} ->
            /\ \A m \in Ids \ Episodes : head'[m] = head[m]
            /\ \A p \in Actors : actor'[p].write # NoWrite => actor'[p].write.id \in Episodes
            /\ \A t \in Turns : actor'[t].recalled = {}
            /\ \A e \in Episodes : ~head'[e].old
            /\ cast = "seed" => quits' = quits
       [] cast = "facts" ->
            /\ seed' = seed /\ quits' = quits /\ actor'[Deriver] = actor[Deriver]
            /\ actor'[Owner].write # NoWrite => actor'[Owner].write.id \in Facts
            /\ actor'[t2].recalled = {}
       [] OTHER ->
            seed' = seed /\ \A t \in Turns : actor'[t] = actor[t]

-----------------------------------------------------------------------------
MindsInit ==
  \/ part = "reviews" /\ ReviewsInit /\ Init /\ cast = "none"
  \/ part = "memories" /\ MindInit /\ MemoriesInit

MindsNext ==
  \/ part = "reviews" /\ MindNext /\ UNCHANGED <<part, cast, vars>>
  \/ part = "memories" /\ MemoriesNext /\ UNCHANGED <<part, cast, mindVars>>

MindsSpec == MindsInit /\ [][MindsNext]_<<part, cast, vars, mindVars>>
=============================================================================
