------------------------- MODULE ReflectionProperties -------------------------
(* What the project claims of the modules of Reflection.                   *)
EXTENDS Reflection

\* Reflection's variables have the values the code can give them.
MindTypeOK ==
  /\ \A k \in Kinds, a \in Agents : \A i \in DOMAIN history[k][a] :
       LET v == history[k][a][i]
       IN  /\ v.op \in {"seed", "legacy", "update", "pin", "rollback", "reset"}
           /\ v.trait \in 0..MaxTrait /\ v.at \in 0..MaxTime /\ v.pinned \in BOOLEAN
  /\ record \subseteq Dialogues \X Agents
  /\ gate \in TurnReviews \cup {Nobody}
  /\ \A a \in Agents : running[a] # Nobody => /\ running[a] \in Reviews
                                              /\ review[running[a]].pc = "model"
                                              /\ Agent(running[a]) = a

Gained(k, a) == Len(history'[k][a]) > Len(history[k][a])

Newest(k, a) == history'[k][a][Len(history'[k][a])]

\* An automatic version moves a trait by at most one step from the version just
\* before it, whoever wrote that one: what the owner rolled back, reset or
\* pinned between the review's snapshot and its transaction is not overwritten
\* (the expected versions of ApplyReflectionState and PeerSocial.Apply).
NothingIsOverwritten ==
  [][\A k \in Kinds \ {"affect"}, a \in Agents :
       Gained(k, a) /\ Newest(k, a).op = "update" =>
         Newest(k, a).trait - HeadOf(k, a).trait \in -1..1]_mindVars

\* Persona and owner relationship of an agent are not changed automatically
\* twice within the cooldown, whichever of the two changed first and whatever
\* turns are reviewed at once (runOwned's durable pause and reflectionGate).
CooldownIsKept ==
  [][\A k, j \in {"persona", "owner"}, a \in Agents :
       /\ Gained(k, a) /\ Newest(k, a).op = "update"
       /\ Exists(j, a) /\ HeadOf(j, a).op = "update"
       => Newest(k, a).at - HeadOf(j, a).at >= Cooldown]_mindVars

\* A dialogue shapes an observer's opinion and affect at most once, and leaves
\* its record with it: the worker of the dialogue and the reconciliation after
\* a turn may both review it.
ShapedOnce ==
  \A d \in Dialogues, a \in Agents, k \in {"peer", "affect"} :
    LET by == {i \in DOMAIN history[k][a] :
                 history[k][a][i].op = "update" /\ history[k][a][i].author = <<d, a>>}
    IN  Cardinality(by) <= 1 /\ (by # {} => <<d, a>> \in record)

\* Nobody waits at the coordinator for a run that has ended: a new run may slip
\* in between the broadcast and the waiter's next try, and a waiter may give up,
\* but whoever is parked has somebody ahead who will wake all.
WaitersHaveAHolder ==
  \A r \in Reviews : review[r].pc = "parked" => running[Agent(r)] \notin {Nobody, r}

\* With the owner's switch off nothing about an agent changes by itself.
SwitchStopsReviews ==
  [][\A k \in Kinds, a \in Agents :
       Gained(k, a) /\ Newest(k, a).op = "update" => auto]_mindVars

\* Reviews: each shapes an agent once and nobody waits in vain; what the owner
\* or another review wrote in between is respected, and so is the cooldown.
ReviewsHold ==
  [](MindTypeOK /\ ShapedOnce /\ WaitersHaveAHolder) /\ NothingIsOverwritten /\ CooldownIsKept
=============================================================================
