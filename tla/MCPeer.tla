-------------------------------- MODULE MCPeer --------------------------------
(***************************************************************************)
(* One dialogue to its end, and several dialogues that share turns, pairs  *)
(* and rations, each in behaviours of its own: part says which, and the    *)
(* variables of the other keep an initial state.                           *)
(***************************************************************************)
EXTENDS PeerProperties, TLC

CONSTANTS ada, bob, cyd, d1, d2, d3, t1, t2

VARIABLES
  part,
  prow, pmessages, pturn, pcaller, pworker, pchild, pregistry, pcancelled, pgate, pnow, pphase,
  pcrashes, ppanics

\* d1 and d2 share a turn, d1 and d3 a pair, d2 and d3 the ration of ada.
Initiators == (d1 :> ada) @@ (d2 :> ada) @@ (d3 :> ada)
Partners == (d1 :> bob) @@ (d2 :> cyd) @@ (d3 :> bob)
Triggers == (d1 :> t1) @@ (d2 :> t1) @@ (d3 :> t2)
Kinds == (d1 :> "tool") @@ (d2 :> "auto") @@ (d3 :> "auto")
Cooldowns == (ada :> 1) @@ (bob :> 1) @@ (cyd :> 1)

\* One dialogue, which the owner asks for.
OneInitiator == d1 :> ada
OnePartner == d1 :> bob
OneTrigger == d1 :> t1
OneKind == d1 :> "manual"

Pairs == INSTANCE PeerProperties WITH
  Dialogues <- {d1, d2, d3}, Turns <- {t1, t2}, Initiator <- Initiators, Partner <- Partners,
  Trigger <- Triggers, Kind <- Kinds, AutoCooldown <- 2, Lasts <- 1, MinTurns <- 1, MaxTurns <- 1,
  MaxTokens <- 1, MaxAttempts <- 1, Usage <- {0}, MaxTime <- 2, MaxCrashes <- 0, MaxPanics <- 0,
  row <- prow, messages <- pmessages, turn <- pturn, caller <- pcaller, worker <- pworker,
  child <- pchild, registry <- pregistry, cancelled <- pcancelled, gate <- pgate, now <- pnow,
  phase <- pphase, crashes <- pcrashes, panics <- ppanics

ASSUME Pairs!DialogueAssumption /\ Pairs!BudgetAssumption

-----------------------------------------------------------------------------
pairVars == <<prow, pmessages, pturn, pcaller, pworker, pchild, pregistry, pcancelled, pgate, pnow,
              pphase, pcrashes, ppanics>>

PeersInit == part \in {"dialogue", "pairs"} /\ Init /\ Pairs!Init

PeersNext ==
  \/ part = "dialogue" /\ Next /\ UNCHANGED <<part, pairVars>>
  \/ part = "pairs" /\ Pairs!Next /\ UNCHANGED <<part, vars>>

\* The fairness of PeerDialogues, for the dialogue that is not at rest.
PeersSpec ==
  /\ PeersInit /\ [][PeersNext]_<<part, vars, pairVars>>
  /\ WF_vars(part = "dialogue" /\ Restart)
  /\ \A d \in Dialogues :
       WF_vars(part = "dialogue" /\ Asks(d)) /\ WF_vars(part = "dialogue" /\ Works(d))

-----------------------------------------------------------------------------
(* What the second promises; the first is spoken of in PeerProperties.     *)

\* Agents do not talk more often than their rations and cooldowns allow.
PairsAreRationed == [](part = "pairs" => Pairs!AutonomyIsRationed) /\ Pairs!PairCoolsDown
=============================================================================
