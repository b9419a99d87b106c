------------------------------- MODULE PeerLife -------------------------------
(***************************************************************************)
(* What the store promises of dialogues between agents: a dialogue's       *)
(* transcript only grows, one message per answer; every change is a new    *)
(* version; the budget is never overdrawn; a final status and its reason   *)
(* are for ever; and a pair has one live dialogue at a time.               *)
(***************************************************************************)
EXTENDS Integers

CONSTANTS Dialogues, PairOf, MinTurns, MaxTurns, MaxTokens

VARIABLES rows, messages

Live == {"queued", "running", "cancelling"}

Rank(status) ==
  CASE status = "absent" -> 0
    [] status = "queued" -> 1
    [] status = "running" -> 2
    [] status = "cancelling" -> 3
    [] OTHER -> 4

\* Why a dialogue may end by itself.
Ends(r) ==
  \/ r.reason \in {"semantic", "implicit"} /\ r.turns >= MinTurns
  \/ r.reason = "max_turns" /\ r.turns = MaxTurns
  \/ r.reason = "max_tokens" /\ r.turns > 0

Init ==
  /\ \A d \in Dialogues : rows[d].status = "absent"
  /\ messages = [d \in Dialogues |-> 0]

Created(d) ==
  /\ rows[d].status = "absent" /\ rows'[d].status = "queued" /\ rows'[d].version = 1
  /\ rows'[d].turns = 0 /\ rows'[d].tokens = 0 /\ messages'[d] = 1
  /\ \A e \in Dialogues \ {d} : PairOf[e] = PairOf[d] => rows[e].status \notin Live

Advanced(d) ==
  /\ Rank(rows[d].status) \in 1..3 /\ Rank(rows'[d].status) >= Rank(rows[d].status)
  /\ rows'[d].version = rows[d].version + 1
  /\ rows'[d].tokens \in rows[d].tokens..MaxTokens
  /\ rows'[d].turns \in {rows[d].turns, rows[d].turns + 1}
  /\ messages'[d] = messages[d] + rows'[d].turns - rows[d].turns
  /\ rows'[d].turns # rows[d].turns => rows'[d].status = "running"
  /\ rows'[d].created = rows[d].created
  /\ rows'[d].status # "completed" => rows'[d].reason = ""
  /\ rows'[d].status = "completed" => Ends(rows'[d])

\* Several rows may change at once: a restart recovers all of them.
Next ==
  \A d \in Dialogues :
    IF rows'[d] = rows[d] THEN messages'[d] = messages[d] ELSE Created(d) \/ Advanced(d)

Spec == Init /\ [][Next]_<<rows, messages>>
=============================================================================
