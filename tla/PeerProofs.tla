------------------------------ MODULE PeerProofs ------------------------------
(***************************************************************************)
(* Dialogues between agents, for any number of agents, turns, dialogues,   *)
(* budgets and crashes: the copy a conductor works from is current; the    *)
(* rows live as PeerLife promises; pairs cool down; and what agents open   *)
(* unasked stays in the ration.                                            *)
(*                                                                         *)
(* A step concerns one dialogue (Kept), all rows at once (Restart), or     *)
(* none: what holds of one dialogue is kept by each of its actions, and    *)
(* those of the others leave it alone.                                     *)
(***************************************************************************)
EXTENDS PeerProperties, FiniteSetTheorems, TLAPS

\* Where the goroutine is tells the status of the row.
PlaceFits(d) ==
  LET s == row[d].status
  IN  /\ worker[d].pc = "begin" => s = "queued"
      /\ worker[d].pc \in Conducting \ {"begin", "fail", "finish"} => s = "running"
      /\ worker[d].pc = "fail" => s \in {"queued", "running"}
      /\ worker[d].pc = "finish" => s \in {"running", "cancelling"}
      /\ worker[d].pc = "leave" => s # "absent"
      /\ caller[d].pc = "start" => s = "queued" /\ worker[d].pc = "none"

\* The copy is the row, but for the reason of an end that is to be saved.
CopyFits(d) ==
  worker[d].pc \in Conducting =>
    /\ worker[d].copy.status = row[d].status /\ worker[d].copy.version = row[d].version
    /\ worker[d].copy.turns = row[d].turns /\ worker[d].copy.tokens = row[d].tokens
    /\ worker[d].copy.created = row[d].created
    /\ worker[d].pc \notin {"complete", "fail"} => worker[d].copy.reason = ""
    /\ worker[d].pc = "complete" => Lives!Ends(worker[d].copy)
    /\ worker[d].pc = "pause" => worker[d].attempt < MaxAttempts

\* The row, its transcript and its end.
RowFits(d) ==
  /\ row[d].status = "absent" =>
       row[d] = Unwritten /\ messages[d] = 0 /\ worker[d].pc = "none"
  /\ row[d].status # "absent" => messages[d] = row[d].turns + 1
  /\ row[d].status = "completed" => Lives!Ends(row[d])

\* What holds of every dialogue.
DialogueFits(d) == PlaceFits(d) /\ CopyFits(d) /\ RowFits(d)

\* Nothing runs while the process is down.
DownFits ==
  phase = "down" =>
    \A d \in Dialogues : worker[d].pc = "none" /\ caller[d].pc \in {"idle", "spent"}

\* The inductive invariant.
IInv == PeerTypeOK /\ DownFits /\ \A d \in Dialogues : DialogueFits(d)

-----------------------------------------------------------------------------
\* A row stays a row when its fields are given values of their types.
LEMMA RowChanged ==
  ASSUME NEW t \in RowType, NEW s \in Statuses, NEW v \in Nat, NEW x \in Reasons,
         NEW n \in Nat, NEW k \in Nat
  PROVE  /\ [t EXCEPT !.status = s, !.version = v, !.reason = x] \in RowType
         /\ [t EXCEPT !.tokens = k, !.version = v] \in RowType
         /\ [t EXCEPT !.turns = n, !.tokens = k, !.version = v] \in RowType
         /\ [t EXCEPT !.reason = x] \in RowType
  BY DEF RowType

\* Transition, when it does not refuse, sets the status and the version, and keeps the
\* reason only of a dialogue that completes.
LEMMA MovedDoes ==
  ASSUME NEW old \in RowType, NEW to \in Statuses, CanTransition(old.status, to)
  PROVE  LET new == Moved(old, to)
         IN  /\ new \in RowType /\ new.status = to /\ new.version = old.version + 1
             /\ new.turns = old.turns /\ new.tokens = old.tokens /\ new.created = old.created
             /\ new.reason = IF to = "completed" THEN old.reason ELSE ""
  <1>0. old.version + 1 \in Nat /\ old.reason \in Reasons /\ "" \in Reasons
    <2>1. old.version + 1 \in Nat
      BY DEF RowType
    <2>2. old.reason \in Reasons
      BY DEF RowType
    <2>3. "" \in Reasons
      BY DEF Reasons
    <2> QED BY <2>1, <2>2, <2>3
  <1> DEFINE v == old.version + 1
             x == IF to = "completed" THEN old.reason ELSE ""
             new == [old EXCEPT !.status = to, !.version = v, !.reason = x]
  <1>1. v \in Nat /\ x \in Reasons
    <2> HIDE DEF new
    <2> QED BY <1>0
  <1>2. Moved(old, to) = new
    BY SMTT(40) DEF Moved
  <1> HIDE DEF v, x
  <1>3. new \in RowType
    BY <1>1, RowChanged
  <1>4. /\ new.status = to /\ new.version = v /\ new.turns = old.turns /\ new.tokens = old.tokens
        /\ new.created = old.created /\ new.reason = x
    BY DEF RowType
  <1> QED BY <1>2, <1>3, <1>4 DEF v, x

\* The row of one dialogue is written.
LEMMA RowWritten ==
  ASSUME PeerTypeOK, NEW d \in Dialogues, NEW w \in RowType, row' = [row EXCEPT ![d] = w]
  PROVE  /\ row' \in [Dialogues -> RowType] /\ row'[d] = w
         /\ \A e \in Dialogues \ {d} : row'[e] = row[e]
  BY DEF PeerTypeOK

\* The conductor of one dialogue is written.
LEMMA WorkerWritten ==
  ASSUME PeerTypeOK, NEW d \in Dialogues, NEW w \in WorkerType, worker' = [worker EXCEPT ![d] = w]
  PROVE  /\ worker' \in [Dialogues -> WorkerType] /\ worker'[d] = w
         /\ \A e \in Dialogues \ {d} : worker'[e] = worker[e]
  BY DEF PeerTypeOK

\* The caller of one dialogue is written.
LEMMA CallerWritten ==
  ASSUME PeerTypeOK, NEW d \in Dialogues, NEW w \in CallerType, caller' = [caller EXCEPT ![d] = w]
  PROVE  /\ caller' \in [Dialogues -> CallerType] /\ caller'[d] = w
         /\ \A e \in Dialogues \ {d} : caller'[e] = caller[e]
  BY DEF PeerTypeOK

\* What the types say of one dialogue.
LEMMA Here ==
  ASSUME PeerTypeOK, NEW d \in Dialogues
  PROVE  row[d] \in RowType /\ Valid(row[d]) /\ worker[d] \in WorkerType /\ caller[d] \in CallerType
           /\ worker[d].copy \in RowType
  BY DEF PeerTypeOK, WorkerType

\* A conductor that goes on elsewhere keeps its copy.
LEMMA GoesDoes ==
  ASSUME PeerTypeOK, NEW d \in Dialogues, NEW p \in Conducting \cup {"none", "leave"}, Goes(d, p)
  PROVE  /\ worker' \in [Dialogues -> WorkerType]
         /\ worker'[d].pc = p /\ worker'[d].copy = worker[d].copy
         /\ worker'[d].attempt = worker[d].attempt
         /\ \A e \in Dialogues \ {d} : worker'[e] = worker[e]
  <1> DEFINE new == [worker[d] EXCEPT !.pc = p]
  <1>1. worker' = [worker EXCEPT ![d] = new]
    BY DEF Goes
  <1>2. new.pc = p /\ new.copy = worker[d].copy /\ new.attempt = worker[d].attempt
    BY Here DEF WorkerType
  <1>3. new \in WorkerType
    BY Here DEF WorkerType
  <1> HIDE DEF new
  <1> QED BY <1>1, <1>2, <1>3, WorkerWritten

-----------------------------------------------------------------------------
(* A step of one dialogue.                                                 *)

\* Nothing of another dialogue is touched.
Alone(d) ==
  \A e \in Dialogues \ {d} :
    row'[e] = row[e] /\ messages'[e] = messages[e] /\ worker'[e] = worker[e] /\ caller'[e] = caller[e]

\* The row stays, is created, or goes on.
RowMoves(d) ==
  \/ row'[d] = row[d] /\ messages'[d] = messages[d]
  \/ row'[d] # row[d] /\ (Lives!Created(d) \/ Lives!Advanced(d))

\* The rows, transcripts and goroutines stay in order.
Typed ==
  /\ row' \in [Dialogues -> RowType] /\ messages' \in [Dialogues -> 0..MaxTurns + 1]
  /\ worker' \in [Dialogues -> WorkerType] /\ caller' \in [Dialogues -> CallerType]

\* What a step of a dialogue leaves behind.
Kept(d) == Typed /\ Valid(row'[d]) /\ DialogueFits(d)' /\ Alone(d) /\ RowMoves(d)

\* What a conductor saves when it changes the status of its row.
LEMMA CopyMoved ==
  ASSUME PeerTypeOK, NEW d \in Dialogues, CopyFits(d), worker[d].pc \in Conducting,
         NEW to \in {"running", "failed", "cancelling", "cancelled", "expired"},
         CanTransition(row[d].status, to)
  PROVE  LET new == Moved(worker[d].copy, to)
         IN  /\ new \in RowType /\ Accepted(d, new) /\ new.status = to
             /\ new.version = row[d].version + 1 /\ new.turns = row[d].turns
             /\ new.tokens = row[d].tokens /\ new.created = row[d].created /\ new.reason = ""
  <1> DEFINE old == worker[d].copy
             new == Moved(old, to)
  <1>1. old \in RowType /\ row[d] \in RowType /\ Valid(row[d]) /\ to \in Statuses
    BY Here DEF Statuses, Live, Final
  <1>2. /\ old.status = row[d].status /\ old.version = row[d].version /\ old.turns = row[d].turns
        /\ old.tokens = row[d].tokens /\ old.created = row[d].created
    BY <1>1 DEF CopyFits, RowType
  <1>3. /\ new \in RowType /\ new.status = to /\ new.version = old.version + 1
        /\ new.turns = old.turns /\ new.tokens = old.tokens /\ new.created = old.created
        /\ new.reason = ""
    <2> HIDE DEF old
    <2> QED BY <1>1, <1>2, MovedDoes
  <1> HIDE DEF old, new
  <1>4. Valid(new)
    BY <1>1, <1>2, <1>3 DEF Valid
  <1>5. Accepted(d, new)
    BY <1>2, <1>3, <1>4 DEF Accepted
  <1> QED BY <1>2, <1>3, <1>5 DEF old, new

\* The counters of a row are numbers, within the budget.
LEMMA Counters ==
  ASSUME PeerTypeOK, NEW d \in Dialogues
  PROVE  /\ row[d].version \in Nat /\ row[d].turns \in Nat /\ row[d].tokens \in 0..MaxTokens
         /\ messages[d] \in Nat /\ row[d].turns <= MaxTurns
  <1>1. row[d] \in RowType /\ Valid(row[d])
    BY Here
  <1>2. row[d].version \in Nat /\ row[d].turns \in Nat
    BY <1>1 DEF RowType
  <1>3. row[d].tokens \in 0..MaxTokens /\ row[d].turns \in 0..MaxTurns
    BY <1>1 DEF Valid
  <1>5. row[d].turns <= MaxTurns
    BY <1>3, BudgetAssumption
  <1>4. messages[d] \in Nat
    BY BudgetAssumption DEF PeerTypeOK
  <1> QED BY <1>2, <1>3, <1>4, <1>5

\* Arithmetic that the provers find by itself but not amid other facts.
LEMMA NextNumber == \A n \in Nat : n + 1 # n /\ n + 1 > 0 /\ n + 1 \in Nat
  OBVIOUS

\* A sum of numbers is a number.
LEMMA SumIsNat == \A n \in Nat, k \in Nat : n + k \in Nat
  OBVIOUS

\* What is added does not take away.
LEMMA Grows == \A n \in Nat : \A k \in 0..n, i \in Nat : k <= k + i
  OBVIOUS

\* A number between another and a limit.
LEMMA Between == \A n \in Nat : \A k \in 0..n : k \in k..n /\ \A i \in 0..n : k <= i => i \in k..n
  OBVIOUS

\* A transcript grows by the turns that are added.
LEMMA Difference == \A m \in Nat : \A n \in Nat : m = m + n - n /\ m + 1 = m + (n + 1) - n
  OBVIOUS

\* A running dialogue may go on running.
LEMMA RankRunning ==
  Lives!Rank("running") \in 1..3 /\ Lives!Rank("running") >= Lives!Rank("running")
  BY DEF Lives!Rank

\* What CanTransition allows never leads back.
LEMMA Ranks ==
  ASSUME NEW from, NEW to, CanTransition(from, to)
  PROVE  Lives!Rank(from) \in 1..3 /\ Lives!Rank(to) >= Lives!Rank(from)
  <1>1. CASE from = "queued"
    BY <1>1 DEF CanTransition, Lives!Rank
  <1>2. CASE from = "running"
    BY <1>2 DEF CanTransition, Lives!Rank
  <1>3. CASE from = "cancelling"
    BY <1>3 DEF CanTransition, Lives!Rank
  <1> QED BY <1>1, <1>2, <1>3 DEF CanTransition

\* The status of a live row is changed, and nothing else of it.
LEMMA StatusMoved ==
  ASSUME PeerTypeOK, NEW d \in Dialogues, RowFits(d), Valid(row'[d]), messages' = messages,
         CanTransition(row[d].status, row'[d].status), row'[d].status # "completed",
         row'[d].version = row[d].version + 1, row'[d].turns = row[d].turns,
         row'[d].tokens = row[d].tokens, row'[d].created = row[d].created, row'[d].reason = ""
  PROVE  RowFits(d)' /\ RowMoves(d)
  <1>2. row[d].status \in Live /\ row'[d].status # "absent" /\ row[d].status # "absent"
    BY DEF CanTransition, Live
  <1>3. RowFits(d)'
    BY <1>2 DEF RowFits
  <1>4. row[d] \in RowType /\ Valid(row[d])
    BY Here
  <1>5. Lives!Rank(row[d].status) \in 1..3 /\ Lives!Rank(row'[d].status) >= Lives!Rank(row[d].status)
    BY Ranks
  <1>21. /\ row[d].version \in Nat /\ row[d].turns \in Nat /\ row[d].tokens \in 0..MaxTokens
        /\ messages[d] \in Nat
    BY Counters
  <1>6. row[d].version + 1 # row[d].version /\ row[d].tokens \in row[d].tokens..MaxTokens
    BY <1>21, NextNumber, Between, BudgetAssumption
  <1>7. messages'[d] = messages[d] + row'[d].turns - row[d].turns
    <2>1. messages[d] = messages[d] + row[d].turns - row[d].turns
      BY <1>21, Difference
    <2> QED BY <2>1
  <1>8. Lives!Advanced(d)
    BY <1>2, <1>5, <1>6, <1>7 DEF Lives!Advanced
  <1> QED BY <1>3, <1>6, <1>8 DEF RowMoves, PeerTypeOK

\* The same, of a row that one step writes.
LEMMA StatusSaved ==
  ASSUME PeerTypeOK, NEW d \in Dialogues, RowFits(d), NEW new \in RowType, Valid(new),
         row' \in [Dialogues -> RowType], row'[d] = new, messages' = messages,
         \A e \in Dialogues \ {d} : row'[e] = row[e],
         CanTransition(row[d].status, new.status), new.status # "completed",
         new.version = row[d].version + 1, new.turns = row[d].turns,
         new.tokens = row[d].tokens, new.created = row[d].created, new.reason = ""
  PROVE  RowFits(d)' /\ RowMoves(d)
  BY StatusMoved

\* Row and transcript are left alone.
LEMMA RowLeft ==
  ASSUME PeerTypeOK, NEW d \in Dialogues, RowFits(d), row' = row, messages' = messages,
         row[d].status # "absent" \/ worker'[d].pc = "none"
  PROVE  /\ row' \in [Dialogues -> RowType] /\ Valid(row'[d])
         /\ messages' \in [Dialogues -> 0..MaxTurns + 1]
         /\ RowFits(d)' /\ RowMoves(d)
         /\ \A e \in Dialogues \ {d} : row'[e] = row[e] /\ messages'[e] = messages[e]
  BY DEF PeerTypeOK, RowFits, RowMoves

\* An error on the way leaves all to failPeerDialogue.
LEMMA FailsKeeps ==
  ASSUME PeerTypeOK, NEW d \in Dialogues, DialogueFits(d), Fails(d),
         worker[d].pc \in Conducting \ {"finish"}
  PROVE  Kept(d)
  <1>1. row' = row /\ messages' = messages /\ caller' = caller /\ Goes(d, "fail")
    BY DEF Fails, store, asking
  <1>2. /\ worker' \in [Dialogues -> WorkerType]
        /\ worker'[d].pc = "fail" /\ worker'[d].copy = worker[d].copy
        /\ \A e \in Dialogues \ {d} : worker'[e] = worker[e]
    BY <1>1, GoesDoes DEF Conducting
  <1>3. row[d].status # "absent"
    BY DEF DialogueFits, RowFits, Conducting
  <1>4. PlaceFits(d)' /\ CopyFits(d)'
    BY <1>1, <1>2 DEF DialogueFits, PlaceFits, CopyFits, Conducting
  <1>5. /\ row' \in [Dialogues -> RowType] /\ Valid(row'[d])
        /\ messages' \in [Dialogues -> 0..MaxTurns + 1] /\ RowFits(d)' /\ RowMoves(d)
    BY <1>1, <1>3, RowLeft DEF DialogueFits
  <1> QED BY <1>1, <1>2, <1>4, <1>5 DEF Kept, Typed, Alone, DialogueFits, PeerTypeOK

\* A conductor gets a new copy and goes on.
LEMMA CopyGoes ==
  ASSUME PeerTypeOK, NEW d \in Dialogues, NEW p \in Conducting \cup {"none", "leave"},
         NEW c \in RowType, worker' = [worker EXCEPT ![d].copy = c, ![d].pc = p]
  PROVE  /\ worker' \in [Dialogues -> WorkerType]
         /\ worker'[d].pc = p /\ worker'[d].copy = c /\ worker'[d].attempt = worker[d].attempt
         /\ \A e \in Dialogues \ {d} : worker'[e] = worker[e]
  <1> DEFINE new == [worker[d] EXCEPT !.copy = c, !.pc = p]
  <1>1. worker' = [worker EXCEPT ![d] = new]
    OBVIOUS
  <1>2. new.pc = p /\ new.copy = c /\ new.attempt = worker[d].attempt
    BY Here DEF WorkerType
  <1>3. new \in WorkerType
    BY Here DEF WorkerType
  <1> HIDE DEF new
  <1> QED BY <1>1, <1>2, <1>3, WorkerWritten

\* The goroutine goes on, and the row is left alone.
LEMMA GoesOn ==
  ASSUME PeerTypeOK, NEW d \in Dialogues, DialogueFits(d),
         row' = row, messages' = messages, caller' = caller,
         worker' \in [Dialogues -> WorkerType], \A e \in Dialogues \ {d} : worker'[e] = worker[e],
         worker'[d].copy = worker[d].copy,
         worker[d].pc \in Conducting \ {"begin", "complete", "fail", "finish"},
         worker'[d].pc \in Conducting \ {"begin", "complete"},
         worker'[d].pc = "pause" => worker'[d].attempt < MaxAttempts
  PROVE  Kept(d)
  <1>1. row[d].status = "running"
    BY DEF DialogueFits, PlaceFits
  <1>2. PlaceFits(d)' /\ CopyFits(d)'
    BY <1>1 DEF DialogueFits, PlaceFits, CopyFits, Conducting
  <1>3. /\ row' \in [Dialogues -> RowType] /\ Valid(row'[d])
        /\ messages' \in [Dialogues -> 0..MaxTurns + 1] /\ RowFits(d)' /\ RowMoves(d)
    BY <1>1, RowLeft DEF DialogueFits
  <1> QED BY <1>2, <1>3 DEF Kept, Typed, Alone, DialogueFits, PeerTypeOK

\* executePeerDialogue: the row runs, or its context has ended already.
LEMMA BeginKeeps ==
  ASSUME PeerTypeOK, NEW d \in Dialogues, DialogueFits(d), Begin(d)
  PROVE  Kept(d)
  <1>1. CASE Dead(d)
    BY <1>1, FailsKeeps DEF Begin, At, Conducting
  <1>2. CASE ~Dead(d)
    <2> DEFINE new == Moved(worker[d].copy, "running")
    <2>1. /\ worker[d].pc = "begin" /\ row[d].status = "queued" /\ messages' = messages
          /\ caller' = caller /\ Saved(d, new)
          /\ worker' = [worker EXCEPT ![d].copy = new, ![d].pc = "read"]
      BY <1>2 DEF Begin, At, DialogueFits, PlaceFits, asking
    <2>2. /\ new \in RowType /\ Accepted(d, new) /\ new.status = "running"
          /\ new.version = row[d].version + 1 /\ new.turns = row[d].turns
          /\ new.tokens = row[d].tokens /\ new.created = row[d].created /\ new.reason = ""
      BY <2>1, CopyMoved DEF Conducting, CanTransition, DialogueFits
    <2> HIDE DEF new
    <2>3. row' = [row EXCEPT ![d] = new] /\ Valid(new)
      BY <2>1, <2>2 DEF Saved, Accepted
    <2>4. /\ row' \in [Dialogues -> RowType] /\ row'[d] = new
          /\ \A e \in Dialogues \ {d} : row'[e] = row[e]
      BY <2>2, <2>3, RowWritten
    <2>5. RowFits(d)' /\ RowMoves(d)
      BY <2>1, <2>2, <2>3, <2>4, StatusSaved, ZenonT(60) DEF DialogueFits, CanTransition
    <2>6. /\ worker' \in [Dialogues -> WorkerType]
          /\ worker'[d].pc = "read" /\ worker'[d].copy = new
          /\ \A e \in Dialogues \ {d} : worker'[e] = worker[e]
      BY <2>1, <2>2, CopyGoes, ZenonT(60) DEF Conducting
    <2>7. PlaceFits(d)' /\ CopyFits(d)'
      BY <2>1, <2>2, <2>4, <2>6 DEF PlaceFits, CopyFits, Conducting, DialogueFits
    <2> QED BY <2>1, <2>3, <2>4, <2>5, <2>6, <2>7 DEF Kept, Typed, Alone, DialogueFits, PeerTypeOK
  <1> QED BY <1>1, <1>2

\* A conductor that erred has its usage to charge.
LEMMA ErrsDoes ==
  ASSUME PeerTypeOK, NEW d \in Dialogues, NEW x \in {"failure", "budget", "context"}, Errs(d, x)
  PROVE  /\ worker' \in [Dialogues -> WorkerType]
         /\ worker'[d].pc = "usage" /\ worker'[d].copy = worker[d].copy
         /\ \A e \in Dialogues \ {d} : worker'[e] = worker[e]
  <1> DEFINE new == [worker[d] EXCEPT !.pc = "usage", !.cause = x]
  <1>1. worker' = [worker EXCEPT ![d] = new]
    BY DEF Errs
  <1>2. new.pc = "usage" /\ new.copy = worker[d].copy
    BY Here DEF WorkerType
  <1>3. new \in WorkerType
    BY Here DEF WorkerType, Conducting
  <1> HIDE DEF new
  <1> QED BY <1>1, <1>2, <1>3, WorkerWritten

\* What an attempt has spent is a number.
LEMMA SpentDoes ==
  ASSUME PeerTypeOK, NEW d \in Dialogues, NEW tokens \in Usage
  PROVE  /\ Spent(d, tokens) \in WorkerType /\ Spent(d, tokens).copy = worker[d].copy
         /\ Spent(d, tokens).attempt = worker[d].attempt
  <1> DEFINE n == worker[d].spent + tokens
  <1>1. n \in Nat
    <2>1. worker[d].spent \in Nat
      BY Here DEF WorkerType
    <2>2. tokens \in Nat
      BY BudgetAssumption
    <2> QED BY <2>1, <2>2
  <1>2. Spent(d, tokens) = [worker[d] EXCEPT !.spent = n]
    BY DEF Spent
  <1> HIDE DEF n
  <1>3. [worker[d] EXCEPT !.spent = n] \in WorkerType
    BY <1>1, Here DEF WorkerType
  <1>4. /\ [worker[d] EXCEPT !.spent = n].copy = worker[d].copy
        /\ [worker[d] EXCEPT !.spent = n].attempt = worker[d].attempt
    BY Here DEF WorkerType
  <1> QED BY <1>2, <1>3, <1>4

\* The steps of a conductor that leave the row alone.
LEMMA QuietWorks ==
  ASSUME PeerTypeOK, NEW d \in Dialogues, DialogueFits(d),
         \/ ReadMessages(d) \/ OpenRun(d) \/ OpenFails(d) \/ Answer(d) \/ AnswerFails(d)
         \/ CloseRun(d) \/ Retry(d)
  PROVE  Kept(d)
  <1>1. CASE ReadMessages(d) /\ ~Dead(d)
    <2> DEFINE new == [worker[d] EXCEPT !.pc = "open", !.attempt = 1, !.spent = 0]
    <2>1. /\ worker[d].pc = "read" /\ row' = row /\ messages' = messages /\ caller' = caller
          /\ worker' = [worker EXCEPT ![d] = new]
      BY <1>1 DEF ReadMessages, At, store, asking
    <2>2. 1 \in 0..MaxAttempts
      BY BudgetAssumption
    <2>3. new \in WorkerType
      BY <2>2, Here DEF WorkerType, Conducting
    <2>4. new.pc = "open" /\ new.copy = worker[d].copy
      BY Here DEF WorkerType
    <2> HIDE DEF new
    <2> QED BY <2>1, <2>3, <2>4, WorkerWritten, GoesOn DEF Conducting
  <1>2. CASE ReadMessages(d) /\ Dead(d)
    BY <1>2, FailsKeeps DEF ReadMessages, At, Conducting
  <1>3. CASE OpenRun(d)
    <2>1. worker[d].pc = "open" /\ row' = row /\ messages' = messages /\ caller' = caller
      BY <1>3 DEF OpenRun, At, asking
    <2>2. \/ worker' = worker
          \/ Goes(d, "model")
          \/ \E x \in {"failure", "budget", "context"} : Errs(d, x)
      BY <1>3 DEF OpenRun
    <2>3. CASE worker' = worker
      BY <2>1, <2>3, GoesOn DEF Conducting, PeerTypeOK
    <2>4. CASE Goes(d, "model")
      BY <2>1, <2>4, GoesDoes, GoesOn DEF Conducting
    <2>5. CASE \E x \in {"failure", "budget", "context"} : Errs(d, x)
      BY <2>1, <2>5, ErrsDoes, GoesOn DEF Conducting
    <2> QED BY <2>2, <2>3, <2>4, <2>5
  <1>4. CASE OpenFails(d)
    <2>1. /\ worker[d].pc = "open" /\ row' = row /\ messages' = messages /\ caller' = caller
          /\ Errs(d, "failure")
      BY <1>4 DEF OpenFails, At, asking, store
    <2> QED BY <2>1, ErrsDoes, GoesOn DEF Conducting
  <1>5. CASE Answer(d)
    <2>1. PICK tokens \in Usage, reply \in {"complete", "continue", "plain"} :
            worker' = [worker EXCEPT ![d] = [Spent(d, tokens) EXCEPT
              !.pc = "answered", !.reply = reply]]
      BY <1>5 DEF Answer
    <2>2. worker[d].pc = "model" /\ row' = row /\ messages' = messages /\ caller' = caller
      BY <1>5 DEF Answer, At, asking, store
    <2> DEFINE new == [Spent(d, tokens) EXCEPT !.pc = "answered", !.reply = reply]
    <2>3. Spent(d, tokens) \in WorkerType /\ Spent(d, tokens).copy = worker[d].copy
      BY SpentDoes
    <2>4. new \in WorkerType /\ new.copy = worker[d].copy /\ new.pc = "answered"
      <3> DEFINE s == Spent(d, tokens)
      <3>1. s \in WorkerType /\ s.copy = worker[d].copy
        BY <2>3
      <3> HIDE DEF s
      <3>2. [s EXCEPT !.pc = "answered", !.reply = reply] \in WorkerType
        BY <3>1 DEF WorkerType, Conducting
      <3>3. /\ [s EXCEPT !.pc = "answered", !.reply = reply].copy = s.copy
            /\ [s EXCEPT !.pc = "answered", !.reply = reply].pc = "answered"
        BY <3>1 DEF WorkerType
      <3> QED BY <3>1, <3>2, <3>3 DEF s
    <2>5. worker' = [worker EXCEPT ![d] = new]
      BY <2>1
    <2> HIDE DEF new
    <2> QED BY <2>2, <2>4, <2>5, WorkerWritten, GoesOn DEF Conducting
  <1>6. CASE AnswerFails(d)
    <2>1. PICK tokens \in Usage, cause \in {"failure", "transient", "budget", "context"} :
            worker' = [worker EXCEPT ![d] = [Spent(d, tokens) EXCEPT
              !.pc = IF cause = "transient" /\ Retries(d) THEN "pause" ELSE "usage",
              !.cause = IF cause = "transient" THEN "failure" ELSE cause]]
      BY <1>6 DEF AnswerFails
    <2>2. worker[d].pc = "model" /\ row' = row /\ messages' = messages /\ caller' = caller
      BY <1>6 DEF AnswerFails, At, asking
    <2> DEFINE p == IF cause = "transient" /\ Retries(d) THEN "pause" ELSE "usage"
               x == IF cause = "transient" THEN "failure" ELSE cause
               s == Spent(d, tokens)
               new == [s EXCEPT !.pc = p, !.cause = x]
    <2>3. s \in WorkerType /\ s.copy = worker[d].copy /\ s.attempt = worker[d].attempt
      BY SpentDoes
    <2>4. /\ p \in {"pause", "usage"} /\ x \in {"failure", "budget", "context"}
          /\ p = "pause" => worker[d].attempt < MaxAttempts
      BY DEF Retries
    <2>5. worker' = [worker EXCEPT ![d] = new]
      BY <2>1
    <2> HIDE DEF p, x, s
    <2>6. new \in WorkerType
      BY <2>3, <2>4 DEF WorkerType, Conducting
    <2>7. new.copy = s.copy /\ new.pc = p /\ new.attempt = s.attempt
      BY <2>3 DEF WorkerType
    <2> HIDE DEF new
    <2> QED BY <2>2, <2>3, <2>4, <2>5, <2>6, <2>7, WorkerWritten, GoesOn DEF Conducting
  <1>7. CASE CloseRun(d)
    <2>1. worker[d].pc = "answered" /\ row' = row /\ messages' = messages /\ caller' = caller
      BY <1>7 DEF CloseRun, At, asking
    <2>2. Errs(d, "context") \/ Goes(d, "append")
      BY <1>7 DEF CloseRun
    <2> QED BY <2>1, <2>2, ErrsDoes, GoesDoes, GoesOn DEF Conducting
  <1>8. CASE Retry(d)
    <2>1. worker[d].pc = "pause" /\ row' = row /\ messages' = messages /\ caller' = caller
      BY <1>8 DEF Retry, At, asking, store
    <2>2. CASE Errs(d, "context")
      BY <2>1, <2>2, ErrsDoes, GoesOn DEF Conducting
    <2>3. CASE worker' = [worker EXCEPT ![d].pc = "open", ![d].attempt = @ + 1]
      <3> DEFINE n == worker[d].attempt + 1
                 new == [worker[d] EXCEPT !.pc = "open", !.attempt = n]
      <3>1. n \in 0..MaxAttempts
        <4>1. worker[d].attempt \in 0..MaxAttempts /\ worker[d].attempt < MaxAttempts
          BY <2>1, Here DEF WorkerType, DialogueFits, CopyFits, Conducting
        <4> QED BY <4>1, BudgetAssumption
      <3>2. worker' = [worker EXCEPT ![d] = new]
        BY <2>3
      <3> HIDE DEF n
      <3>3. new \in WorkerType /\ new.copy = worker[d].copy /\ new.pc = "open"
        BY <3>1, Here DEF WorkerType, Conducting
      <3> HIDE DEF new
      <3> QED BY <2>1, <3>2, <3>3, WorkerWritten, GoesOn DEF Conducting
    <2> QED BY <1>8, <2>2, <2>3 DEF Retry
  <1> QED BY <1>1, <1>2, <1>3, <1>4, <1>5, <1>6, <1>7, <1>8

\* A running row takes an answer, or pays for a failed one.
LEMMA RunningSaved ==
  ASSUME PeerTypeOK, NEW d \in Dialogues, RowFits(d), NEW new \in RowType, Valid(new),
         row' \in [Dialogues -> RowType], row'[d] = new,
         row[d].status = "running", new.status = "running",
         new.version = row[d].version + 1, new.created = row[d].created, new.reason = "",
         row[d].tokens <= new.tokens,
         \/ new.turns = row[d].turns /\ messages'[d] = messages[d]
         \/ new.turns = row[d].turns + 1 /\ messages'[d] = messages[d] + 1
  PROVE  RowFits(d)' /\ RowMoves(d)
  <1>1. /\ row[d].version \in Nat /\ row[d].turns \in Nat /\ row[d].tokens \in 0..MaxTokens
        /\ messages[d] \in Nat
    BY Counters
  <1>2. new.tokens \in 0..MaxTokens
    BY DEF Valid
  <1>3. new.tokens \in row[d].tokens..MaxTokens
    <2>1. MaxTokens \in Nat
      BY BudgetAssumption
    <2> QED BY <1>1, <1>2, <2>1, Between
  <1>4. messages[d] = row[d].turns + 1
    BY DEF RowFits
  <1>6. /\ messages'[d] = new.turns + 1 /\ new # row[d]
        /\ messages'[d] = messages[d] + new.turns - row[d].turns
    <2>1. new # row[d]
      BY <1>1, NextNumber, ZenonT(60)
    <2>2. messages'[d] = new.turns + 1
      BY <1>4
    <2>3. messages'[d] = messages[d] + new.turns - row[d].turns
      BY <1>1, Difference
    <2> QED BY <2>1, <2>2, <2>3
  <1>7. Lives!Rank("running") \in 1..3 /\ Lives!Rank("running") >= Lives!Rank("running")
    BY RankRunning
  <1>8. Lives!Advanced(d)
    BY <1>3, <1>6, <1>7 DEF Lives!Advanced
  <1> QED BY <1>6, <1>8 DEF RowFits, RowMoves

\* What is charged fits in what is left of the budget.
LEMMA ChargedIs == ASSUME PeerTypeOK, NEW d \in Dialogues, CopyFits(d), worker[d].pc \in Conducting
                   PROVE  Charged(d) \in Nat
  <1>1. worker[d].spent \in Nat
    BY Here DEF WorkerType
  <1>2. worker[d].copy.tokens \in 0..MaxTokens
    BY Counters DEF CopyFits
  <1>3. MaxTokens - worker[d].copy.tokens \in Nat
    BY <1>2, BudgetAssumption
  <1> QED BY <1>1, <1>3 DEF Charged

\* The reason of an end may be noted in a copy.
LEMMA ReasonSet ==
  ASSUME NEW t \in RowType, NEW x \in Reasons
  PROVE  LET c == [t EXCEPT !.reason = x]
         IN  /\ c \in RowType /\ c.status = t.status /\ c.version = t.version
             /\ c.turns = t.turns /\ c.tokens = t.tokens /\ c.created = t.created /\ c.reason = x
  BY DEF RowType

\* The charge of failed attempts is saved, or forgotten, and never half of it.
LEMMA RecordFailedUsageKeeps ==
  ASSUME PeerTypeOK, NEW d \in Dialogues, DialogueFits(d), RecordFailedUsage(d)
  PROVE  Kept(d)
  <1> DEFINE old == worker[d].copy
             new == [old EXCEPT !.tokens = @ + Charged(d), !.version = @ + 1]
             kept == ~Dead(d) /\ Charged(d) > 0 /\ Accepted(d, new)
             soft == worker[d].cause = "budget" /\ Enough(d)
             base == IF kept THEN new ELSE old
             why == IF soft THEN "max_tokens" ELSE base.reason
             copy == [base EXCEPT !.reason = why]
             pc == IF soft THEN "complete"
                   ELSE IF worker[d].cause = "context" THEN "finish" ELSE "fail"
  <1>1. /\ worker[d].pc = "usage" /\ messages' = messages /\ caller' = caller
        /\ row' = IF kept THEN [row EXCEPT ![d] = new] ELSE row
        /\ worker' = [worker EXCEPT ![d].copy = copy, ![d].pc = pc]
    BY DEF RecordFailedUsage, At, asking, ChargedCopy
  <1>2. /\ row[d].status = "running" /\ old \in RowType /\ row[d] \in RowType
        /\ old.status = "running" /\ old.version = row[d].version /\ old.turns = row[d].turns
        /\ old.tokens = row[d].tokens /\ old.created = row[d].created /\ old.reason = ""
    BY <1>1, Here DEF DialogueFits, PlaceFits, CopyFits, Conducting
  <1>3. Charged(d) \in Nat
    BY <1>1, ChargedIs DEF DialogueFits, Conducting
  <1>4. /\ new \in RowType /\ new.status = "running" /\ new.version = row[d].version + 1
        /\ new.turns = row[d].turns /\ new.tokens = row[d].tokens + Charged(d)
        /\ new.created = row[d].created /\ new.reason = ""
    <2>1. old.tokens + Charged(d) \in Nat /\ old.version + 1 \in Nat
      <3>1. old.tokens \in Nat /\ old.version \in Nat
        BY <1>2 DEF RowType
      <3> QED BY <1>3, <3>1
    <2> DEFINE k == old.tokens + Charged(d)
               v == old.version + 1
    <2>2. new = [old EXCEPT !.tokens = k, !.version = v]
      OBVIOUS
    <2> HIDE DEF k, v, old, new
    <2>3. [old EXCEPT !.tokens = k, !.version = v] \in RowType
      BY <1>2, <2>1 DEF k, v, RowType
    <2>4. LET r == [old EXCEPT !.tokens = k, !.version = v]
          IN  /\ r.status = old.status /\ r.version = v /\ r.turns = old.turns /\ r.tokens = k
              /\ r.created = old.created /\ r.reason = old.reason
      BY <1>2 DEF RowType
    <2> QED BY <1>2, <2>2, <2>3, <2>4 DEF k, v
  <1>5. kept => Valid(new)
    BY DEF Accepted
  <1>6. soft => row[d].turns > 0
    <2>1. row[d].turns \in Nat
      BY Counters
    <2>2. soft => row[d].turns >= MinTurns
      BY <1>2 DEF Enough
    <2> QED BY <2>1, <2>2, BudgetAssumption
  <1>7. pc \in {"complete", "finish", "fail"} /\ (soft <=> pc = "complete")
    OBVIOUS
  <1> HIDE DEF old, new, kept, soft, pc
  <1>8. base \in RowType /\ base.reason = "" /\ base.status = "running"
    BY <1>2, <1>4
  <1>9. why \in Reasons /\ (soft => why = "max_tokens") /\ (~soft => why = "")
    BY <1>8 DEF Reasons
  <1> HIDE DEF base, why
  <1>10. /\ copy \in RowType /\ copy.status = "running" /\ copy.version = base.version
         /\ copy.turns = base.turns /\ copy.tokens = base.tokens /\ copy.created = base.created
         /\ copy.reason = why
    BY <1>8, <1>9, ReasonSet, ZenonT(60)
  <1> HIDE DEF copy
  <1>11. /\ worker' \in [Dialogues -> WorkerType]
         /\ worker'[d].pc = pc /\ worker'[d].copy = copy
         /\ \A e \in Dialogues \ {d} : worker'[e] = worker[e]
    BY <1>1, <1>7, <1>10, CopyGoes, ZenonT(60) DEF Conducting
  <1>12. /\ row' \in [Dialogues -> RowType] /\ Valid(row'[d])
         /\ messages' \in [Dialogues -> 0..MaxTurns + 1] /\ RowFits(d)' /\ RowMoves(d)
         /\ \A e \in Dialogues \ {d} : row'[e] = row[e] /\ messages'[e] = messages[e]
         /\ row'[d].status = "running" /\ row'[d].version = base.version
         /\ row'[d].turns = base.turns /\ row'[d].tokens = base.tokens
         /\ row'[d].created = base.created
    <2>1. CASE kept
      <3>1. /\ row' \in [Dialogues -> RowType] /\ row'[d] = new /\ base = new
            /\ \A e \in Dialogues \ {d} : row'[e] = row[e]
        BY <1>1, <1>4, <2>1, RowWritten DEF base
      <3>2. row[d].tokens <= new.tokens
        <4>1. row[d].tokens \in 0..MaxTokens
          BY Counters
        <4>2. MaxTokens \in Nat
          BY BudgetAssumption
        <4> QED BY <1>3, <1>4, <4>1, <4>2, Grows
      <3>3. RowFits(d)' /\ RowMoves(d)
        BY <1>1, <1>2, <1>4, <1>5, <2>1, <3>1, <3>2, RunningSaved DEF DialogueFits
      <3> QED BY <1>1, <1>4, <1>5, <2>1, <3>1, <3>3 DEF PeerTypeOK
    <2>2. CASE ~kept
      <3>1. row' = row /\ base = old
        BY <1>1, <2>2 DEF base
      <3>2. /\ row' \in [Dialogues -> RowType] /\ Valid(row'[d])
            /\ messages' \in [Dialogues -> 0..MaxTurns + 1] /\ RowFits(d)' /\ RowMoves(d)
            /\ \A e \in Dialogues \ {d} : row'[e] = row[e] /\ messages'[e] = messages[e]
        BY <1>1, <1>2, <3>1, RowLeft DEF DialogueFits
      <3> QED BY <1>2, <3>1, <3>2
    <2> QED BY <2>1, <2>2
  <1>13. PlaceFits(d)'
    BY <1>1, <1>7, <1>11, <1>12 DEF DialogueFits, PlaceFits, Conducting
  <1>14. row'[d].turns = row[d].turns
    BY <1>2, <1>4, <1>12 DEF base
  <1>15. pc = "complete" => Lives!Ends(copy)
    BY <1>6, <1>7, <1>9, <1>10, <1>12, <1>14 DEF Lives!Ends
  <1>16. CopyFits(d)'
    BY <1>7, <1>9, <1>10, <1>11, <1>12, <1>15 DEF CopyFits
  <1> QED BY <1>1, <1>11, <1>12, <1>13, <1>16 DEF Kept, Typed, Alone, DialogueFits, PeerTypeOK

\* A dialogue ends after an answer for one of the reasons PeerLife knows.
LEMMA EndedIs ==
  ASSUME NEW new \in RowType, Valid(new), NEW reply, new.turns > 0
  PROVE  LET why == Ended(new, reply)
         IN  why \in Reasons /\ (why # "" => Lives!Ends([new EXCEPT !.reason = why]))
  <1> DEFINE why == Ended(new, reply)
             end == [new EXCEPT !.reason = why]
  <1>1. why \in Reasons
    BY DEF Ended, Reasons
  <1>2. end.reason = why /\ end.turns = new.turns
    BY DEF RowType
  <1>3. new.turns \in 0..MaxTurns
    BY DEF Valid
  <1>4. new.turns >= MaxTurns => new.turns = MaxTurns
    BY <1>3, BudgetAssumption
  <1>5. \/ why = ""
        \/ why = "max_turns" /\ new.turns = MaxTurns
        \/ why = "max_tokens"
        \/ why \in {"semantic", "implicit"} /\ new.turns >= MinTurns
    BY <1>4 DEF Ended
  <1> HIDE DEF why, end
  <1>6. why # "" => Lives!Ends(end)
    BY <1>2, <1>5 DEF Lives!Ends
  <1> QED BY <1>1, <1>6 DEF why, end

\* An answer is counted and written at once, in row, transcript and copy.
LEMMA AppendKeeps ==
  ASSUME PeerTypeOK, NEW d \in Dialogues, DialogueFits(d), Append(d)
  PROVE  Kept(d)
  <1> DEFINE old == worker[d].copy
             new == Taken(d)
             why == Ended(new, worker[d].reply)
             refused == Dead(d) \/ ~Accepted(d, new) \/ row[d].status # "running"
                          \/ messages[d] # new.turns
             copy == [new EXCEPT !.reason = why]
             pc == IF why = "" THEN "read" ELSE "complete"
  <1>1. CASE refused
    <2>1. worker[d].pc = "append" /\ Fails(d)
      BY <1>1 DEF Append, At
    <2> QED BY <2>1, FailsKeeps DEF Conducting
  <1>2. CASE ~refused
    <2>1. /\ worker[d].pc = "append" /\ Accepted(d, new) /\ row[d].status = "running"
          /\ messages[d] = new.turns
          /\ row' = [row EXCEPT ![d] = new] /\ messages' = [messages EXCEPT ![d] = @ + 1]
          /\ worker' = [worker EXCEPT ![d].copy = copy, ![d].pc = pc] /\ caller' = caller
      BY <1>2 DEF Append, At, asking
    <2>2. /\ old \in RowType /\ row[d] \in RowType /\ old.status = "running"
          /\ old.version = row[d].version /\ old.turns = row[d].turns
          /\ old.tokens = row[d].tokens /\ old.created = row[d].created /\ old.reason = ""
          /\ worker[d].spent \in Nat
      BY <2>1, Here DEF DialogueFits, CopyFits, Conducting, WorkerType
    <2>3. /\ new \in RowType /\ new.status = "running" /\ new.version = row[d].version + 1
          /\ new.turns = row[d].turns + 1 /\ new.tokens = row[d].tokens + worker[d].spent
          /\ new.created = row[d].created /\ new.reason = ""
      <3> DEFINE n == old.turns + 1
                 k == old.tokens + worker[d].spent
                 v == old.version + 1
      <3>1. n \in Nat /\ k \in Nat /\ v \in Nat
        <4>1. old.tokens \in Nat /\ old.version \in Nat /\ old.turns \in Nat
          BY <2>2 DEF RowType
        <4> HIDE DEF old, new, why, refused, copy, pc
        <4> QED BY <2>2, <4>1, NextNumber, SumIsNat
      <3>2. new = [old EXCEPT !.turns = n, !.tokens = k, !.version = v]
        BY DEF Taken
      <3> HIDE DEF n, k, v, old, new
      <3>3. [old EXCEPT !.turns = n, !.tokens = k, !.version = v] \in RowType
        BY <2>2, <3>1 DEF RowType
      <3>4. LET r == [old EXCEPT !.turns = n, !.tokens = k, !.version = v]
            IN  /\ r.status = old.status /\ r.version = v /\ r.turns = n /\ r.tokens = k
                /\ r.created = old.created /\ r.reason = old.reason
        BY <2>2 DEF RowType
      <3> QED BY <2>2, <3>2, <3>3, <3>4 DEF n, k, v
    <2>4. Valid(new)
      BY <2>1 DEF Accepted
    <2> HIDE DEF old, new, refused
    <2>5. why \in Reasons /\ (why # "" => Lives!Ends([new EXCEPT !.reason = why]))
      <3>1. new.turns > 0
        BY <2>3, Counters, NextNumber
      <3> HIDE DEF copy, pc
      <3> QED BY <2>3, <2>4, <3>1, EndedIs
    <2> HIDE DEF why
    <2>6. /\ copy \in RowType /\ copy.status = "running" /\ copy.version = new.version
          /\ copy.turns = new.turns /\ copy.tokens = new.tokens /\ copy.created = new.created
          /\ copy.reason = why /\ (why # "" => Lives!Ends(copy))
      BY <2>3, <2>5, ReasonSet, ZenonT(60)
    <2>7. pc \in {"read", "complete"} /\ (pc = "complete" <=> why # "")
      OBVIOUS
    <2> HIDE DEF copy, pc
    <2>8. /\ worker' \in [Dialogues -> WorkerType]
          /\ worker'[d].pc = pc /\ worker'[d].copy = copy
          /\ \A e \in Dialogues \ {d} : worker'[e] = worker[e]
      BY <2>1, <2>6, <2>7, CopyGoes, ZenonT(60) DEF Conducting
    <2>9. /\ row' \in [Dialogues -> RowType] /\ row'[d] = new
          /\ \A e \in Dialogues \ {d} : row'[e] = row[e]
      BY <2>1, <2>3, RowWritten
    <2>10. /\ messages' \in [Dialogues -> 0..MaxTurns + 1] /\ messages'[d] = messages[d] + 1
           /\ \A e \in Dialogues \ {d} : messages'[e] = messages[e]
      <3>1. messages[d] \in 0..MaxTurns
        BY <2>1, <2>4 DEF Valid
      <3>2. messages[d] + 1 \in 0..MaxTurns + 1
        BY <3>1, BudgetAssumption
      <3> QED BY <2>1, <3>2 DEF PeerTypeOK
    <2>11. row[d].tokens <= new.tokens
      <3>1. row[d].tokens \in 0..MaxTokens /\ MaxTokens \in Nat
        BY Counters, BudgetAssumption
      <3> QED BY <2>2, <2>3, <3>1, Grows
    <2>12. RowFits(d)' /\ RowMoves(d)
      BY <2>1, <2>3, <2>4, <2>9, <2>10, <2>11, RunningSaved DEF DialogueFits
    <2>13. PlaceFits(d)' /\ CopyFits(d)'
      BY <2>1, <2>3, <2>6, <2>7, <2>8, <2>9, ZenonT(60) DEF DialogueFits, PlaceFits, CopyFits,
         Conducting
    <2> QED BY <2>1, <2>4, <2>8, <2>9, <2>10, <2>12, <2>13
        DEF Kept, Typed, Alone, DialogueFits, PeerTypeOK
  <1> QED BY <1>1, <1>2

\* A dialogue completes with the reason its conductor noted.
LEMMA CompleteKeeps ==
  ASSUME PeerTypeOK, NEW d \in Dialogues, DialogueFits(d), Complete(d)
  PROVE  Kept(d)
  <1> DEFINE old == worker[d].copy
             new == Moved(old, "completed")
  <1>1. CASE Dead(d) \/ ~Accepted(d, new)
    <2>1. worker[d].pc = "complete" /\ Fails(d)
      BY <1>1 DEF Complete, At
    <2> QED BY <2>1, FailsKeeps DEF Conducting
  <1>2. CASE ~(Dead(d) \/ ~Accepted(d, new))
    <2>1. /\ worker[d].pc = "complete" /\ Accepted(d, new) /\ row[d].status = "running"
          /\ row' = [row EXCEPT ![d] = new] /\ messages' = messages
          /\ worker' = [worker EXCEPT ![d].copy = new, ![d].pc = "leave"] /\ caller' = caller
      BY <1>2 DEF Complete, At, asking, DialogueFits, PlaceFits, Conducting
    <2>2. /\ old \in RowType /\ old.status = "running" /\ "completed" \in Statuses
          /\ old.version = row[d].version /\ old.turns = row[d].turns
          /\ old.tokens = row[d].tokens /\ old.created = row[d].created /\ Lives!Ends(old)
      BY <2>1, Here DEF DialogueFits, CopyFits, Conducting, Statuses, Final
    <2>3. CanTransition(old.status, "completed")
      BY <2>2 DEF CanTransition
    <2> HIDE DEF old
    <2>4. /\ new \in RowType /\ new.status = "completed" /\ new.version = row[d].version + 1
          /\ new.turns = row[d].turns /\ new.tokens = row[d].tokens
          /\ new.created = row[d].created /\ new.reason = old.reason
      <3>1. /\ new \in RowType /\ new.status = "completed" /\ new.version = old.version + 1
            /\ new.turns = old.turns /\ new.tokens = old.tokens
            /\ new.created = old.created /\ new.reason = old.reason
        BY <2>2, <2>3, MovedDoes
      <3> HIDE DEF new
      <3> QED BY <2>2, <3>1
    <2> HIDE DEF new
    <2>5. Lives!Ends(new) /\ Valid(new)
      BY <2>1, <2>2, <2>4 DEF Lives!Ends, Accepted
    <2>6. /\ row' \in [Dialogues -> RowType] /\ row'[d] = new
          /\ \A e \in Dialogues \ {d} : row'[e] = row[e]
      BY <2>1, <2>4, RowWritten
    <2>7. /\ worker' \in [Dialogues -> WorkerType] /\ worker'[d].pc = "leave"
          /\ \A e \in Dialogues \ {d} : worker'[e] = worker[e]
      BY <2>1, <2>4, CopyGoes
    <2>8. Lives!Advanced(d) /\ row'[d] # row[d]
      <3>1. Lives!Rank("running") \in 1..3 /\ Lives!Rank("completed") >= Lives!Rank("running")
        BY Ranks DEF CanTransition
      <3>2. new.tokens \in row[d].tokens..MaxTokens
        BY <2>4, Counters, Between, BudgetAssumption
      <3>3. messages'[d] = messages[d] + new.turns - row[d].turns
        BY <2>1, <2>4, Counters, Difference
      <3> QED BY <2>1, <2>4, <2>5, <2>6, <3>1, <3>2, <3>3 DEF Lives!Advanced
    <2>9. RowFits(d)'
      BY <2>1, <2>4, <2>5, <2>6 DEF DialogueFits, RowFits
    <2>10. PlaceFits(d)' /\ CopyFits(d)'
      BY <2>1, <2>4, <2>6, <2>7 DEF DialogueFits, PlaceFits, CopyFits, Conducting
    <2> QED BY <2>1, <2>5, <2>6, <2>7, <2>8, <2>9, <2>10
        DEF Kept, Typed, Alone, RowMoves, DialogueFits, PeerTypeOK
  <1> QED BY <1>1, <1>2

\* A conductor fails the dialogue it works at.
LEMMA FailKeeps ==
  ASSUME PeerTypeOK, NEW d \in Dialogues, DialogueFits(d), Fail(d)
  PROVE  Kept(d)
  <1> DEFINE new == Moved(worker[d].copy, "failed")
  <1>1. /\ worker[d].pc = "fail" /\ row[d].status \in {"queued", "running"} /\ Saved(d, new)
        /\ messages' = messages /\ caller' = caller /\ Goes(d, "leave")
    BY DEF Fail, At, DialogueFits, PlaceFits, asking
  <1>2. /\ new \in RowType /\ Accepted(d, new) /\ new.status = "failed"
        /\ new.version = row[d].version + 1 /\ new.turns = row[d].turns
        /\ new.tokens = row[d].tokens /\ new.created = row[d].created /\ new.reason = ""
    BY <1>1, CopyMoved DEF Conducting, CanTransition, DialogueFits
  <1> HIDE DEF new
  <1>3. row' = [row EXCEPT ![d] = new] /\ Valid(new)
    BY <1>1, <1>2 DEF Saved, Accepted
  <1>4. /\ row' \in [Dialogues -> RowType] /\ row'[d] = new
        /\ \A e \in Dialogues \ {d} : row'[e] = row[e]
    BY <1>2, <1>3, RowWritten
  <1>5. RowFits(d)' /\ RowMoves(d)
    BY <1>1, <1>2, <1>3, <1>4, StatusSaved DEF DialogueFits, CanTransition
  <1>6. /\ worker' \in [Dialogues -> WorkerType] /\ worker'[d].pc = "leave"
        /\ \A e \in Dialogues \ {d} : worker'[e] = worker[e]
    BY <1>1, GoesDoes
  <1>7. PlaceFits(d)' /\ CopyFits(d)'
    BY <1>1, <1>2, <1>4, <1>6 DEF PlaceFits, CopyFits, Conducting, DialogueFits
  <1> QED BY <1>1, <1>3, <1>4, <1>5, <1>6, <1>7 DEF Kept, Typed, Alone, DialogueFits, PeerTypeOK

\* A dialogue whose context ended expires, or is cancelled in two saves.
LEMMA FinishCancelledKeeps ==
  ASSUME PeerTypeOK, NEW d \in Dialogues, DialogueFits(d), FinishCancelled(d)
  PROVE  Kept(d)
  <1> DEFINE to == IF worker[d].copy.status = "cancelling" THEN "cancelled"
                   ELSE IF Late(d) THEN "expired" ELSE "cancelling"
             new == Moved(worker[d].copy, to)
             pc == IF to = "cancelling" THEN "finish" ELSE "leave"
  <1>1. /\ worker[d].pc = "finish" /\ Saved(d, new) /\ messages' = messages /\ caller' = caller
        /\ worker' = [worker EXCEPT ![d].copy = new, ![d].pc = pc]
    BY DEF FinishCancelled, At, asking
  <1>2. row[d].status \in {"running", "cancelling"} /\ worker[d].copy.status = row[d].status
    BY <1>1 DEF DialogueFits, PlaceFits, CopyFits, Conducting
  <1>3. to \in {"cancelled", "expired", "cancelling"} /\ CanTransition(row[d].status, to)
    BY <1>2 DEF CanTransition
  <1>4. pc \in {"finish", "leave"} /\ (pc = "finish" => to = "cancelling")
    OBVIOUS
  <1> HIDE DEF to, pc
  <1>5. /\ new \in RowType /\ Accepted(d, new) /\ new.status = to
        /\ new.version = row[d].version + 1 /\ new.turns = row[d].turns
        /\ new.tokens = row[d].tokens /\ new.created = row[d].created /\ new.reason = ""
    <2>1. worker[d].pc \in Conducting /\ CopyFits(d)
      BY <1>1 DEF Conducting, DialogueFits
    <2>2. to \in {"running", "failed", "cancelling", "cancelled", "expired"}
      BY <1>3
    <2> HIDE DEF new
    <2> QED BY <1>3, <2>1, <2>2, CopyMoved DEF new
  <1> HIDE DEF new
  <1>6. row' = [row EXCEPT ![d] = new] /\ Valid(new)
    BY <1>1, <1>5 DEF Saved, Accepted
  <1>7. /\ row' \in [Dialogues -> RowType] /\ row'[d] = new
        /\ \A e \in Dialogues \ {d} : row'[e] = row[e]
    BY <1>5, <1>6, RowWritten
  <1>8. RowFits(d)' /\ RowMoves(d)
    BY <1>1, <1>3, <1>5, <1>6, <1>7, StatusSaved, ZenonT(60) DEF DialogueFits
  <1>9. /\ worker' \in [Dialogues -> WorkerType] /\ worker'[d].pc = pc /\ worker'[d].copy = new
        /\ \A e \in Dialogues \ {d} : worker'[e] = worker[e]
    BY <1>1, <1>4, <1>5, CopyGoes DEF Conducting
  <1>10. PlaceFits(d)' /\ CopyFits(d)'
    BY <1>1, <1>3, <1>4, <1>5, <1>7, <1>9 DEF PlaceFits, CopyFits, Conducting, DialogueFits
  <1> QED BY <1>1, <1>6, <1>7, <1>8, <1>9, <1>10
      DEF Kept, Typed, Alone, DialogueFits, PeerTypeOK

\* A row that is moved as it is stored.
LEMMA StoredMoved ==
  ASSUME PeerTypeOK, NEW d \in Dialogues, NEW to \in {"failed", "cancelled"},
         CanTransition(row[d].status, to)
  PROVE  LET new == Moved(row[d], to)
         IN  /\ new \in RowType /\ Accepted(d, new) /\ new.status = to
             /\ new.version = row[d].version + 1 /\ new.turns = row[d].turns
             /\ new.tokens = row[d].tokens /\ new.created = row[d].created /\ new.reason = ""
  <1> DEFINE old == row[d]
             new == Moved(old, to)
  <1>1. old \in RowType /\ Valid(row[d]) /\ to \in Statuses
    BY Here DEF Statuses, Final
  <1>2. /\ new \in RowType /\ new.status = to /\ new.version = old.version + 1
        /\ new.turns = old.turns /\ new.tokens = old.tokens /\ new.created = old.created
        /\ new.reason = ""
    <2>1. CanTransition(old.status, to)
      OBVIOUS
    <2> HIDE DEF old
    <2> QED BY <1>1, <2>1, MovedDoes, ZenonT(60)
  <1> HIDE DEF new
  <1>3. Valid(new)
    BY <1>1, <1>2 DEF Valid
  <1>4. Accepted(d, new)
    BY <1>2, <1>3 DEF Accepted
  <1> QED BY <1>2, <1>4 DEF new

\* The deferred handler fails the row as it is stored, not as the conductor knew it.
LEMMA PanicKeeps ==
  ASSUME PeerTypeOK, NEW d \in Dialogues, DialogueFits(d), Panic(d)
  PROVE  Kept(d)
  <1> DEFINE new == Moved(row[d], "failed")
  <1>1. /\ worker[d].pc \in Conducting /\ messages' = messages /\ caller' = caller
        /\ Goes(d, "leave") /\ row[d].status \in {"queued", "running", "cancelling"}
        /\ row' = [row EXCEPT ![d] = new]
    BY DEF Panic, DialogueFits, PlaceFits, asking, Conducting, Live
  <1>2. CanTransition(row[d].status, "failed")
    BY <1>1 DEF CanTransition
  <1>3. /\ new \in RowType /\ Accepted(d, new) /\ new.status = "failed"
        /\ new.version = row[d].version + 1 /\ new.turns = row[d].turns
        /\ new.tokens = row[d].tokens /\ new.created = row[d].created /\ new.reason = ""
    BY <1>2, StoredMoved
  <1> HIDE DEF new
  <1>4. Valid(new)
    BY <1>3 DEF Accepted
  <1>5. /\ row' \in [Dialogues -> RowType] /\ row'[d] = new
        /\ \A e \in Dialogues \ {d} : row'[e] = row[e]
    BY <1>1, <1>3, RowWritten
  <1>6. RowFits(d)' /\ RowMoves(d)
    BY <1>1, <1>2, <1>3, <1>4, <1>5, StatusSaved DEF DialogueFits
  <1>7. /\ worker' \in [Dialogues -> WorkerType] /\ worker'[d].pc = "leave"
        /\ \A e \in Dialogues \ {d} : worker'[e] = worker[e]
    BY <1>1, GoesDoes
  <1>8. PlaceFits(d)' /\ CopyFits(d)'
    BY <1>1, <1>3, <1>5, <1>7 DEF PlaceFits, CopyFits, Conducting, DialogueFits
  <1> QED BY <1>1, <1>4, <1>5, <1>6, <1>7, <1>8 DEF Kept, Typed, Alone, DialogueFits, PeerTypeOK

\* A conductor leaves.
LEMMA DoneKeeps ==
  ASSUME PeerTypeOK, NEW d \in Dialogues, DialogueFits(d), Done(d)
  PROVE  Kept(d)
  <1>1. /\ worker[d].pc = "leave" /\ row' = row /\ messages' = messages /\ caller' = caller
        /\ Goes(d, "none")
    BY DEF Done, At, asking, store
  <1>2. /\ worker' \in [Dialogues -> WorkerType] /\ worker'[d].pc = "none"
        /\ \A e \in Dialogues \ {d} : worker'[e] = worker[e]
    BY <1>1, GoesDoes
  <1>3. /\ row' \in [Dialogues -> RowType] /\ Valid(row'[d])
        /\ messages' \in [Dialogues -> 0..MaxTurns + 1] /\ RowFits(d)' /\ RowMoves(d)
    BY <1>1, <1>2, RowLeft DEF DialogueFits
  <1>4. PlaceFits(d)' /\ CopyFits(d)'
    BY <1>1, <1>2 DEF PlaceFits, CopyFits, Conducting, DialogueFits
  <1> QED BY <1>1, <1>2, <1>3, <1>4 DEF Kept, Typed, Alone, DialogueFits, PeerTypeOK

-----------------------------------------------------------------------------
(* Asking for a dialogue.                                                  *)

\* The places of a caller.
CallerPlaces ==
  {"idle", "run", "lookup", "cooldown", "trigger", "review", "create", "start", "spent"}

\* A caller goes on elsewhere.
LEMMA ToDoes ==
  ASSUME PeerTypeOK, NEW d \in Dialogues, NEW p \in CallerPlaces, To(d, p)
  PROVE  /\ caller' \in [Dialogues -> CallerType] /\ caller'[d].pc = p
         /\ caller'[d].at = caller[d].at
         /\ \A e \in Dialogues \ {d} : caller'[e] = caller[e]
  <1> DEFINE new == [caller[d] EXCEPT !.pc = p]
  <1>1. caller' = [caller EXCEPT ![d] = new]
    BY DEF To
  <1>2. new \in CallerType /\ new.pc = p /\ new.at = caller[d].at
    BY Here DEF CallerType, CallerPlaces
  <1> HIDE DEF new
  <1> QED BY <1>1, <1>2, CallerWritten

\* A caller notes the time and goes on.
LEMMA AskedDoes ==
  ASSUME PeerTypeOK, NEW d \in Dialogues, NEW p \in CallerPlaces,
         caller' = [caller EXCEPT ![d] = Asked(p, now)]
  PROVE  /\ caller' \in [Dialogues -> CallerType] /\ caller'[d].pc = p /\ caller'[d].at = now
         /\ \A e \in Dialogues \ {d} : caller'[e] = caller[e]
  <1> DEFINE new == Asked(p, now)
  <1>1. caller' = [caller EXCEPT ![d] = new]
    OBVIOUS
  <1>2. new \in CallerType /\ new.pc = p /\ new.at = now
    BY DEF Asked, CallerType, CallerPlaces, PeerTypeOK
  <1> HIDE DEF new
  <1> QED BY <1>1, <1>2, CallerWritten

\* A caller that has its answer rests.
LEMMA BackIs == ASSUME NEW d \in Dialogues PROVE Back(d) \in {"idle", "spent"}
  BY DEF Back

\* The caller goes on without a word to the store.
LEMMA CallerGoesOn ==
  ASSUME PeerTypeOK, NEW d \in Dialogues, DialogueFits(d),
         row' = row, messages' = messages, worker' = worker,
         caller' \in [Dialogues -> CallerType], caller'[d].pc # "start",
         \A e \in Dialogues \ {d} : caller'[e] = caller[e]
  PROVE  Kept(d)
  <1>1. PlaceFits(d)' /\ CopyFits(d)'
    BY DEF DialogueFits, PlaceFits, CopyFits
  <1>2. row[d].status # "absent" \/ worker'[d].pc = "none"
    BY DEF DialogueFits, RowFits
  <1>3. /\ row' \in [Dialogues -> RowType] /\ Valid(row'[d])
        /\ messages' \in [Dialogues -> 0..MaxTurns + 1] /\ RowFits(d)' /\ RowMoves(d)
    BY <1>2, RowLeft DEF DialogueFits
  <1> QED BY <1>1, <1>3 DEF Kept, Typed, Alone, DialogueFits, PeerTypeOK

\* The steps of a caller that leave the store's dialogues alone.
LEMMA QuietAsks ==
  ASSUME PeerTypeOK, NEW d \in Dialogues, DialogueFits(d),
         \/ CallTool(d) \/ StartPeerDialogue(d) \/ FindExisting(d) \/ CheckCooldown(d)
         \/ GiveUp(d) \/ ReviewTurn(d) \/ Preflight(d) \/ Propose(d)
  PROVE  Kept(d)
  <1>1. row' = row /\ messages' = messages /\ worker' = worker
    BY DEF CallTool, StartPeerDialogue, FindExisting, CheckCooldown, GiveUp, ReviewTurn, Preflight,
           Propose, store, working
  <1>2. \/ \E p \in CallerPlaces \ {"start"} : To(d, p)
        \/ \E p \in CallerPlaces \ {"start"} : caller' = [caller EXCEPT ![d] = Asked(p, now)]
    <2>1. CASE CallTool(d) \/ StartPeerDialogue(d) \/ ReviewTurn(d) \/ Propose(d)
      BY <2>1 DEF CallTool, StartPeerDialogue, ReviewTurn, Propose, CallerPlaces
    <2>2. CASE FindExisting(d) \/ GiveUp(d)
      BY <2>2, BackIs DEF FindExisting, GiveUp, CallerPlaces
    <2>3. CASE CheckCooldown(d)
      BY <2>3, BackIs DEF CheckCooldown, CallerPlaces
    <2>4. CASE Preflight(d)
      BY <2>4 DEF Preflight, CallerPlaces
    <2> QED BY <2>1, <2>2, <2>3, <2>4
  <1>3. CASE \E p \in CallerPlaces \ {"start"} : To(d, p)
    BY <1>1, <1>3, ToDoes, CallerGoesOn
  <1>4. CASE \E p \in CallerPlaces \ {"start"} : caller' = [caller EXCEPT ![d] = Asked(p, now)]
    BY <1>1, <1>4, AskedDoes, CallerGoesOn
  <1> QED BY <1>2, <1>3, <1>4

\* A dialogue is written with its opener, or the insert is refused.
LEMMA CreateKeeps ==
  ASSUME PeerTypeOK, NEW d \in Dialogues, DialogueFits(d), Create(d)
  PROVE  Kept(d)
  <1>1. CASE ~Insertable(d, caller[d].at)
    <2>1. To(d, Back(d)) /\ row' = row /\ messages' = messages /\ worker' = worker
      BY <1>1 DEF Create, working
    <2>2. Back(d) \in CallerPlaces \ {"start"}
      BY BackIs DEF CallerPlaces
    <2> QED BY <2>1, <2>2, ToDoes, CallerGoesOn
  <1>2. CASE Insertable(d, caller[d].at)
    <2> DEFINE at == caller[d].at
               new == [Unwritten EXCEPT !.status = "queued", !.version = 1, !.created = at]
    <2>1. /\ row[d].status = "absent" /\ ~PairBusy(d) /\ row' = [row EXCEPT ![d] = new]
          /\ messages' = [messages EXCEPT ![d] = 1] /\ To(d, "start") /\ worker' = worker
          /\ worker[d].pc = "none"
      BY <1>2 DEF Create, working, Insertable, DialogueFits, RowFits
    <2>2. /\ new \in RowType /\ new.status = "queued" /\ new.version = 1 /\ new.turns = 0
          /\ new.tokens = 0 /\ new.reason = "" /\ new.created = at
      <3>1. at \in 0..MaxTime
        BY Here DEF CallerType
      <3> HIDE DEF at
      <3> QED BY <3>1 DEF Unwritten, RowType, Statuses, Live, Final, Reasons
    <2> HIDE DEF new, at
    <2>21. 0 \in 0..MaxTurns /\ 0 \in 0..MaxTokens
      BY BudgetAssumption
    <2>3. Valid(new)
      BY <2>2, <2>21 DEF Valid
    <2>4. /\ row' \in [Dialogues -> RowType] /\ row'[d] = new
          /\ \A e \in Dialogues \ {d} : row'[e] = row[e]
      BY <2>1, <2>2, RowWritten
    <2>5. /\ messages' \in [Dialogues -> 0..MaxTurns + 1] /\ messages'[d] = 1
          /\ \A e \in Dialogues \ {d} : messages'[e] = messages[e]
      <3>1. 1 \in 0..MaxTurns + 1
        BY BudgetAssumption
      <3> QED BY <2>1, <3>1 DEF PeerTypeOK
    <2>6. /\ caller' \in [Dialogues -> CallerType] /\ caller'[d].pc = "start"
          /\ \A e \in Dialogues \ {d} : caller'[e] = caller[e]
      BY <2>1, ToDoes DEF CallerPlaces
    <2>7. Lives!Created(d)
      BY <2>1, <2>2, <2>4, <2>5 DEF Lives!Created, Lives!Live, PairBusy, SamePair, Live
    <2>22. 1 = 0 + 1
      OBVIOUS
    <2>8. RowFits(d)'
      BY <2>1, <2>2, <2>4, <2>5, <2>22 DEF RowFits
    <2>10. RowMoves(d)
      BY <2>1, <2>2, <2>4, <2>7 DEF RowMoves
    <2>9. PlaceFits(d)' /\ CopyFits(d)'
      BY <2>1, <2>2, <2>4, <2>6 DEF PlaceFits, CopyFits, Conducting
    <2> QED BY <2>1, <2>3, <2>4, <2>5, <2>6, <2>8, <2>9, <2>10
        DEF Kept, Typed, Alone, DialogueFits, PeerTypeOK
  <1> QED BY <1>1, <1>2

\* A dialogue that is written is begun, or failed while the application closes.
LEMMA StartKeeps ==
  ASSUME PeerTypeOK, NEW d \in Dialogues, DialogueFits(d), Start(d)
  PROVE  Kept(d)
  <1>1. /\ row[d].status = "queued" /\ worker[d].pc = "none" /\ messages' = messages
        /\ To(d, Back(d))
    BY DEF Start, DialogueFits, PlaceFits
  <1>2. /\ caller' \in [Dialogues -> CallerType] /\ caller'[d].pc # "start"
        /\ \A e \in Dialogues \ {d} : caller'[e] = caller[e]
    BY <1>1, BackIs, ToDoes DEF CallerPlaces
  <1>3. CASE phase = "closing"
    <2> DEFINE new == Moved(row[d], "failed")
    <2>1. Saved(d, new) /\ worker' = worker /\ CanTransition(row[d].status, "failed")
      BY <1>1, <1>3 DEF Start, working, CanTransition
    <2>2. /\ new \in RowType /\ Accepted(d, new) /\ new.status = "failed"
          /\ new.version = row[d].version + 1 /\ new.turns = row[d].turns
          /\ new.tokens = row[d].tokens /\ new.created = row[d].created /\ new.reason = ""
      BY <2>1, StoredMoved
    <2> HIDE DEF new
    <2>3. row' = [row EXCEPT ![d] = new] /\ Valid(new)
      BY <2>1, <2>2 DEF Saved, Accepted
    <2>4. /\ row' \in [Dialogues -> RowType] /\ row'[d] = new
          /\ \A e \in Dialogues \ {d} : row'[e] = row[e]
      BY <2>2, <2>3, RowWritten
    <2>5. RowFits(d)' /\ RowMoves(d)
      BY <1>1, <2>1, <2>2, <2>3, <2>4, StatusSaved DEF DialogueFits
    <2>6. PlaceFits(d)' /\ CopyFits(d)'
      BY <1>1, <1>2, <2>1 DEF PlaceFits, CopyFits, Conducting
    <2> QED BY <1>1, <1>2, <2>1, <2>3, <2>4, <2>5, <2>6
        DEF Kept, Typed, Alone, DialogueFits, PeerTypeOK
  <1>4. CASE phase # "closing"
    <2> DEFINE new == Begun(d)
    <2>1. worker' = [worker EXCEPT ![d] = new] /\ row' = row
      BY <1>4 DEF Start
    <2>2. new \in WorkerType /\ new.pc = "begin" /\ new.copy = row[d]
      <3>1. row[d] \in RowType /\ 0 \in 0..MaxAttempts
        BY Here, BudgetAssumption
      <3> QED BY <3>1 DEF Begun, WorkerType, Conducting
    <2> HIDE DEF new
    <2>3. /\ worker' \in [Dialogues -> WorkerType] /\ worker'[d] = new
          /\ \A e \in Dialogues \ {d} : worker'[e] = worker[e]
      BY <2>1, <2>2, WorkerWritten
    <2>4. row[d].reason = ""
      BY <1>1, Here DEF Valid
    <2>5. PlaceFits(d)' /\ CopyFits(d)'
      BY <1>1, <1>2, <2>1, <2>2, <2>3, <2>4 DEF PlaceFits, CopyFits, Conducting
    <2>6. /\ row' \in [Dialogues -> RowType] /\ Valid(row'[d])
          /\ messages' \in [Dialogues -> 0..MaxTurns + 1] /\ RowFits(d)' /\ RowMoves(d)
      BY <1>1, <2>1, RowLeft DEF DialogueFits
    <2> QED BY <1>1, <1>2, <2>1, <2>3, <2>5, <2>6
        DEF Kept, Typed, Alone, DialogueFits, PeerTypeOK
  <1> QED BY <1>3, <1>4

-----------------------------------------------------------------------------
(* Steps put together.                                                     *)

\* What one dialogue does by itself.
DialogueSteps(d) ==
  \/ CallTool(d) \/ StartPeerDialogue(d) \/ GiveUp(d) \/ ReviewTurn(d)
  \/ Asks(d) \/ Works(d) \/ OpenFails(d) \/ Panic(d)

\* Each step of a dialogue keeps what is said of it.
LEMMA StepKeeps ==
  ASSUME PeerTypeOK, NEW d \in Dialogues, DialogueFits(d), DialogueSteps(d)
  PROVE  Kept(d)
  <1>1. CASE CallTool(d) \/ StartPeerDialogue(d) \/ GiveUp(d) \/ ReviewTurn(d)
    BY <1>1, QuietAsks
  <1>2. CASE Asks(d)
    BY <1>2, QuietAsks, CreateKeeps, StartKeeps DEF Asks
  <1>3. CASE Works(d) \/ OpenFails(d)
    BY <1>3, QuietWorks, BeginKeeps, RecordFailedUsageKeeps, AppendKeeps, CompleteKeeps, FailKeeps,
       FinishCancelledKeeps, DoneKeeps DEF Works
  <1>4. CASE Panic(d)
    BY <1>4, PanicKeeps
  <1> QED BY <1>1, <1>2, <1>3, <1>4 DEF DialogueSteps

\* The shape of what a dialogue's row, transcript and goroutines do not tell.
RestTyped ==
  /\ turn \in [Turns -> {"open", "created", "queued", "running", "completed", "failed",
                         "cancelled", "over", "lost"}]
  /\ child \in [Dialogues -> {"none", "created", "queued", "running", "completed", "failed",
                              "cancelled"}]
  /\ registry \subseteq Dialogues /\ cancelled \subseteq Dialogues /\ gate \in BOOLEAN
  /\ now \in 0..MaxTime /\ phase \in {"up", "closing", "down"}
  /\ crashes \in Nat /\ panics \in Nat

\* The types, of what a dialogue's steps say and of the rest.
LEMMA AllTyped ==
  PeerTypeOK <=>
    /\ row \in [Dialogues -> RowType] /\ \A d \in Dialogues : Valid(row[d])
    /\ messages \in [Dialogues -> 0..MaxTurns + 1]
    /\ caller \in [Dialogues -> CallerType] /\ worker \in [Dialogues -> WorkerType]
    /\ RestTyped
  BY DEF PeerTypeOK, RestTyped

\* A root run that is closed has a status.
LEMMA FinishTyped ==
  ASSUME RestTyped, NEW d \in Dialogues, NEW o \in {"completed", "failed", "cancelled"},
         Finish(d, o) \/ turn' = turn
  PROVE  turn' \in [Turns -> {"open", "created", "queued", "running", "completed", "failed",
                              "cancelled", "over", "lost"}]
  BY DEF RestTyped, Finish

\* The gate is taken or not.
LEMMA LeaveTyped ==
  ASSUME RestTyped, NEW d \in Dialogues, Leave(d) \/ gate' = gate \/ gate' = FALSE \/ gate' = TRUE
  PROVE  gate' \in BOOLEAN
  BY DEF RestTyped, Leave

\* Callers keep the rest in order.
LEMMA AskingTyped ==
  ASSUME RestTyped, NEW d \in Dialogues,
         \/ CallTool(d) \/ StartPeerDialogue(d) \/ GiveUp(d) \/ ReviewTurn(d) \/ Asks(d)
  PROVE  RestTyped'
  <1>1. /\ child' = child /\ cancelled' = cancelled /\ now' = now /\ phase' = phase
        /\ crashes' = crashes /\ panics' = panics
    BY DEF CallTool, StartPeerDialogue, GiveUp, ReviewTurn, Asks, FindExisting, CheckCooldown,
           Create, Start, Preflight, Propose, store, world
  <1>2. registry' = registry \/ registry' = registry \cup {d}
    BY DEF CallTool, StartPeerDialogue, GiveUp, ReviewTurn, Asks, FindExisting, CheckCooldown,
           Create, Start, Preflight, Propose, working
  <1>3. gate' \in BOOLEAN
    BY LeaveTyped DEF CallTool, StartPeerDialogue, GiveUp, ReviewTurn, Asks, FindExisting,
           CheckCooldown, Create, Start, Preflight, Propose
  <1>4. turn' \in [Turns -> {"open", "created", "queued", "running", "completed", "failed",
                             "cancelled", "over", "lost"}]
    <2>1. CASE StartPeerDialogue(d)
      BY <2>1 DEF StartPeerDialogue, RestTyped
    <2>2. CASE CallTool(d) \/ ReviewTurn(d) \/ Preflight(d) \/ Propose(d)
      BY <2>2 DEF CallTool, ReviewTurn, Preflight, Propose, store, RestTyped
    <2>3. CASE GiveUp(d)
      BY <2>3, FinishTyped DEF GiveUp
    <2>4. CASE FindExisting(d)
      BY <2>4, FinishTyped DEF FindExisting
    <2>5. CASE CheckCooldown(d)
      BY <2>5, FinishTyped DEF CheckCooldown
    <2>6. CASE Create(d)
      BY <2>6, FinishTyped DEF Create
    <2>7. CASE Start(d)
      BY <2>7, FinishTyped DEF Start
    <2> QED BY <2>1, <2>2, <2>3, <2>4, <2>5, <2>6, <2>7 DEF Asks
  <1> QED BY <1>1, <1>2, <1>3, <1>4 DEF RestTyped

\* Conductors keep the rest in order.
LEMMA WorkingTyped ==
  ASSUME RestTyped, NEW d \in Dialogues, Works(d) \/ OpenFails(d)
  PROVE  RestTyped'
  <1>1. /\ turn' = turn /\ gate' = gate /\ cancelled' = cancelled /\ now' = now /\ phase' = phase
        /\ crashes' = crashes /\ panics' = panics
    BY ZenonT(60) DEF Works, OpenFails, Begin, ReadMessages, OpenRun, Answer, AnswerFails,
       CloseRun, Retry, RecordFailedUsage, Append, Complete, Fail, FinishCancelled, Done, Fails,
       store, asking, world
  <1>2. registry' \subseteq registry
    BY DEF Works, OpenFails, Begin, ReadMessages, OpenRun, Answer, AnswerFails, CloseRun, Retry,
           RecordFailedUsage, Append, Complete, Fail, FinishCancelled, Done, Fails
  <1>3. child' \in [Dialogues -> {"none", "created", "queued", "running", "completed", "failed",
                                  "cancelled"}]
    <2>1. CASE OpenRun(d)
      BY <2>1 DEF OpenRun, RestTyped
    <2>2. CASE AnswerFails(d)
      BY <2>2 DEF AnswerFails, RestTyped
    <2>3. CASE CloseRun(d)
      BY <2>3, SMTT(40) DEF CloseRun, RestTyped
    <2>4. CASE ~OpenRun(d) /\ ~AnswerFails(d) /\ ~CloseRun(d)
      BY <2>4 DEF Works, OpenFails, Begin, ReadMessages, Answer, Retry, RecordFailedUsage, Append,
             Complete, Fail, FinishCancelled, Done, Fails, store, RestTyped
    <2> QED BY <2>1, <2>2, <2>3, <2>4
  <1> QED BY <1>1, <1>2, <1>3, SMTT(40) DEF RestTyped

\* A dialogue's steps keep the rest in order.
LEMMA StepTyped ==
  ASSUME RestTyped, NEW d \in Dialogues, DialogueSteps(d)
  PROVE  RestTyped'
  <1>1. CASE Panic(d)
    BY <1>1 DEF Panic, asking, RestTyped
  <1> QED BY <1>1, AskingTyped, WorkingTyped DEF DialogueSteps

\* Nothing of a dialogue runs while the process is down.
LEMMA StepWhileUp ==
  ASSUME DownFits, NEW d \in Dialogues, DialogueSteps(d)
  PROVE  phase # "down" /\ phase' = phase
  <1>1. CASE CallTool(d) \/ StartPeerDialogue(d) \/ GiveUp(d) \/ ReviewTurn(d) \/ Asks(d)
    BY <1>1, SMTT(40) DEF CallTool, StartPeerDialogue, GiveUp, ReviewTurn, Asks, FindExisting,
       CheckCooldown, Create, Start, Preflight, Propose, world, DownFits
  <1>2. CASE Works(d) \/ OpenFails(d)
    BY <1>2 DEF Works, OpenFails, Begin, ReadMessages, OpenRun, Answer, AnswerFails, CloseRun, Retry,
           RecordFailedUsage, Append, Complete, Fail, FinishCancelled, Done, Fails, At, world
  <1>3. CASE Panic(d)
    BY <1>3 DEF Panic
  <1> QED BY <1>1, <1>2, <1>3 DEF DialogueSteps

\* A dialogue's step keeps what is said of every dialogue.
LEMMA OthersKeep ==
  ASSUME IInv, NEW d \in Dialogues, Kept(d), NEW e \in Dialogues
  PROVE  Valid(row'[e]) /\ DialogueFits(e)' /\ RowMoves(e)
  <1>1. CASE e = d
    BY <1>1 DEF Kept
  <1>2. CASE e # d
    <2>1. /\ row'[e] = row[e] /\ messages'[e] = messages[e] /\ worker'[e] = worker[e]
          /\ caller'[e] = caller[e]
      BY <1>2 DEF Kept, Alone
    <2>2. Valid(row[e]) /\ DialogueFits(e)
      BY Here DEF IInv
    <2>3. PlaceFits(e)'
      BY <2>1, <2>2 DEF DialogueFits, PlaceFits
    <2>4. CopyFits(e)'
      BY <2>1, <2>2 DEF DialogueFits, CopyFits
    <2>5. RowFits(e)'
      BY <2>1, <2>2 DEF DialogueFits, RowFits
    <2> QED BY <2>1, <2>2, <2>3, <2>4, <2>5 DEF DialogueFits, RowMoves
  <1> QED BY <1>1, <1>2

\* What a step of the system does.
Steps == IInv' /\ \A d \in Dialogues : RowMoves(d)

\* A dialogue's step is one the invariant and PeerLife allow.
LEMMA DialogueStep ==
  ASSUME IInv, NEW d \in Dialogues, DialogueSteps(d)
  PROVE  Steps
  <1>1. Kept(d)
    BY StepKeeps DEF IInv
  <1>2. \A e \in Dialogues : Valid(row'[e]) /\ DialogueFits(e)' /\ RowMoves(e)
    BY <1>1, OthersKeep
  <1>3. RestTyped'
    BY AllTyped, StepTyped DEF IInv
  <1>4. DownFits'
    BY StepWhileUp DEF IInv, DownFits
  <1>5. PeerTypeOK'
    BY <1>1, <1>2, <1>3, AllTyped DEF Kept, Typed, PeerTypeOK, RestTyped
  <1> QED BY <1>2, <1>4, <1>5 DEF Steps, IInv

\* So is a step that changes nothing of any dialogue.
LEMMA QuietStep ==
  ASSUME IInv, row' = row, messages' = messages, worker' = worker, caller' = caller,
         RestTyped', DownFits'
  PROVE  Steps
  <1>1. PeerTypeOK'
    BY AllTyped DEF IInv, PeerTypeOK, RestTyped
  <1>2. ASSUME NEW d \in Dialogues PROVE DialogueFits(d)' /\ RowMoves(d)
    BY DEF IInv, DialogueFits, PlaceFits, CopyFits, RowFits, RowMoves
  <1> QED BY <1>1, <1>2 DEF Steps, IInv

\* The owner, the end of a turn, the clock and a shutdown.
LEMMA WorldStep ==
  ASSUME IInv,
         \/ \E d \in Dialogues : CancelPeerDialogue(d)
         \/ \E r \in Turns : EndTurn(r)
         \/ Tick \/ Shutdown
         \/ UNCHANGED vars
  PROVE  Steps
  <1>0. RestTyped
    BY AllTyped DEF IInv
  <1>1. row' = row /\ messages' = messages /\ worker' = worker /\ caller' = caller
    BY DEF CancelPeerDialogue, EndTurn, Tick, Shutdown, store, asking, working, vars
  <1>2. RestTyped'
    <2>1. CASE \E d \in Dialogues : CancelPeerDialogue(d)
      BY <1>0, <2>1 DEF CancelPeerDialogue, store, asking, working, RestTyped
    <2>2. CASE \E r \in Turns : EndTurn(r)
      BY <1>0, <2>2 DEF EndTurn, asking, working, world, RestTyped
    <2>3. CASE Tick
      BY <1>0, <2>3, BudgetAssumption DEF Tick, store, asking, working, RestTyped
    <2>4. CASE Shutdown
      BY <1>0, <2>4 DEF Shutdown, store, asking, RestTyped
    <2>5. CASE UNCHANGED vars
      BY <1>0, <2>5 DEF vars, RestTyped
    <2> QED BY <2>1, <2>2, <2>3, <2>4, <2>5
  <1>3. DownFits'
    BY <1>1 DEF CancelPeerDialogue, EndTurn, Tick, Shutdown, world, vars, IInv, DownFits
  <1> QED BY <1>1, <1>2, <1>3, QuietStep

\* The process ends, and its goroutines with it.
LEMMA StopStep == IInv /\ Stop => Steps
  <1> SUFFICES ASSUME IInv, Stop PROVE Steps
    OBVIOUS
  <1>0. RestTyped /\ PeerTypeOK
    BY AllTyped DEF IInv
  <1>1. row' = row /\ messages' = messages
    BY DEF Stop
  <1>2. RestTyped'
    <2>1. turn' \in [Turns -> {"open", "created", "queued", "running", "completed", "failed",
                               "cancelled", "over", "lost"}]
      BY <1>0 DEF Stop, RestTyped
    <2>2. child' = child /\ now' = now /\ panics' = panics /\ phase' = "down" /\ gate' = FALSE
      BY DEF Stop
    <2>3. registry' = {} /\ cancelled' = {}
      BY DEF Stop
    <2>4. crashes' \in Nat
      BY <1>0 DEF Stop, RestTyped
    <2>5. registry' \subseteq Dialogues /\ cancelled' \subseteq Dialogues /\ gate' \in BOOLEAN
      BY <2>2, <2>3
    <2> QED BY <1>0, <2>1, <2>2, <2>4, <2>5 DEF RestTyped
  <1>3. worker' \in [Dialogues -> WorkerType] /\ \A d \in Dialogues : worker'[d].pc = "none"
    <2>1. Idle \in WorkerType /\ Idle.pc = "none"
      <3>1. Unwritten \in RowType /\ 0 \in 0..MaxAttempts /\ 0 \in Nat
        BY BudgetAssumption DEF Unwritten, RowType, Statuses, Reasons
      <3> QED BY <3>1 DEF Idle, WorkerType
    <2> QED BY <2>1 DEF Stop
  <1>4. /\ caller' \in [Dialogues -> CallerType]
        /\ \A d \in Dialogues : caller'[d].pc \in {"idle", "spent"}
    <2> DEFINE pc(d) == IF caller[d].pc \in {"idle", "spent"} THEN caller[d].pc ELSE "spent"
    <2>1. ASSUME NEW d \in Dialogues
          PROVE  Asked(pc(d), 0) \in CallerType /\ Asked(pc(d), 0).pc \in {"idle", "spent"}
      <3>1. pc(d) \in {"idle", "spent"} /\ 0 \in 0..MaxTime
        BY BudgetAssumption
      <3> HIDE DEF pc
      <3> QED BY <3>1 DEF Asked, CallerType
    <2>2. caller' = [d \in Dialogues |-> Asked(pc(d), 0)]
      BY DEF Stop
    <2> HIDE DEF pc
    <2> QED BY <2>1, <2>2
  <1>5. PeerTypeOK'
    BY <1>0, <1>1, <1>2, <1>3, <1>4, AllTyped DEF PeerTypeOK, RestTyped
  <1>6. ASSUME NEW d \in Dialogues PROVE DialogueFits(d)' /\ RowMoves(d)
    BY <1>1, <1>3, <1>4 DEF IInv, DialogueFits, PlaceFits, CopyFits, RowFits, RowMoves, Conducting
  <1>7. DownFits'
    BY <1>3, <1>4 DEF DownFits
  <1> QED BY <1>5, <1>6, <1>7 DEF Steps, IInv

\* A row that a restart finds.
LEMMA RowRecovered ==
  ASSUME PeerTypeOK, NEW d \in Dialogues, RowFits(d), worker[d].pc = "none", worker' = worker,
         messages' = messages, row'[d] = Recovered(row[d])
  PROVE  row'[d] \in RowType /\ Valid(row'[d]) /\ RowFits(d)' /\ RowMoves(d)
  <1>1. CASE row[d].status \notin Live
    <2>1. row'[d] = row[d]
      BY <1>1 DEF Recovered, Live
    <2> QED BY <2>1, Here DEF RowFits, RowMoves
  <1>2. CASE row[d].status \in Live
    <2> DEFINE to == IF row[d].status = "queued" THEN "cancelled" ELSE "failed"
    <2>1. to \in {"failed", "cancelled"} /\ CanTransition(row[d].status, to)
      BY <1>2 DEF CanTransition, Live
    <2>2. row'[d] = Moved(row[d], to)
      BY <1>2 DEF Recovered
    <2> HIDE DEF to
    <2>3. /\ row'[d] \in RowType /\ Accepted(d, row'[d]) /\ row'[d].status = to
          /\ row'[d].version = row[d].version + 1 /\ row'[d].turns = row[d].turns
          /\ row'[d].tokens = row[d].tokens /\ row'[d].created = row[d].created
          /\ row'[d].reason = ""
      BY <2>1, <2>2, StoredMoved, ZenonT(60)
    <2>4. Valid(row'[d])
      BY <2>3 DEF Accepted
    <2> QED BY <2>1, <2>3, <2>4, StatusMoved
  <1> QED BY <1>1, <1>2

\* A restart recovers all rows at once.
LEMMA RestartStep == IInv /\ Restart => Steps
  <1> SUFFICES ASSUME IInv, Restart PROVE Steps
    OBVIOUS
  <1>0. RestTyped /\ PeerTypeOK /\ \A d \in Dialogues : DialogueFits(d)
    BY AllTyped DEF IInv
  <1>1. /\ messages' = messages /\ worker' = worker /\ caller' = caller
        /\ row' = [d \in Dialogues |-> Recovered(row[d])] /\ phase = "down" /\ phase' = "up"
    BY DEF Restart, asking, working
  <1>2. RestTyped'
    BY <1>0 DEF Restart, asking, working, RestTyped
  <1>3. \A d \in Dialogues : worker[d].pc = "none" /\ caller[d].pc # "start"
    BY <1>1 DEF IInv, DownFits
  <1>4. ASSUME NEW d \in Dialogues
        PROVE  row'[d] \in RowType /\ Valid(row'[d]) /\ RowFits(d)' /\ RowMoves(d)
    <2>1. row'[d] = Recovered(row[d]) /\ RowFits(d) /\ worker[d].pc = "none"
      BY <1>0, <1>1, <1>3 DEF DialogueFits
    <2> QED BY <1>0, <1>1, <2>1, RowRecovered
  <1>5. row' \in [Dialogues -> RowType]
    BY <1>1, <1>4
  <1>6. PeerTypeOK'
    BY <1>0, <1>1, <1>2, <1>4, <1>5, AllTyped DEF PeerTypeOK, RestTyped
  <1>7. ASSUME NEW d \in Dialogues PROVE DialogueFits(d)'
    BY <1>1, <1>3, <1>4 DEF DialogueFits, PlaceFits, CopyFits, Conducting
  <1>8. DownFits'
    BY <1>1 DEF DownFits
  <1> QED BY <1>4, <1>6, <1>7, <1>8 DEF Steps, IInv

\* Every step is one the invariant and PeerLife allow.
LEMMA NextSteps == IInv /\ [Next]_vars => Steps
  <1> SUFFICES ASSUME IInv, [Next]_vars PROVE Steps
    OBVIOUS
  <1>1. ASSUME NEW d \in Dialogues, DialogueSteps(d) PROVE Steps
    BY <1>1, DialogueStep
  <1>2. CASE \/ \E d \in Dialogues : CancelPeerDialogue(d)
             \/ \E r \in Turns : EndTurn(r)
             \/ Tick \/ Shutdown
             \/ UNCHANGED vars
    BY <1>2, WorldStep
  <1>3. CASE Stop
    BY <1>3, StopStep
  <1>4. CASE Restart
    BY <1>4, RestartStep
  <1> QED BY <1>1, <1>2, <1>3, <1>4 DEF Next, DialogueSteps

\* At the start there is no dialogue.
LEMMA InitFits == Init => IInv
  <1> SUFFICES ASSUME Init PROVE IInv
    OBVIOUS
  <1>1. Unwritten \in RowType /\ 0 \in 0..MaxTime /\ 0 \in 0..MaxAttempts /\ 0 \in 0..MaxTurns + 1
    BY BudgetAssumption DEF Unwritten, RowType, Statuses, Reasons
  <1>2. 0 \in 0..MaxTurns /\ 0 \in 0..MaxTokens
    BY BudgetAssumption
  <1>3. Valid(Unwritten)
    BY <1>2 DEF Unwritten, Valid
  <1>4. Idle \in WorkerType
    BY <1>1 DEF Idle, WorkerType
  <1>5. Asked("idle", 0) \in CallerType
    BY <1>1 DEF Asked, CallerType
  <1>6. RestTyped
    BY <1>1 DEF Init, RestTyped
  <1>7. PeerTypeOK
    BY <1>1, <1>3, <1>4, <1>5, <1>6, AllTyped DEF Init
  <1>8. ASSUME NEW d \in Dialogues PROVE DialogueFits(d)
    BY DEF Init, DialogueFits, PlaceFits, CopyFits, RowFits, Idle, Asked, Unwritten, Conducting
  <1>9. DownFits
    BY DEF Init, DownFits
  <1> QED BY <1>7, <1>8, <1>9 DEF IInv

\* The inductive invariant.
LEMMA InvariantHolds == Spec => []IInv
  <1>1. Init => IInv
    BY InitFits
  <1>2. IInv /\ [Next]_vars => IInv'
    BY NextSteps DEF Steps
  <1> QED BY <1>1, <1>2, PTL DEF Spec

\* The copy of the row a goroutine works from is the row that is stored, and
\* every variable keeps its shape: whatever fails, is cancelled, panics or
\* restarts, no save of a status is lost to a conflict of versions.
THEOREM DialoguesHoldAlways == Spec => []DialoguesHold
  <1>1. IInv => DialoguesHold
    BY DEF IInv, DialoguesHold, CopyIsCurrent, DialogueFits, CopyFits
  <1> QED BY <1>1, InvariantHolds, PTL

\* No dialogue is written at the start.
LEMMA LifeInit == Init => Lives!Init
  <1> SUFFICES ASSUME Init PROVE Lives!Init
    OBVIOUS
  <1>1. Unwritten.status = "absent"
    BY DEF Unwritten
  <1>2. \A d \in Dialogues : row[d] = Unwritten
    BY DEF Init
  <1>3. messages = [d \in Dialogues |-> 0]
    BY DEF Init
  <1> QED BY <1>1, <1>2, <1>3 DEF Lives!Init

\* Rows that move one by one, or all at once, move as PeerLife says.
LEMMA LifeNext == (\A d \in Dialogues : RowMoves(d)) => [Lives!Next]_<<row, messages>>
  BY DEF RowMoves, Lives!Next

\* The callers, conductors, cancellations, panics, crashes and restarts of
\* PeerDialogues leave behind only the rows and transcripts of PeerLife.
THEOREM PeerLifeImplemented == Spec => DialoguesFollowPeerLife
  <1>1. Init => Lives!Init
    BY LifeInit
  <1>2. IInv /\ [Next]_vars => [Lives!Next]_<<row, messages>>
    BY NextSteps, LifeNext DEF Steps
  <1> QED BY <1>1, <1>2, InvariantHolds, PTL DEF Spec, DialoguesFollowPeerLife, Lives!Spec

-----------------------------------------------------------------------------
(* Births of dialogues.                                                    *)

\* Whether the dialogue is there, and since when, does not change.
Same(d) ==
  (row'[d].status = "absent" <=> row[d].status = "absent") /\ row'[d].created = row[d].created

\* The one step that writes a dialogue anew.
Born(d) ==
  /\ Create(d) /\ Insertable(d, caller[d].at) /\ row[d].status = "absent"
  /\ row'[d].status = "queued" /\ row'[d].created = caller[d].at
  /\ \A e \in Dialogues \ {d} : row'[e] = row[e]

\* Only Create writes a dialogue that is not there.
LEMMA BornByCreate ==
  ASSUME IInv, NEW d \in Dialogues, row[d].status = "absent", row'[d].status # "absent",
         NEW x \in Dialogues, DialogueSteps(x)
  PROVE  Born(d)
  <1>0. PeerTypeOK /\ DialogueFits(d) /\ Kept(x)
    BY StepKeeps DEF IInv
  <1>1. x = d /\ row'[d] # row[d]
    BY <1>0 DEF Kept, Alone
  <1>2. worker[d].pc = "none" /\ caller[d].pc # "start"
    BY <1>0 DEF DialogueFits, RowFits, PlaceFits
  <1>3. ~Works(d) /\ ~OpenFails(d) /\ ~Panic(d) /\ ~Start(d)
    BY <1>2 DEF Works, OpenFails, Panic, Start, Begin, ReadMessages, OpenRun, Answer, AnswerFails,
           CloseRun, Retry, RecordFailedUsage, Append, Complete, Fail, FinishCancelled, Done, At,
           Conducting
  <1>4. Create(d)
    BY <1>1, <1>3 DEF DialogueSteps, Asks, CallTool, StartPeerDialogue, GiveUp, ReviewTurn,
           FindExisting, CheckCooldown, Preflight, Propose, store
  <1>5. Insertable(d, caller[d].at)
    BY <1>1, <1>4 DEF Create
  <1> DEFINE new == [Unwritten EXCEPT !.status = "queued", !.version = 1,
                                      !.created = caller[d].at]
  <1>6. row' = [row EXCEPT ![d] = new]
    BY <1>4, <1>5 DEF Create
  <1>7. new.status = "queued" /\ new.created = caller[d].at
    BY DEF Unwritten
  <1> HIDE DEF new
  <1>8. row'[d] = new /\ \A e \in Dialogues \ {d} : row'[e] = row[e]
    BY <1>0, <1>6 DEF PeerTypeOK
  <1> QED BY <1>4, <1>5, <1>7, <1>8 DEF Born

\* The same, of any step.
LEMMA BornInStep ==
  ASSUME IInv, [Next]_vars, NEW d \in Dialogues, row[d].status = "absent",
         row'[d].status # "absent"
  PROVE  Born(d)
  <1>1. CASE \E x \in Dialogues : DialogueSteps(x)
    BY <1>1, BornByCreate
  <1>2. CASE \/ \E x \in Dialogues : CancelPeerDialogue(x)
             \/ \E r \in Turns : EndTurn(r)
             \/ Tick \/ Shutdown \/ Stop
             \/ UNCHANGED vars
    BY <1>2 DEF CancelPeerDialogue, EndTurn, Tick, Shutdown, Stop, store, vars
  <1>3. CASE Restart
    <2>1. row'[d] = Recovered(row[d])
      BY <1>3 DEF Restart
    <2> QED BY <2>1 DEF Recovered, Live
  <1> QED BY <1>1, <1>2, <1>3 DEF Next, DialogueSteps

\* A row that advances is there, before and after.
LEMMA RankPositive ==
  ASSUME NEW s, NEW t, Lives!Rank(s) \in 1..3, Lives!Rank(t) >= Lives!Rank(s)
  PROVE  s # "absent" /\ t # "absent"
  <1>1. s # "absent"
    BY DEF Lives!Rank
  <1>2. t # "absent"
    BY DEF Lives!Rank
  <1> QED BY <1>1, <1>2

\* Apart from Create, no step makes a dialogue, moves its time or deletes it.
LEMMA SameOrBorn ==
  ASSUME IInv, [Next]_vars, NEW d \in Dialogues
  PROVE  Same(d) \/ Born(d)
  <1>1. RowMoves(d)
    BY NextSteps DEF Steps
  <1>2. CASE row'[d] = row[d]
    BY <1>2 DEF Same
  <1>3. CASE Lives!Created(d)
    BY <1>3, BornInStep DEF Lives!Created
  <1>4. CASE Lives!Advanced(d)
    BY <1>4, RankPositive DEF Lives!Advanced, Same
  <1> QED BY <1>1, <1>2, <1>3, <1>4 DEF RowMoves

\* The longer cooldown serves both.
LEMMA Cooler ==
  ASSUME NEW at \in Nat, NEW since \in Nat, NEW c \in Nat, NEW k \in Nat, NEW longer \in Nat,
         longer >= c, longer >= k, longer > 0 => ~(since >= at - longer)
  PROVE  \A x \in {c, k} : x > 0 => at > since + x
  OBVIOUS

\* A cooldown is a number.
LEMMA CooldownIs == ASSUME NEW d \in Dialogues PROVE CooldownOf(d) \in Nat
  BY DialogueAssumption DEF CooldownOf

\* No dialogue of a pair is written before the longer of the two cooldowns is
\* over, although a caller checks its own cooldown only, and long before.
THEOREM PairsCoolDown == Spec => PairCoolsDown
  <1>1. ASSUME IInv, [Next]_vars, NEW d \in Dialogues, NEW e \in Dialogues,
               row[d].status = "absent", row'[d].status = "queued", e \in SamePair(d)
        PROVE  \A c \in {CooldownOf(d), CooldownOf(e)} :
                 c > 0 => row'[d].created > row[e].created + c
    <2> DEFINE at == caller[d].at
               since == row[e].created
               longer == IF CooldownOf(e) > CooldownOf(d) THEN CooldownOf(e) ELSE CooldownOf(d)
    <2>1. Born(d)
      BY <1>1, BornInStep
    <2>2. row[e].status \notin Live /\ (longer > 0 => ~(since >= at - longer))
      BY <1>1, <2>1 DEF Born, Insertable, PairBusy, PairCooling
    <2>3. CooldownOf(d) \in Nat /\ CooldownOf(e) \in Nat
      BY CooldownIs
    <2>4. at \in Nat /\ since \in Nat
      <3>1. caller[d].at \in 0..MaxTime /\ row[e].created \in 0..MaxTime
        BY <1>1, Here DEF IInv, CallerType, RowType
      <3> QED BY <3>1, BudgetAssumption
    <2> HIDE DEF at, since
    <2>5. longer \in Nat /\ longer >= CooldownOf(d) /\ longer >= CooldownOf(e)
      BY <2>3
    <2> HIDE DEF longer
    <2>6. \A c \in {CooldownOf(d), CooldownOf(e)} : c > 0 => at > since + c
      BY <2>2, <2>3, <2>4, <2>5, Cooler
    <2> QED BY <2>1, <2>6 DEF Born, at, since
  <1>2. IInv /\ [Next]_vars =>
          [\A d, e \in Dialogues :
             ( /\ row[d].status = "absent" /\ row'[d].status = "queued"
               /\ e \in SamePair(d) /\ row[e].created <= row'[d].created )
             => \A c \in {CooldownOf(d), CooldownOf(e)} :
                  c > 0 => row'[d].created > row[e].created + c]_vars
    BY <1>1
  <1> QED BY <1>2, InvariantHolds, PTL DEF Spec, PairCoolsDown

-----------------------------------------------------------------------------
(* Dialogues that agents open unasked.                                     *)

\* Where a review is under way.
Busy == {"trigger", "review", "create", "start"}

\* The dialogues a ration counts, and those of them it counts for one day.
Unasked(rows, a) ==
  {d \in Dialogues : Kind[d] = "auto" /\ Initiator[d] = a /\ rows[d].status # "absent"}

OnDay(rows, a, day) == {d \in Unasked(rows, a) : Today(rows[d].created) = day}

\* AutonomyIsRationed, of any rows.
Rationed(rows) ==
  \A d \in Dialogues :
    ( Kind[d] = "auto" /\ rows[d].status # "absent" ) =>
      /\ Cardinality(OnDay(rows, Initiator[d], Today(rows[d].created))) <= DailyLimit
      /\ \A e \in Unasked(rows, Initiator[d]) \ {d} :
           \/ rows[e].created >= rows[d].created + PolicyCooldown
           \/ rows[d].created >= rows[e].created + PolicyCooldown
      /\ \A e \in Dialogues \ {d} :
           Trigger[e] = Trigger[d] /\ Initiator[e] = Initiator[d] => rows[e].status = "absent"

\* A turn that is over has no call under way that could write a dialogue.
TurnFits ==
  \A r \in Turns : turn[r] = "over" =>
    \A d \in Dialogues : Trigger[d] = r =>
      Kind[d] # "manual" /\ (Kind[d] = "tool" => caller[d].pc = "idle")

\* A review begins when its turn is over, and only reviews have its places.
ReviewFits(d) ==
  /\ Kind[d] = "auto" =>
       /\ caller[d].pc \in Busy \cup {"idle", "spent"}
       /\ caller[d].pc \in Busy \/ row[d].status # "absent" => turn[Trigger[d]] = "over"
  /\ Kind[d] # "auto" => caller[d].pc \notin {"trigger", "review"}

\* One review at a time, and it has the gate.
GateFits ==
  \A d \in Dialogues : Kind[d] = "auto" /\ caller[d].pc \in Busy =>
    /\ gate
    /\ \A e \in Dialogues : Kind[e] = "auto" /\ caller[e].pc \in Busy => e = d

\* What the preflight found still holds when the dialogue is written.
RationFits(d) ==
  Kind[d] = "auto" /\ caller[d].pc \in {"review", "create"} =>
    /\ \A e \in Dialogues :
         Initiator[e] = Initiator[d] /\ Trigger[e] = Trigger[d] => row[e].status = "absent"
    /\ Cardinality(OnDay(row, Initiator[d], Today(caller[d].at))) < DailyLimit
    /\ \A e \in Unasked(row, Initiator[d]) : caller[d].at >= row[e].created + PolicyCooldown

\* The dialogues that are written can be counted.
Written == {d \in Dialogues : row[d].status # "absent"}

\* What holds of reviews and of the turns they belong to.
ReviewsFit ==
  /\ TurnFits /\ GateFits /\ IsFiniteSet(Written) /\ Rationed(row)
  /\ \A d \in Dialogues : ReviewFits(d) /\ RationFits(d)

\* The inductive invariant of the rations.
RInv == IInv /\ ReviewsFit

-----------------------------------------------------------------------------
\* What a goroutine that asks does to a root run.
TurnGoes(d) ==
  \/ turn' = turn
  \/ /\ Kind[d] = "manual"
     /\ \A r \in Turns : turn'[r] = turn[r] \/ (r = Trigger[d] /\ turn'[r] # "over")

\* A caller changes no root run but that of a manual dialogue, and never to "over".
LEMMA TurnMoves ==
  ASSUME RestTyped, NEW d \in Dialogues, DialogueSteps(d)
  PROVE  TurnGoes(d)
  <1>1. ASSUME NEW o \in {"completed", "failed", "cancelled"}, Finish(d, o)
        PROVE  TurnGoes(d)
    BY <1>1, DialogueAssumption DEF Finish, RestTyped, TurnGoes
  <1>2. CASE StartPeerDialogue(d)
    BY <1>2, DialogueAssumption, SMTT(40) DEF StartPeerDialogue, RestTyped, TurnGoes
  <1>3. CASE CallTool(d) \/ ReviewTurn(d) \/ Preflight(d) \/ Propose(d) \/ OpenFails(d)
             \/ Panic(d) \/ Works(d)
    BY <1>3 DEF CallTool, ReviewTurn, Preflight, Propose, OpenFails, Panic, Works, Begin,
           ReadMessages, OpenRun, Answer, AnswerFails, CloseRun, Retry, RecordFailedUsage, Append,
           Complete, Fail, FinishCancelled, Done, Fails, store, TurnGoes
  <1>4. CASE GiveUp(d)
    BY <1>1, <1>4 DEF GiveUp
  <1>5. CASE FindExisting(d)
    BY <1>1, <1>5 DEF FindExisting, TurnGoes
  <1>6. CASE CheckCooldown(d)
    BY <1>1, <1>6 DEF CheckCooldown, TurnGoes
  <1>7. CASE Create(d)
    BY <1>1, <1>7 DEF Create, TurnGoes
  <1>8. CASE Start(d)
    BY <1>1, <1>8 DEF Start
  <1> QED BY <1>2, <1>3, <1>4, <1>5, <1>6, <1>7, <1>8 DEF DialogueSteps, Asks

\* The steps of a review; the gate is left whenever the review ends.
LEMMA ReviewMoves ==
  ASSUME PeerTypeOK, NEW d \in Dialogues, Kind[d] = "auto", ReviewFits(d), DialogueSteps(d)
  PROVE  \/ caller' = caller /\ gate' = gate
         \/ /\ caller[d].pc = "idle" /\ turn[Trigger[d]] = "over" /\ gate' = TRUE
            /\ \/ gate /\ caller'[d].pc = "spent"
               \/ ~gate /\ caller'[d].pc = "trigger"
         \/ /\ caller[d].pc = "trigger" /\ caller'[d].pc = "review" /\ caller'[d].at = now
            /\ gate' = gate /\ ~Opened(d) /\ Allows(Initiator[d]) /\ row' = row
         \/ /\ caller[d].pc = "review" /\ caller'[d].pc = "create"
            /\ caller'[d].at = caller[d].at /\ gate' = gate
         \/ caller[d].pc = "create" /\ caller'[d].pc = "start" /\ gate' = gate
         \/ caller[d].pc \in Busy /\ caller'[d].pc = "spent" /\ gate' = FALSE
  <1>0. /\ Back(d) = "spent" /\ (Leave(d) => gate' = FALSE)
        /\ caller[d].pc \in Busy \cup {"idle", "spent"}
    BY DEF Back, Leave, ReviewFits
  <1>1. CASE Works(d) \/ OpenFails(d) \/ Panic(d)
    BY <1>1 DEF OpenFails, Panic, Works, Begin, ReadMessages, OpenRun, Answer, AnswerFails, CloseRun,
           Retry, RecordFailedUsage, Append, Complete, Fail, FinishCancelled, Done, Fails, asking
  <1>2. CASE CallTool(d) \/ StartPeerDialogue(d) \/ FindExisting(d) \/ CheckCooldown(d)
    BY <1>0, <1>2 DEF CallTool, StartPeerDialogue, FindExisting, CheckCooldown, Busy
  <1>3. CASE GiveUp(d)
    <2>1. To(d, "spent") /\ gate' = FALSE /\ caller[d].pc \in Busy
      BY <1>0, <1>3 DEF GiveUp, Busy
    <2> QED BY <2>1, ToDoes DEF CallerPlaces
  <1>4. CASE ReviewTurn(d)
    <2>1. /\ caller[d].pc = "idle" /\ turn[Trigger[d]] = "over" /\ gate' = TRUE
          /\ (gate /\ To(d, "spent")) \/ (~gate /\ To(d, "trigger"))
      BY <1>4 DEF ReviewTurn
    <2> QED BY <2>1, ToDoes DEF CallerPlaces
  <1>5. CASE Preflight(d)
    <2>1. CASE To(d, "spent") /\ gate' = FALSE
      BY <1>5, <2>1, ToDoes DEF CallerPlaces, Preflight, Busy
    <2>2. CASE /\ caller' = [caller EXCEPT ![d] = Asked("review", now)] /\ gate' = gate
               /\ ~(Opened(d) \/ ~Allows(Initiator[d]))
      BY <1>5, <2>2, AskedDoes DEF CallerPlaces, Preflight, store
    <2> QED BY <1>5, <2>1, <2>2 DEF Preflight
  <1>6. CASE Propose(d)
    BY <1>6, ToDoes DEF Propose, CallerPlaces, Busy
  <1>7. CASE Create(d)
    <2>1. CASE To(d, "start") /\ gate' = gate
      BY <1>7, <2>1, ToDoes DEF CallerPlaces, Create
    <2>2. CASE To(d, "spent") /\ gate' = FALSE
      BY <1>7, <2>2, ToDoes DEF CallerPlaces, Create, Busy
    <2> QED BY <1>0, <1>7, <2>1, <2>2 DEF Create
  <1>8. CASE Start(d)
    BY <1>0, <1>8, ToDoes DEF Start, CallerPlaces, Busy
  <1> QED BY <1>1, <1>2, <1>3, <1>4, <1>5, <1>6, <1>7, <1>8 DEF DialogueSteps, Asks

\* Who is asked by the owner or by a tool call stays out of the reviews' way,
\* and calls nothing once its turn is over.
LEMMA CallMoves ==
  ASSUME PeerTypeOK, NEW d \in Dialogues, Kind[d] # "auto", ReviewFits(d), DialogueSteps(d)
  PROVE  /\ gate' = gate /\ caller'[d].pc \notin {"trigger", "review"}
         /\ Kind[d] = "tool" /\ turn[Trigger[d]] = "over" /\ caller[d].pc = "idle" =>
              caller'[d].pc = "idle"
  <1>0. /\ Back(d) \in {"idle", "spent"} /\ (Leave(d) => gate' = gate)
        /\ caller[d].pc \notin {"trigger", "review"}
    BY SMTT(40) DEF Back, Leave, ReviewFits
  <1>1. CASE Works(d) \/ OpenFails(d) \/ Panic(d)
    BY <1>0, <1>1 DEF OpenFails, Panic, Works, Begin, ReadMessages, OpenRun, Answer, AnswerFails,
           CloseRun, Retry, RecordFailedUsage, Append, Complete, Fail, FinishCancelled, Done, Fails,
           asking
  <1>2. CASE ReviewTurn(d) \/ Preflight(d) \/ Propose(d)
    BY <1>0, <1>2 DEF ReviewTurn, Preflight, Propose
  <1>3. CASE CallTool(d) \/ StartPeerDialogue(d)
    BY <1>3, ToDoes DEF CallTool, StartPeerDialogue, CallerPlaces
  <1>4. CASE GiveUp(d) \/ FindExisting(d) \/ Create(d) \/ Start(d)
    BY <1>0, <1>4, ToDoes DEF GiveUp, FindExisting, Create, Start, CallerPlaces
  <1>5. CASE CheckCooldown(d)
    BY <1>0, <1>5, ToDoes, AskedDoes DEF CheckCooldown, CallerPlaces
  <1> QED BY <1>1, <1>2, <1>3, <1>4, <1>5 DEF DialogueSteps, Asks

\* Only the review that has the gate opens it.
LEMMA GateKeeps ==
  ASSUME RInv, NEW d \in Dialogues, DialogueSteps(d)
  PROVE  GateFits'
  <1>0. /\ PeerTypeOK /\ ReviewFits(d) /\ GateFits
        /\ \A e \in Dialogues \ {d} : caller'[e] = caller[e]
    BY StepKeeps DEF RInv, IInv, ReviewsFit, Kept, Alone
  <1>1. CASE Kind[d] # "auto"
    BY <1>0, <1>1, CallMoves DEF GateFits
  <1>2. CASE Kind[d] = "auto"
    <2>1. CASE caller' = caller /\ gate' = gate
      BY <1>0, <2>1 DEF GateFits
    <2>2. CASE gate' = gate /\ caller[d].pc \in Busy
      BY <1>0, <1>2, <2>2 DEF GateFits
    <2>3. CASE caller[d].pc \in Busy /\ caller'[d].pc = "spent"
      BY <1>0, <1>2, <2>3 DEF GateFits, Busy
    <2>4. CASE gate' = TRUE /\ caller'[d].pc = "spent"
      BY <1>0, <1>2, <2>4 DEF GateFits, Busy
    <2>5. CASE gate' = TRUE /\ ~gate
      BY <1>0, <1>2, <2>5 DEF GateFits
    <2> QED BY <1>0, <1>2, <2>1, <2>2, <2>3, <2>4, <2>5, ReviewMoves DEF Busy
  <1> QED BY <1>1, <1>2

\* A turn that is over stays without calls.
LEMMA TurnKeeps ==
  ASSUME RInv, NEW d \in Dialogues, DialogueSteps(d)
  PROVE  TurnFits'
  <1>0. /\ PeerTypeOK /\ RestTyped /\ ReviewFits(d) /\ TurnFits
        /\ \A e \in Dialogues \ {d} : caller'[e] = caller[e]
    BY StepKeeps, AllTyped DEF RInv, IInv, ReviewsFit, Kept, Alone
  <1>1. ASSUME NEW r \in Turns, turn'[r] = "over" PROVE turn[r] = "over"
    BY <1>0, <1>1, TurnMoves DEF TurnGoes
  <1>2. ASSUME NEW r \in Turns, turn'[r] = "over", NEW e \in Dialogues, Trigger[e] = r
        PROVE  Kind[e] # "manual" /\ (Kind[e] = "tool" => caller'[e].pc = "idle")
    BY <1>0, <1>1, <1>2, CallMoves DEF TurnFits
  <1> QED BY <1>2 DEF TurnFits

\* A turn that is over stays over.
LEMMA OverLasts ==
  ASSUME RInv, NEW d \in Dialogues, DialogueSteps(d), NEW r \in Turns, turn[r] = "over"
  PROVE  turn'[r] = "over"
  BY TurnMoves, AllTyped DEF RInv, IInv, ReviewsFit, TurnFits, TurnGoes

\* Reviews begin when their turn is over.
LEMMA ReviewKeeps ==
  ASSUME RInv, NEW d \in Dialogues, DialogueSteps(d), NEW e \in Dialogues
  PROVE  ReviewFits(e)'
  <1>0. /\ PeerTypeOK /\ ReviewFits(d) /\ ReviewFits(e) /\ Trigger[e] \in Turns
        /\ \A x \in Dialogues \ {d} : caller'[x] = caller[x] /\ row'[x] = row[x]
    BY StepKeeps, DialogueAssumption DEF RInv, IInv, ReviewsFit, Kept, Alone
  <1>1. CASE e # d
    BY <1>0, <1>1, OverLasts DEF ReviewFits
  <1>2. CASE e = d /\ Kind[d] # "auto"
    BY <1>0, <1>2, CallMoves DEF ReviewFits
  <1>3. CASE e = d /\ Kind[d] = "auto"
    <2>1. caller'[d].pc \in Busy \cup {"idle", "spent"}
      BY <1>0, <1>3, ReviewMoves DEF ReviewFits, Busy
    <2>2. ASSUME caller'[d].pc \in Busy PROVE turn[Trigger[d]] = "over"
      BY <1>0, <1>3, <2>2, ReviewMoves DEF ReviewFits, Busy
    <2>3. ASSUME row'[d].status # "absent" PROVE turn[Trigger[d]] = "over"
      <3>1. CASE row[d].status # "absent"
        BY <1>0, <1>3, <3>1 DEF ReviewFits
      <3>2. CASE row[d].status = "absent"
        <4>1. caller[d].pc = "create"
          BY <2>3, <3>2, BornByCreate DEF RInv, Born, Create
        <4> QED BY <1>0, <1>3, <4>1 DEF ReviewFits, Busy
      <3> QED BY <3>1, <3>2
    <2> QED BY <1>0, <1>3, <2>1, <2>2, <2>3, OverLasts DEF ReviewFits
  <1> QED BY <1>1, <1>2, <1>3

\* A dialogue's step writes at most that dialogue anew.
LEMMA StepSameOrBorn ==
  ASSUME IInv, NEW d \in Dialogues, DialogueSteps(d)
  PROVE  (\A e \in Dialogues : Same(e)) \/ Born(d)
  <1>1. ASSUME NEW e \in Dialogues, ~Same(e) PROVE Born(d)
    <2>1. Kept(d) /\ [Next]_vars
      BY StepKeeps DEF IInv, Next, DialogueSteps
    <2>2. e = d
      BY <1>1, <2>1 DEF Kept, Alone, Same
    <2> QED BY <1>1, <2>1, <2>2, SameOrBorn
  <1> QED BY <1>1

\* Rationed says what the policy promises.
LEMMA RationIs == Rationed(row) => AutonomyIsRationed
  BY DEF Rationed, OnDay, Unasked, AutonomyIsRationed, Autonomous

\* Without a birth there is nothing new to count.
LEMMA SameUnasked ==
  ASSUME \A e \in Dialogues : Same(e)
  PROVE  /\ Written' = Written
         /\ \A a : Unasked(row', a) = Unasked(row, a)
         /\ \A a, day : OnDay(row', a, day) = OnDay(row, a, day)
  <1>1. Written' = Written
    BY DEF Written, Same
  <1>2. ASSUME NEW a PROVE Unasked(row', a) = Unasked(row, a)
    BY DEF Unasked, Same
  <1>3. ASSUME NEW a, NEW day PROVE OnDay(row', a, day) = OnDay(row, a, day)
    <2>1. \A d \in Unasked(row, a) : row'[d].created = row[d].created
      BY DEF Unasked, Same
    <2> QED BY <1>2, <2>1 DEF OnDay
  <1> QED BY <1>1, <1>2, <1>3

\* A birth adds one to what is counted, if it was unasked.
LEMMA BornUnasked ==
  ASSUME NEW d \in Dialogues, Born(d)
  PROVE  /\ Written' = Written \cup {d}
         /\ \A a : Unasked(row', a) = IF Kind[d] = "auto" /\ Initiator[d] = a
                                      THEN Unasked(row, a) \cup {d} ELSE Unasked(row, a)
         /\ \A a, day :
              OnDay(row', a, day) =
                IF Kind[d] = "auto" /\ Initiator[d] = a /\ Today(caller[d].at) = day
                THEN OnDay(row, a, day) \cup {d} ELSE OnDay(row, a, day)
  <1>0. /\ row[d].status = "absent" /\ row'[d].status # "absent"
        /\ row'[d].created = caller[d].at /\ \A e \in Dialogues \ {d} : row'[e] = row[e]
    BY DEF Born
  <1>1. Written' = Written \cup {d}
    BY <1>0 DEF Written
  <1>2. ASSUME NEW a
        PROVE  Unasked(row', a) = IF Kind[d] = "auto" /\ Initiator[d] = a
                                  THEN Unasked(row, a) \cup {d} ELSE Unasked(row, a)
    BY <1>0 DEF Unasked
  <1>3. ASSUME NEW a, NEW day
        PROVE  OnDay(row', a, day) =
                 IF Kind[d] = "auto" /\ Initiator[d] = a /\ Today(caller[d].at) = day
                 THEN OnDay(row, a, day) \cup {d} ELSE OnDay(row, a, day)
    <2>1. \A e \in Unasked(row, a) : e # d /\ e \in Dialogues /\ row'[e].created = row[e].created
      BY <1>0 DEF Unasked
    <2>2. CASE Kind[d] = "auto" /\ Initiator[d] = a
      <3>1. Unasked(row', a) = Unasked(row, a) \cup {d}
        BY <1>2, <2>2
      <3> QED BY <1>0, <2>1, <2>2, <3>1 DEF OnDay
    <2>3. CASE ~(Kind[d] = "auto" /\ Initiator[d] = a)
      <3>1. Unasked(row', a) = Unasked(row, a)
        BY <1>2, <2>3
      <3> QED BY <2>1, <2>3, <3>1 DEF OnDay
    <2> QED BY <2>2, <2>3
  <1> QED BY <1>1, <1>2, <1>3

\* What a ration counts is finite.
LEMMA OnDayCounted ==
  ASSUME IsFiniteSet(Written), NEW a, NEW day
  PROVE  IsFiniteSet(OnDay(row, a, day)) /\ Cardinality(OnDay(row, a, day)) \in Nat
  <1>1. OnDay(row, a, day) \subseteq Written
    BY DEF OnDay, Unasked, Written
  <1> QED BY <1>1, FS_Subset, FS_CardinalityType

\* Without a birth the rations hold as before.
LEMMA SameRationed ==
  ASSUME Rationed(row), \A e \in Dialogues : Same(e)
  PROVE  Rationed(row')
  <1> SUFFICES ASSUME NEW d \in Dialogues, Kind[d] = "auto", row'[d].status # "absent"
               PROVE  /\ Cardinality(OnDay(row', Initiator[d], Today(row'[d].created))) <= DailyLimit
                      /\ \A e \in Unasked(row', Initiator[d]) \ {d} :
                           \/ row'[e].created >= row'[d].created + PolicyCooldown
                           \/ row'[d].created >= row'[e].created + PolicyCooldown
                      /\ \A e \in Dialogues \ {d} :
                           Trigger[e] = Trigger[d] /\ Initiator[e] = Initiator[d]
                             => row'[e].status = "absent"
    BY DEF Rationed
  <1>1. row[d].status # "absent" /\ row'[d].created = row[d].created
    BY DEF Same
  <1>2. /\ Cardinality(OnDay(row, Initiator[d], Today(row[d].created))) <= DailyLimit
        /\ \A e \in Unasked(row, Initiator[d]) \ {d} :
             \/ row[e].created >= row[d].created + PolicyCooldown
             \/ row[d].created >= row[e].created + PolicyCooldown
        /\ \A e \in Dialogues \ {d} :
             Trigger[e] = Trigger[d] /\ Initiator[e] = Initiator[d] => row[e].status = "absent"
    BY <1>1 DEF Rationed
  <1>3. Cardinality(OnDay(row', Initiator[d], Today(row'[d].created))) <= DailyLimit
    BY <1>1, <1>2, SameUnasked
  <1>4. ASSUME NEW e \in Unasked(row', Initiator[d]) \ {d}
        PROVE  \/ row'[e].created >= row'[d].created + PolicyCooldown
               \/ row'[d].created >= row'[e].created + PolicyCooldown
    BY <1>1, <1>2, SameUnasked DEF Same, Unasked
  <1> QED BY <1>2, <1>3, <1>4 DEF Same

\* No two writers of the same turn: when a review is about to write, or has
\* written, no call of the same turn is about to.
LEMMA TurnsApart ==
  ASSUME RInv, NEW d \in Dialogues, NEW e \in Dialogues, Born(d), Kind[e] = "auto",
         caller[e].pc \in Busy \/ row[e].status # "absent", Kind[d] # "auto"
  PROVE  Trigger[d] # Trigger[e]
  <1>1. turn[Trigger[e]] = "over" /\ Trigger[e] \in Turns
    BY DialogueAssumption DEF RInv, ReviewsFit, ReviewFits
  <1>2. caller[d].pc = "create"
    BY DEF Born, Create
  <1>3. Kind[d] \in {"tool", "manual"}
    BY DialogueAssumption
  <1> QED BY <1>1, <1>2, <1>3 DEF RInv, ReviewsFit, TurnFits

\* A dialogue that is written unasked was in the ration, and one that is asked for
\* counts for none.
LEMMA BornRationed ==
  ASSUME RInv, NEW d \in Dialogues, Born(d)
  PROVE  Rationed(row')
  <1>0. /\ row[d].status = "absent" /\ row'[d].status # "absent" /\ caller[d].pc = "create"
        /\ row'[d].created = caller[d].at /\ \A e \in Dialogues \ {d} : row'[e] = row[e]
    BY DEF Born, Create
  <1>1. IsFiniteSet(Written) /\ Rationed(row) /\ RationFits(d) /\ ReviewFits(d)
    BY DEF RInv, ReviewsFit
  <1> SUFFICES ASSUME NEW f \in Dialogues, Kind[f] = "auto", row'[f].status # "absent"
               PROVE  /\ Cardinality(OnDay(row', Initiator[f], Today(row'[f].created))) <= DailyLimit
                      /\ \A e \in Unasked(row', Initiator[f]) \ {f} :
                           \/ row'[e].created >= row'[f].created + PolicyCooldown
                           \/ row'[f].created >= row'[e].created + PolicyCooldown
                      /\ \A e \in Dialogues \ {f} :
                           Trigger[e] = Trigger[f] /\ Initiator[e] = Initiator[f]
                             => row'[e].status = "absent"
    BY DEF Rationed
  <1> DEFINE a == Initiator[f]
             day == Today(row'[f].created)
  <1>2. CASE f = d
    <2>1. /\ \A e \in Dialogues :
               Initiator[e] = Initiator[d] /\ Trigger[e] = Trigger[d] => row[e].status = "absent"
          /\ Cardinality(OnDay(row, Initiator[d], Today(caller[d].at))) < DailyLimit
          /\ \A e \in Unasked(row, Initiator[d]) : caller[d].at >= row[e].created + PolicyCooldown
      BY <1>0, <1>1, <1>2 DEF RationFits
    <2>2. Unasked(row', a) = Unasked(row, a) \cup {d} /\ OnDay(row', a, day) = OnDay(row, a, day) \cup {d}
      BY <1>0, <1>2, BornUnasked
    <2>3. Cardinality(OnDay(row', a, day)) <= DailyLimit
      <3>1. d \notin OnDay(row, a, day)
        BY <1>0 DEF OnDay, Unasked
      <3>2. Cardinality(OnDay(row', a, day)) = Cardinality(OnDay(row, a, day)) + 1
        BY <1>1, <2>2, <3>1, OnDayCounted, FS_AddElement
      <3>3. Cardinality(OnDay(row, a, day)) < DailyLimit
        BY <1>0, <1>2, <2>1
      <3>4. Cardinality(OnDay(row, a, day)) \in Nat
        BY <1>1, OnDayCounted
      <3> QED BY <3>2, <3>3, <3>4, BudgetAssumption
    <2>4. ASSUME NEW e \in Unasked(row', a) \ {f}
          PROVE  row'[f].created >= row'[e].created + PolicyCooldown
      <3>1. e \in Unasked(row, a) /\ e # d
        BY <1>2, <2>2, <2>4
      <3>2. row'[e] = row[e]
        BY <1>0, <3>1 DEF Unasked
      <3> QED BY <1>0, <1>2, <2>1, <3>1, <3>2
    <2> QED BY <1>0, <1>2, <2>1, <2>3, <2>4
  <1>3. CASE f # d
    <2>1. row'[f] = row[f]
      BY <1>0, <1>3
    <2>2. /\ Cardinality(OnDay(row, a, day)) <= DailyLimit
          /\ \A e \in Unasked(row, a) \ {f} :
               \/ row[e].created >= row[f].created + PolicyCooldown
               \/ row[f].created >= row[e].created + PolicyCooldown
          /\ \A e \in Dialogues \ {f} :
               Trigger[e] = Trigger[f] /\ Initiator[e] = Initiator[f] => row[e].status = "absent"
      BY <1>1, <2>1 DEF Rationed
    <2>3. CASE Kind[d] = "auto" /\ Initiator[d] = a
      <3>1. /\ \A e \in Dialogues :
                 Initiator[e] = Initiator[d] /\ Trigger[e] = Trigger[d] => row[e].status = "absent"
            /\ Cardinality(OnDay(row, a, Today(caller[d].at))) < DailyLimit
            /\ \A e \in Unasked(row, a) : caller[d].at >= row[e].created + PolicyCooldown
        BY <1>0, <1>1, <2>3 DEF RationFits
      <3>2. Unasked(row', a) = Unasked(row, a) \cup {d}
        BY <2>3, BornUnasked
      <3>3. Cardinality(OnDay(row', a, day)) <= DailyLimit
        <4>1. CASE Today(caller[d].at) = day
          <5>1. OnDay(row', a, day) = OnDay(row, a, day) \cup {d} /\ d \notin OnDay(row, a, day)
            BY <1>0, <2>3, <4>1, BornUnasked DEF OnDay, Unasked
          <5>2. Cardinality(OnDay(row', a, day)) = Cardinality(OnDay(row, a, day)) + 1
            BY <1>1, <5>1, OnDayCounted, FS_AddElement
          <5>3. Cardinality(OnDay(row, a, day)) < DailyLimit
            BY <3>1, <4>1
          <5>4. Cardinality(OnDay(row, a, day)) \in Nat
            BY <1>1, OnDayCounted
          <5> QED BY <5>2, <5>3, <5>4, BudgetAssumption
        <4>2. CASE Today(caller[d].at) # day
          BY <2>2, <4>2, BornUnasked
        <4> QED BY <4>1, <4>2
      <3>4. ASSUME NEW e \in Unasked(row', a) \ {f}
            PROVE  \/ row'[e].created >= row'[f].created + PolicyCooldown
                   \/ row'[f].created >= row'[e].created + PolicyCooldown
        <4>1. CASE e = d
          <5>1. f \in Unasked(row, a)
            BY <2>1 DEF Unasked
          <5> QED BY <1>0, <2>1, <3>1, <4>1, <5>1
        <4>2. CASE e # d
          <5>1. e \in Unasked(row, a) \ {f} /\ row'[e] = row[e]
            BY <1>0, <3>2, <3>4, <4>2 DEF Unasked
          <5> QED BY <2>1, <2>2, <5>1
        <4> QED BY <4>1, <4>2
      <3>5. Trigger[d] # Trigger[f]
        BY <2>1, <2>3, <3>1
      <3> QED BY <1>0, <2>2, <3>3, <3>4, <3>5
    <2>4. CASE ~(Kind[d] = "auto" /\ Initiator[d] = a)
      <3>1. Unasked(row', a) = Unasked(row, a) /\ OnDay(row', a, day) = OnDay(row, a, day)
        BY <2>4, BornUnasked
      <3>2. ASSUME NEW e \in Unasked(row', a) \ {f}
            PROVE  \/ row'[e].created >= row'[f].created + PolicyCooldown
                   \/ row'[f].created >= row'[e].created + PolicyCooldown
        <4>1. e \in Unasked(row, a) \ {f} /\ row'[e] = row[e]
          BY <1>0, <3>1, <3>2 DEF Unasked
        <4> QED BY <2>1, <2>2, <4>1
      <3>3. Initiator[d] = Initiator[f] => Trigger[d] # Trigger[f]
        BY <2>1, <2>4, TurnsApart
      <3> QED BY <1>0, <2>2, <3>1, <3>2, <3>3
    <2> QED BY <2>3, <2>4
  <1> QED BY <1>2, <1>3

\* While a review is under way nobody writes what it would count.
LEMMA RationKeeps ==
  ASSUME RInv, NEW d \in Dialogues, DialogueSteps(d), NEW e \in Dialogues
  PROVE  RationFits(e)'
  <1>0. /\ PeerTypeOK /\ ReviewFits(d) /\ ReviewFits(e) /\ RationFits(e) /\ GateFits
        /\ \A x \in Dialogues \ {d} : caller'[x] = caller[x] /\ row'[x] = row[x]
    BY StepKeeps DEF RInv, IInv, ReviewsFit, Kept, Alone
  <1> SUFFICES ASSUME Kind[e] = "auto", caller'[e].pc \in {"review", "create"}
               PROVE  /\ \A x \in Dialogues :
                           Initiator[x] = Initiator[e] /\ Trigger[x] = Trigger[e]
                             => row'[x].status = "absent"
                      /\ Cardinality(OnDay(row', Initiator[e], Today(caller'[e].at))) < DailyLimit
                      /\ \A x \in Unasked(row', Initiator[e]) :
                           caller'[e].at >= row'[x].created + PolicyCooldown
    BY DEF RationFits
  <1>1. CASE \A x \in Dialogues : Same(x)
    <2>1. CASE caller[e].pc \in {"review", "create"} /\ caller'[e].at = caller[e].at
      <3>1. /\ \A x \in Dialogues :
                 Initiator[x] = Initiator[e] /\ Trigger[x] = Trigger[e] => row[x].status = "absent"
            /\ Cardinality(OnDay(row, Initiator[e], Today(caller[e].at))) < DailyLimit
            /\ \A x \in Unasked(row, Initiator[e]) : caller[e].at >= row[x].created + PolicyCooldown
        BY <1>0, <2>1 DEF RationFits
      <3>2. \A x \in Unasked(row, Initiator[e]) : row'[x].created = row[x].created
        BY <1>1 DEF Unasked, Same
      <3> QED BY <1>1, <2>1, <3>1, <3>2, SameUnasked DEF Same
    <2>2. CASE e = d /\ caller'[d].at = now /\ ~Opened(d) /\ Allows(Initiator[d]) /\ row' = row
      <3>1. \A x \in Dialogues :
              Initiator[x] = Initiator[e] /\ Trigger[x] = Trigger[e] => row[x].status = "absent"
        BY <2>2 DEF Opened
      <3>2. /\ Cardinality(OnDay(row, Initiator[e], Today(now))) < DailyLimit
            /\ \A x \in Unasked(row, Initiator[e]) : now >= row[x].created + PolicyCooldown
        BY <2>2 DEF Allows, Autonomous, OnDay, Unasked
      <3> QED BY <2>2, <3>1, <3>2
    <2> QED BY <1>0, <2>1, <2>2, ReviewMoves DEF Busy
  <1>2. CASE Born(d)
    <2>1. /\ caller[d].pc = "create" /\ To(d, "start") /\ row'[d].created = caller[d].at
      BY <1>2 DEF Born, Create
    <2>2. caller'[d].pc = "start"
      BY <1>0, <2>1, ToDoes DEF CallerPlaces
    <2>3. e # d /\ caller'[e] = caller[e]
      BY <1>0, <2>2
    <2>4. Kind[d] # "auto"
      BY <2>1, <2>3, <1>0 DEF GateFits, Busy
    <2>5. /\ \A x \in Dialogues :
               Initiator[x] = Initiator[e] /\ Trigger[x] = Trigger[e] => row[x].status = "absent"
          /\ Cardinality(OnDay(row, Initiator[e], Today(caller[e].at))) < DailyLimit
          /\ \A x \in Unasked(row, Initiator[e]) : caller[e].at >= row[x].created + PolicyCooldown
      BY <1>0, <2>3 DEF RationFits
    <2>6. Trigger[d] # Trigger[e]
      BY <1>2, <2>3, <2>4, TurnsApart DEF Busy
    <2>7. /\ Unasked(row', Initiator[e]) = Unasked(row, Initiator[e])
          /\ OnDay(row', Initiator[e], Today(caller[e].at))
               = OnDay(row, Initiator[e], Today(caller[e].at))
      BY <1>2, <2>4, BornUnasked
    <2>8. \A x \in Unasked(row, Initiator[e]) : row'[x] = row[x]
      BY <1>0, <2>4 DEF Unasked
    <2> QED BY <1>0, <2>3, <2>5, <2>6, <2>7, <2>8
  <1> QED BY <1>1, <1>2, StepSameOrBorn DEF RInv

\* The rations hold after a dialogue's step.
LEMMA WrittenCounted ==
  ASSUME RInv, NEW d \in Dialogues, DialogueSteps(d)
  PROVE  IsFiniteSet(Written') /\ Rationed(row')
  <1>1. IsFiniteSet(Written) /\ Rationed(row)
    BY DEF RInv, ReviewsFit
  <1>2. CASE \A e \in Dialogues : Same(e)
    BY <1>1, <1>2, SameUnasked, SameRationed
  <1>3. CASE Born(d)
    <2>1. IsFiniteSet(Written \cup {d})
      BY <1>1, FS_AddElement
    <2> QED BY <1>3, <2>1, BornUnasked, BornRationed
  <1> QED BY <1>2, <1>3, StepSameOrBorn DEF RInv

\* What is said of reviews holds after a dialogue's step.
LEMMA ReviewsKeep ==
  ASSUME RInv, NEW d \in Dialogues, DialogueSteps(d)
  PROVE  ReviewsFit'
  BY GateKeeps, TurnKeeps, ReviewKeeps, RationKeeps, WrittenCounted DEF ReviewsFit

\* A step that leaves the rows and the callers alone.
LEMMA QuietReviews ==
  ASSUME RInv, row' = row, caller' = caller, gate' = gate, TurnFits',
         \A r \in Turns : turn[r] = "over" => turn'[r] = "over"
  PROVE  ReviewsFit'
  <1>1. GateFits' /\ IsFiniteSet(Written') /\ Rationed(row')
    BY DEF RInv, ReviewsFit, GateFits, Written
  <1>2. ASSUME NEW d \in Dialogues PROVE ReviewFits(d)' /\ RationFits(d)'
    <2>1. ReviewFits(d) /\ RationFits(d) /\ Trigger[d] \in Turns
      BY DialogueAssumption DEF RInv, ReviewsFit
    <2>2. ReviewFits(d)'
      BY <2>1 DEF ReviewFits
    <2>3. RationFits(d)'
      BY <2>1 DEF RationFits
    <2> QED BY <2>2, <2>3
  <1> QED BY <1>1, <1>2 DEF ReviewsFit

\* It holds after the steps of the owner, the clock and the turns.
LEMMA WorldReviews ==
  ASSUME RInv,
         \/ \E d \in Dialogues : CancelPeerDialogue(d)
         \/ \E r \in Turns : EndTurn(r)
         \/ Tick \/ Shutdown
         \/ UNCHANGED vars
  PROVE  ReviewsFit'
  <1>0. TurnFits /\ RestTyped
    BY AllTyped DEF RInv, IInv, ReviewsFit
  <1>1. row' = row /\ caller' = caller /\ gate' = gate
    BY DEF CancelPeerDialogue, EndTurn, Tick, Shutdown, store, asking, vars
  <1>2. CASE turn' = turn
    <2>1. TurnFits'
      BY <1>0, <1>1, <1>2 DEF TurnFits
    <2> QED BY <1>1, <1>2, <2>1, QuietReviews
  <1>3. CASE \E r \in Turns : EndTurn(r)
    <2> PICK r \in Turns : EndTurn(r)
      BY <1>3
    <2>1. /\ turn' = [turn EXCEPT ![r] = "over"]
          /\ \A d \in Dialogues : Trigger[d] = r =>
               Kind[d] # "manual" /\ (Kind[d] = "tool" => caller[d].pc = "idle")
      BY DEF EndTurn
    <2>2. \A q \in Turns : turn'[q] = IF q = r THEN "over" ELSE turn[q]
      BY <1>0, <2>1 DEF RestTyped
    <2>3. TurnFits'
      BY <1>0, <1>1, <2>1, <2>2 DEF TurnFits
    <2> QED BY <1>1, <2>2, <2>3, QuietReviews
  <1> QED BY <1>2, <1>3 DEF CancelPeerDialogue, Tick, Shutdown, store, vars

\* It holds when the process ends in the middle of a review.
LEMMA StopReviews == RInv /\ Stop => ReviewsFit'
  <1> SUFFICES ASSUME RInv, Stop PROVE ReviewsFit'
    OBVIOUS
  <1>0. /\ ReviewsFit /\ row' = row
        /\ turn' = [r \in Turns |-> IF turn[r] = "open" THEN "lost" ELSE turn[r]]
    BY DEF RInv, Stop
  <1>1. ASSUME NEW d \in Dialogues
        PROVE  /\ caller[d].pc \in {"idle", "spent"} => caller'[d].pc = caller[d].pc
               /\ caller'[d].pc \in {"idle", "spent"}
    <2> DEFINE pc == IF caller[d].pc \in {"idle", "spent"} THEN caller[d].pc ELSE "spent"
    <2>1. caller'[d] = Asked(pc, 0)
      BY DEF Stop
    <2>2. Asked(pc, 0).pc = pc
      BY DEF Asked
    <2> QED BY <2>1, <2>2
  <1>2. \A r \in Turns : turn'[r] = "over" <=> turn[r] = "over"
    BY <1>0
  <1>3. TurnFits'
    BY <1>0, <1>1, <1>2 DEF ReviewsFit, TurnFits
  <1>4. GateFits'
    BY <1>1 DEF GateFits, Busy
  <1>5. IsFiniteSet(Written') /\ Rationed(row')
    BY <1>0 DEF ReviewsFit, Written
  <1>6. ASSUME NEW d \in Dialogues PROVE ReviewFits(d)' /\ RationFits(d)'
    <2>1. ReviewFits(d) /\ Trigger[d] \in Turns
      BY <1>0, DialogueAssumption DEF ReviewsFit
    <2>2. ReviewFits(d)'
      BY <1>0, <1>1, <1>2, <2>1 DEF ReviewFits, Busy
    <2>3. RationFits(d)'
      BY <1>1 DEF RationFits
    <2> QED BY <2>2, <2>3
  <1> QED BY <1>3, <1>4, <1>5, <1>6 DEF ReviewsFit

\* It holds after a restart.
LEMMA RestartReviews == RInv /\ Restart => ReviewsFit'
  <1> SUFFICES ASSUME RInv, Restart PROVE ReviewsFit'
    OBVIOUS
  <1>0. /\ ReviewsFit /\ DownFits /\ turn' = turn /\ caller' = caller /\ gate' = gate
        /\ phase = "down"
    BY DEF RInv, IInv, Restart, asking
  <1>1. \A d \in Dialogues : caller[d].pc \in {"idle", "spent"}
    BY <1>0 DEF DownFits
  <1>2. ASSUME NEW d \in Dialogues PROVE Same(d)
    <2>1. ~Create(d)
      BY <1>1 DEF Create
    <2>2. IInv /\ [Next]_vars
      BY DEF RInv, Next
    <2> QED BY <2>1, <2>2, SameOrBorn DEF Born
  <1>3. TurnFits' /\ GateFits'
    BY <1>0 DEF ReviewsFit, TurnFits, GateFits
  <1>4. IsFiniteSet(Written') /\ Rationed(row')
    BY <1>0, <1>2, SameUnasked, SameRationed DEF ReviewsFit
  <1>5. ASSUME NEW d \in Dialogues PROVE ReviewFits(d)' /\ RationFits(d)'
    <2>1. ReviewFits(d) /\ Same(d)
      BY <1>0, <1>2 DEF ReviewsFit
    <2>2. ReviewFits(d)'
      BY <1>0, <2>1 DEF ReviewFits, Same
    <2>3. RationFits(d)'
      BY <1>0, <1>1 DEF RationFits
    <2> QED BY <2>2, <2>3
  <1> QED BY <1>3, <1>4, <1>5 DEF ReviewsFit

\* It is inductive.
LEMMA ReviewsStep == RInv /\ [Next]_vars => RInv'
  <1> SUFFICES ASSUME RInv, [Next]_vars PROVE RInv'
    OBVIOUS
  <1>1. IInv'
    BY NextSteps DEF RInv, Steps
  <1>2. CASE \E d \in Dialogues : DialogueSteps(d)
    BY <1>1, <1>2, ReviewsKeep DEF RInv
  <1>3. CASE \/ \E d \in Dialogues : CancelPeerDialogue(d)
             \/ \E r \in Turns : EndTurn(r)
             \/ Tick \/ Shutdown
             \/ UNCHANGED vars
    BY <1>1, <1>3, WorldReviews DEF RInv
  <1>4. CASE Stop
    BY <1>1, <1>4, StopReviews DEF RInv
  <1>5. CASE Restart
    BY <1>1, <1>5, RestartReviews DEF RInv
  <1> QED BY <1>2, <1>3, <1>4, <1>5 DEF Next, DialogueSteps

\* It holds at the start.
LEMMA InitReviews == Init => RInv
  <1> SUFFICES ASSUME Init PROVE RInv
    OBVIOUS
  <1>1. IInv
    BY InitFits
  <1>2. /\ \A d \in Dialogues : row[d].status = "absent" /\ caller[d].pc = "idle"
        /\ \A r \in Turns : turn[r] = "open"
    BY DEF Init, Unwritten, Asked
  <1>3. Written = {}
    BY <1>2 DEF Written
  <1>4. TurnFits /\ GateFits /\ IsFiniteSet(Written) /\ Rationed(row)
    BY <1>2, <1>3, FS_EmptySet DEF TurnFits, GateFits, Rationed, Busy
  <1>5. ASSUME NEW d \in Dialogues PROVE ReviewFits(d) /\ RationFits(d)
    BY <1>2 DEF ReviewFits, RationFits, Busy
  <1> QED BY <1>1, <1>4, <1>5 DEF RInv, ReviewsFit

\* Agents open dialogues unasked within the ration of the owner's policy: what
\* the preflight found, long before the dialogue is written, still holds then,
\* because reviews go one at a time and a turn that is over writes nothing.
THEOREM AutonomyRationed == Spec => []AutonomyIsRationed
  <1>1. Init => RInv
    BY InitReviews
  <1>2. RInv /\ [Next]_vars => RInv'
    BY ReviewsStep
  <1>3. RInv => AutonomyIsRationed
    BY RationIs DEF RInv, ReviewsFit
  <1> QED BY <1>1, <1>2, <1>3, PTL DEF Spec
=============================================================================
