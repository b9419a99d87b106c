--------------------------- MODULE SlowModeProofs ---------------------------
(* Proofs about slow mode, for every value of the constants.               *)
EXTENDS SlowModeProperties, FiniteSetTheorems, TLAPS

(* The shape of the records, which is all the proofs need of most fields.  *)
CallFields == {"phase", "on", "tokens", "age", "timer"}
CoordinatorFields ==
  {"window", "daily", "fresh", "active", "cooldown", "failures", "level", "waiters"}
UsageFields == {"requests", "exhausted"}

CallsShaped(calls) ==
  DOMAIN calls = Callers /\ \A p \in Callers : DOMAIN calls[p] = CallFields
CoordsShaped(coords) ==
  /\ DOMAIN coords = Coordinators
  /\ \A c \in Coordinators :
       DOMAIN coords[c] = CoordinatorFields /\ DOMAIN coords[c].daily = UsageFields

Shaped ==
  /\ CallsShaped(call)
  /\ CoordsShaped(coord)
  /\ current \in Coordinators \cup {NoCoordinator}
  /\ DOMAIN provider = {"window", "today", "automatic"}
  /\ DOMAIN ledger = UsageFields
  /\ \A p \in Callers :
       /\ call[p].on \in Coordinators \cup {NoCoordinator}
       /\ call[p].phase # "idle" => call[p].on \in Coordinators

(* Nobody but p moves, on the coordinator it uses; a sleeper may be woken. *)
Moved(p) ==
  /\ CallsShaped(call') /\ CoordsShaped(coord')
  /\ call[p].on \in Coordinators
  /\ call'[p].on = call[p].on
  /\ \A q \in Callers \ {p} :
       /\ call'[q].on = call[q].on
       /\ \/ call'[q].phase = call[q].phase
          \/ call[q].phase = "asleep" /\ call'[q].phase = "ready"
  /\ \A d \in Coordinators \ {call[p].on} : coord'[d] = coord[d]
  /\ current' = current

Flying == {"admitted", "sent", "broken"}

(* The day is what it was, seen afresh or not.                             *)
DayKept(c) ==
  /\ ledger' = ledger
  /\ \/ coord'[c].fresh = coord[c].fresh /\ coord'[c].daily = coord[c].daily
     \/ coord'[c].fresh /\ coord'[c].daily = RolledOver(c).daily

-----------------------------------------------------------------------------
(* Waking changes phases from asleep to ready and nothing else.            *)
LEMMA SignalledKeeps ==
  ASSUME NEW calls, NEW c, CallsShaped(calls)
  PROVE  /\ CallsShaped(Signalled(calls, c))
         /\ \A q \in Callers :
              /\ Signalled(calls, c)[q].on = calls[q].on
              /\ \/ Signalled(calls, c)[q].phase = calls[q].phase
                 \/ /\ calls[q].phase = "asleep"
                    /\ Signalled(calls, c)[q].phase = "ready"
  BY DEF Signalled, CallsShaped, CallFields

(* Noticing a new day wakes people, too, and keeps the coordinator's shape, *)
(* slots and level.                                                        *)
LEMMA RolledOverKeeps ==
  ASSUME Shaped, NEW c \in Coordinators
  PROVE  /\ CallsShaped(RolledOverCalls(c))
         /\ \A q \in Callers :
              /\ RolledOverCalls(c)[q].on = call[q].on
              /\ \/ RolledOverCalls(c)[q].phase = call[q].phase
                 \/ /\ call[q].phase = "asleep"
                    /\ RolledOverCalls(c)[q].phase = "ready"
         /\ DOMAIN RolledOver(c) = CoordinatorFields
         /\ DOMAIN Refreshed(c) = CoordinatorFields
         /\ RolledOver(c).active = coord[c].active
         /\ Refreshed(c).active = coord[c].active
         /\ Refreshed(c).daily = RolledOver(c).daily
         /\ Refreshed(c).fresh /\ RolledOver(c).fresh
         /\ RolledOver(c).daily = IF coord[c].fresh THEN coord[c].daily ELSE ledger
         /\ DOMAIN RolledOver(c).daily = UsageFields
<1>1. /\ CallsShaped(call) /\ DOMAIN coord[c] = CoordinatorFields
      /\ DOMAIN coord[c].daily = UsageFields /\ DOMAIN ledger = UsageFields
  BY DEF Shaped, CoordsShaped
<1>2. /\ CallsShaped(RolledOverCalls(c))
      /\ \A q \in Callers :
           /\ RolledOverCalls(c)[q].on = call[q].on
           /\ \/ RolledOverCalls(c)[q].phase = call[q].phase
              \/ /\ call[q].phase = "asleep"
                 /\ RolledOverCalls(c)[q].phase = "ready"
  BY <1>1, SignalledKeeps DEF RolledOverCalls
<1>3. /\ DOMAIN RolledOver(c) = CoordinatorFields
      /\ RolledOver(c).active = coord[c].active
      /\ RolledOver(c).fresh
      /\ RolledOver(c).daily = IF coord[c].fresh THEN coord[c].daily ELSE ledger
  BY <1>1 DEF RolledOver, CoordinatorFields
<1>4. /\ DOMAIN Refreshed(c) = CoordinatorFields
      /\ Refreshed(c).active = RolledOver(c).active
      /\ Refreshed(c).fresh = RolledOver(c).fresh
      /\ Refreshed(c).daily = RolledOver(c).daily
  BY <1>3 DEF Refreshed, CoordinatorFields
<1> QED BY <1>1, <1>2, <1>3, <1>4

(* The steps of a call outside the provider: nothing is counted, no slot   *)
(* moves.                                                                  *)
QuietStep(p) ==
  \/ EstimateInput(p) \/ Enqueue(p) \/ Yield(p) \/ Hold(p) \/ Refuse(p)
  \/ AdmitFails(p) \/ CancelWaiter(p) \/ RecordSuccess(p)

(* A quiet step keeps the slots, the day and the provider.                 *)
LEMMA QuietSteps ==
  ASSUME Shaped, NEW p \in Callers, QuietStep(p)
  PROVE  /\ Moved(p)
         /\ call[p].phase \notin Flying \cup {"idle"}
         /\ call'[p].phase \notin Flying \cup {"idle"}
         /\ coord'[call[p].on].active = coord[call[p].on].active
         /\ DayKept(call[p].on)
         /\ provider' = provider
<1> DEFINE c == call[p].on
<1>1. call[p].phase \notin Flying \cup {"idle"}
  BY DEF QuietStep, EstimateInput, Enqueue, Yield, Hold, Refuse, AdmitFails,
         Admissible, CancelWaiter, RecordSuccess, Awake, Waiting, Flying
<1>2. c \in Coordinators /\ DOMAIN coord = Coordinators
  BY <1>1, SMTT(40) DEF Shaped, CoordsShaped
<1>0. UNCHANGED <<current, ledger, provider>>
  BY DEF QuietStep, EstimateInput, Enqueue, Yield, Hold, Refuse, AdmitFails,
         Sleep, CancelWaiter, RecordSuccess
<1>3. ASSUME NEW x \in {call, Signalled(call, c), RolledOverCalls(c)}
      PROVE  DOMAIN x[p] = CallFields /\ x[p].on = c /\ DOMAIN x = Callers
  BY <1>2, SignalledKeeps, RolledOverKeeps DEF Shaped, CallsShaped
<1>4. DOMAIN Bound(c) = CallFields /\ Bound(c).on = c /\ Bound(c).phase = "bound"
  BY DEF Bound, Idle, CallFields
<1>5. DOMAIN coord[c] = CoordinatorFields /\ DOMAIN Refreshed(c) = CoordinatorFields
  BY <1>2, RolledOverKeeps DEF Shaped, CoordsShaped
<1> DEFINE Outside(r) == /\ DOMAIN r = CallFields /\ r.on = c
                         /\ r.phase \notin Flying \cup {"idle"}
           AsIt(co) == /\ DOMAIN co = CoordinatorFields
                       /\ co.active = coord[c].active
                       /\ \/ co.fresh = coord[c].fresh /\ co.daily = coord[c].daily
                          \/ co.fresh /\ co.daily = RolledOver(c).daily
<1>6. AsIt(coord[c]) /\ AsIt(Refreshed(c))
  BY <1>2, <1>5, RolledOverKeeps
<1>7. \A co : AsIt(co) => AsIt(Left(co, p))
  BY DEF Left, CoordinatorFields
<1>8. \A co, ws : AsIt(co) => AsIt([co EXCEPT !.waiters = ws])
  BY DEF CoordinatorFields
<1>9. \A co, n, m : AsIt(co) => AsIt([co EXCEPT !.failures = n, !.level = m])
  BY DEF CoordinatorFields
<1> HIDE DEF AsIt
<1> DEFINE Woken == {call, Signalled(call, c), RolledOverCalls(c),
                     Signalled(RolledOverCalls(c), c)}
<1>10. \E calls \in Woken : \E new, co :
         /\ call' = [calls EXCEPT ![p] = new] /\ Outside(new)
         /\ AsIt(co)
         /\ \/ coord' = [coord EXCEPT ![c] = co]
            \/ coord' = coord /\ co = coord[c]
  <2>1. CASE EstimateInput(p)
    <3>1. PICK size \in Sizes :
            call' = [RolledOverCalls(c) EXCEPT
                       ![p].phase = "estimated", ![p].tokens = size]
      BY <2>1 DEF EstimateInput
    <3>2. coord' = [coord EXCEPT ![c] = Refreshed(c)]
      BY <2>1 DEF EstimateInput
    <3> DEFINE new == [RolledOverCalls(c)[p] EXCEPT !.phase = "estimated",
                                                    !.tokens = size]
    <3>3. Outside(new)
      BY <1>3 DEF Flying, CallFields
    <3>4. call' = [RolledOverCalls(c) EXCEPT ![p] = new]
      BY <1>3, <3>1
    <3> QED BY <1>6, <3>2, <3>3, <3>4
  <2>2. CASE Enqueue(p)
    <3>1. CASE call' = [call EXCEPT ![p] = Bound(c)] /\ UNCHANGED coord
      <4>1. Outside(Bound(c))
        BY <1>4 DEF Flying
      <4> QED BY <1>6, <3>1, <4>1
    <3>2. CASE /\ coord' = [coord EXCEPT ![c].waiters = Append(@, p)]
               /\ call' = [Signalled(call, c) EXCEPT ![p].phase = "ready"]
      <4>1. Outside([Signalled(call, c)[p] EXCEPT !.phase = "ready"])
        BY <1>3 DEF Flying, CallFields
      <4>2. AsIt([coord[c] EXCEPT !.waiters = Append(coord[c].waiters, p)])
        BY <1>6, <1>8
      <4> QED BY <3>2, <4>1, <4>2
    <3> QED BY <2>2, <3>1, <3>2 DEF Enqueue
  <2>3. CASE Yield(p) \/ Hold(p)
    BY <1>2, <1>3, <1>6, <2>3 DEF Yield, Hold, Sleep, Flying, CallFields
  <2>4. CASE Refuse(p) \/ AdmitFails(p)
    BY <1>2, <1>4, <1>6, <1>7, <2>4 DEF Refuse, AdmitFails, Leave, Flying
  <2>5. CASE CancelWaiter(p)
    BY <1>2, <1>4, <1>6, <1>7, <2>5 DEF CancelWaiter, Leave, Flying
  <2>6. CASE RecordSuccess(p)
    <3> DEFINE level == IF coord[c].level > 0 THEN coord[c].level - 1 ELSE 0
               co == [coord[c] EXCEPT !.failures = 0, !.level = level]
    <3>1. Outside([Signalled(call, c)[p] EXCEPT !.phase = "bound"])
      BY <1>3 DEF Flying, CallFields
    <3>2. AsIt(co)
      BY <1>6, <1>9
    <3> HIDE DEF level
    <3>3. coord' = [coord EXCEPT ![c] = co]
      BY <1>2, <1>5, <2>6 DEF RecordSuccess, level, CoordinatorFields
    <3> QED BY <2>6, <3>1, <3>2, <3>3 DEF RecordSuccess
  <2> QED BY <2>1, <2>2, <2>3, <2>4, <2>5, <2>6 DEF QuietStep
<1>a. PICK calls \in Woken : \E new, co :
         /\ call' = [calls EXCEPT ![p] = new] /\ Outside(new)
         /\ AsIt(co)
         /\ \/ coord' = [coord EXCEPT ![c] = co]
            \/ coord' = coord /\ co = coord[c]
  BY <1>10
<1>11. PICK new, co :
         /\ call' = [calls EXCEPT ![p] = new] /\ Outside(new)
         /\ AsIt(co)
         /\ \/ coord' = [coord EXCEPT ![c] = co]
            \/ coord' = coord /\ co = coord[c]
  BY <1>a
<1>12. /\ CallsShaped(calls)
       /\ \A q \in Callers :
            /\ calls[q].on = call[q].on
            /\ \/ calls[q].phase = call[q].phase
               \/ call[q].phase = "asleep" /\ calls[q].phase = "ready"
  BY <1>2, SignalledKeeps, RolledOverKeeps DEF Shaped
<1>13. /\ CallsShaped(call') /\ call'[p] = new
       /\ \A q \in Callers \ {p} : call'[q] = calls[q]
  BY <1>11, <1>12 DEF CallsShaped
<1>14. /\ DOMAIN coord' = Coordinators /\ coord'[c] = co
       /\ \A d \in Coordinators \ {c} : coord'[d] = coord[d]
       /\ DOMAIN co = CoordinatorFields /\ DOMAIN co.daily = UsageFields
  BY <1>2, <1>11, RolledOverKeeps DEF AsIt, Shaped, CoordsShaped
<1>15. CoordsShaped(coord')
  BY <1>14 DEF Shaped, CoordsShaped
<1> QED BY <1>1, <1>2, <1>0, <1>11, <1>12, <1>13, <1>14, <1>15, SMTT(40) DEF Moved, DayKept, AsIt

(* A rejection moves no call in or out of the provider; at most it marks   *)
(* the day as exhausted.                                                   *)
DayMarked(c) ==
  /\ ledger' = coord'[c].daily /\ coord'[c].fresh
  /\ ledger'.requests = RolledOver(c).daily.requests

(* A rejection keeps the slots, and the day's count.                       *)
LEMMA RejectedSteps ==
  ASSUME Shaped, NEW p \in Callers, Rejected(p)
  PROVE  /\ Moved(p)
         /\ call[p].phase \notin {"idle", "admitted", "estimated"}
         /\ call'[p].phase \notin {"idle", "admitted"}
         /\ call'[p].phase \in Flying <=> call[p].phase \in Flying
         /\ coord'[call[p].on].active = coord[call[p].on].active
         /\ DayKept(call[p].on) \/ DayMarked(call[p].on)
         /\ DOMAIN ledger' = UsageFields
         /\ provider' = provider
<1> DEFINE c == call[p].on
<1>0. UNCHANGED <<current, provider>>
  BY SMTT(40) DEF Rejected, RejectedShort, RejectedAmbiguous, RejectedDaily, RejectionIgnored
<1>1. call[p].phase \in {"bound", "sent", "failed"}
  BY DEF Rejected, RejectedShort, RejectedAmbiguous, RejectedDaily,
         RejectionIgnored, Rejectable
<1>2. /\ c \in Coordinators /\ DOMAIN coord = Coordinators
      /\ DOMAIN coord[c] = CoordinatorFields /\ DOMAIN coord[c].daily = UsageFields
      /\ DOMAIN ledger = UsageFields
  BY <1>1 DEF Shaped, CoordsShaped
<1> DEFINE AsIt(co) == DOMAIN co = CoordinatorFields /\ co.active = coord[c].active
           Kept(co) == /\ ledger' = ledger
                       /\ \/ co.fresh = coord[c].fresh /\ co.daily = coord[c].daily
                          \/ co.fresh /\ co.daily = RolledOver(c).daily
           Marked(co) == /\ ledger' = co.daily /\ co.fresh
                         /\ ledger'.requests = RolledOver(c).daily.requests
                         /\ DOMAIN ledger' = UsageFields
<1>3. \A n, d :
        LET co == [RolledOver(c) EXCEPT !.failures = n, !.cooldown = d]
        IN  /\ AsIt(co) /\ co.fresh /\ co.daily = RolledOver(c).daily
            /\ \A l : LET lower == [co EXCEPT !.level = l]
                      IN  AsIt(lower) /\ lower.fresh /\ lower.daily = RolledOver(c).daily
  BY <1>2, RolledOverKeeps DEF CoordinatorFields
<1>4. \A h, j : LET co == Cooled(RolledOver(c), h, j)
                IN  /\ AsIt(co) /\ co.fresh /\ co.daily = RolledOver(c).daily
                    /\ \A l : LET lower == [co EXCEPT !.level = l]
                              IN  /\ AsIt(lower) /\ lower.fresh
                                  /\ lower.daily = RolledOver(c).daily
  BY <1>3 DEF Cooled
<1>5. \E calls \in {call, Signalled(call, c)} : \E co :
        /\ call' = [calls EXCEPT ![p].phase = AfterRejection(@)]
        /\ AsIt(co) /\ (Kept(co) \/ Marked(co))
        /\ \/ coord' = [coord EXCEPT ![c] = co]
           \/ coord' = coord /\ co = coord[c]
  <2>1. CASE RejectionIgnored(p)
    BY <1>2, <2>1 DEF RejectionIgnored
  <2>2. CASE \E hint \in RetryHints : RejectedShort(p, hint)
    <3>1. PICK hint \in RetryHints : RejectedShort(p, hint)
      BY <2>2
    <3>2. PICK j : coord' = [coord EXCEPT ![c] = Cooled(RolledOver(c), hint, j)]
      BY <3>1 DEF RejectedShort
    <3> QED BY <1>4, <3>1, <3>2 DEF RejectedShort
  <2>3. CASE \E hint \in RetryHints : RejectedAmbiguous(p, hint)
    <3>1. PICK hint \in RetryHints : RejectedAmbiguous(p, hint)
      BY <2>3
    <3>2. PICK j \in Jitters(hint, coord[c].failures) :
            coord' = [coord EXCEPT
              ![c] = [Cooled(RolledOver(c), hint, j) EXCEPT !.level = Min({@ + 1, 3})]]
      BY <3>1 DEF RejectedAmbiguous
    <3> DEFINE cooled == Cooled(RolledOver(c), hint, j)
               l == Min({cooled.level + 1, 3})
    <3>3. coord' = [coord EXCEPT ![c] = [cooled EXCEPT !.level = l]]
      BY <3>2
    <3>4. \A x : LET lower == [cooled EXCEPT !.level = x]
                IN  AsIt(lower) /\ lower.fresh /\ lower.daily = RolledOver(c).daily
      BY <1>4
    <3> HIDE DEF l, cooled
    <3>5. AsIt([cooled EXCEPT !.level = l]) /\ Kept([cooled EXCEPT !.level = l])
      BY <3>1, <3>4 DEF RejectedAmbiguous
    <3>6. call' = [Signalled(call, c) EXCEPT ![p].phase = AfterRejection(@)]
      BY <3>1 DEF RejectedAmbiguous
    <3> QED BY <3>3, <3>5, <3>6
  <2>4. CASE RejectedDaily(p)
    <3> DEFINE daily == [RolledOver(c).daily EXCEPT !.exhausted = TRUE]
               co == [RolledOver(c) EXCEPT !.daily = daily]
    <3>1. /\ coord' = [coord EXCEPT ![c] = co] /\ ledger' = daily
          /\ call' = [Signalled(call, c) EXCEPT ![p].phase = AfterRejection(@)]
      BY <2>4 DEF RejectedDaily
    <3>2. /\ DOMAIN daily = UsageFields
          /\ daily.requests = RolledOver(c).daily.requests
      BY <1>2, RolledOverKeeps DEF UsageFields
    <3> HIDE DEF daily
    <3>3. AsIt(co) /\ co.daily = daily /\ co.fresh
      BY <1>2, RolledOverKeeps DEF CoordinatorFields
    <3> QED BY <3>1, <3>2, <3>3
  <2> QED BY <2>1, <2>2, <2>3, <2>4 DEF Rejected
<1>a. PICK calls \in {call, Signalled(call, c)} : \E co :
        /\ call' = [calls EXCEPT ![p].phase = AfterRejection(@)]
        /\ AsIt(co) /\ (Kept(co) \/ Marked(co))
        /\ \/ coord' = [coord EXCEPT ![c] = co]
           \/ coord' = coord /\ co = coord[c]
  BY <1>5
<1>6. PICK co :
        /\ call' = [calls EXCEPT ![p].phase = AfterRejection(@)]
        /\ AsIt(co) /\ (Kept(co) \/ Marked(co))
        /\ \/ coord' = [coord EXCEPT ![c] = co]
           \/ coord' = coord /\ co = coord[c]
  BY <1>a
<1>7. /\ CallsShaped(calls) /\ calls[p] = call[p]
      /\ \A q \in Callers :
           /\ calls[q].on = call[q].on
           /\ \/ calls[q].phase = call[q].phase
              \/ call[q].phase = "asleep" /\ calls[q].phase = "ready"
  <2>1. Signalled(call, c)[p] = call[p]
    BY <1>1 DEF Signalled
  <2> QED BY <2>1, SignalledKeeps DEF Shaped
<1>8. /\ CallsShaped(call')
      /\ call'[p].phase = AfterRejection(call[p].phase) /\ call'[p].on = c
      /\ \A q \in Callers \ {p} : call'[q] = calls[q]
  BY <1>6, <1>7 DEF CallsShaped, CallFields
<1>9. AfterRejection(call[p].phase) \in
        (IF call[p].phase = "sent" THEN {"broken"} ELSE {"bound"})
  BY <1>1 DEF AfterRejection
<1>10. /\ DOMAIN coord' = Coordinators /\ coord'[c] = co
       /\ \A d \in Coordinators \ {c} : coord'[d] = coord[d]
       /\ DOMAIN co.daily = UsageFields /\ DOMAIN ledger' = UsageFields
  BY <1>2, <1>6, RolledOverKeeps
<1>11. CoordsShaped(coord')
  BY <1>6, <1>10 DEF Shaped, CoordsShaped
<1> QED
  BY <1>0, <1>1, <1>2, <1>6, <1>7, <1>8, <1>9, <1>10, <1>11, SMTT(40) DEF Moved, DayKept,
     DayMarked, Flying

(* The limits of a day and of concurrency do not depend on the level.      *)
DayLimit == EffectiveLimits(0).RPD

(* The larger of two integers.                                             *)
LEMMA MaxOfTwo ==
  ASSUME NEW a \in Int, NEW b \in Int
  PROVE  Max({a, b}) \in {a, b} /\ Max({a, b}) >= a /\ Max({a, b}) >= b
<1>1. \E x \in {a, b} : \A y \in {a, b} : x >= y
  BY DEF Max
<1> QED BY <1>1 DEF Max

(* The envelope of a day is made of numbers.                               *)
LEMMA LimitsAreNumbers ==
  /\ \A l : /\ EffectiveLimits(l).RPD = DayLimit
            /\ EffectiveLimits(l).MaxConcurrent = Limits.MaxConcurrent
  /\ DayLimit \in Nat /\ Reserve \in Int /\ Limits.MaxConcurrent \in Nat
<1>1. \A l : /\ EffectiveLimits(l).RPD = DayLimit
             /\ EffectiveLimits(l).MaxConcurrent = Limits.MaxConcurrent
  BY DEF EffectiveLimits, DayLimit
<1>2. DayLimit = ApplyPercent(Limits.RPD, SafetyPercent)
  BY DEF EffectiveLimits, DayLimit
<1>3. ApplyPercent(Limits.RPD, SafetyPercent) \in Nat
  <2> DEFINE n == (Limits.RPD \div 100) * SafetyPercent
                  + ((Limits.RPD % 100) * SafetyPercent) \div 100
  <2>1. n \in Int
    <3>1. Limits.RPD \in Nat /\ SafetyPercent \in Nat
      BY LimitsAssumption
    <3>2. Limits.RPD \div 100 \in Int /\ Limits.RPD % 100 \in Int
      BY <3>1
    <3>3. /\ (Limits.RPD \div 100) * SafetyPercent \in Int
          /\ (Limits.RPD % 100) * SafetyPercent \in Int
      BY <3>1, <3>2
    <3> QED BY <3>3
  <2> HIDE DEF n
  <2>2. Max({1, n}) \in Nat
    <3>1. Max({1, n}) \in {1, n} /\ Max({1, n}) >= 1
      BY <2>1, MaxOfTwo
    <3> QED BY <2>1, <3>1
  <2> QED BY <2>2 DEF ApplyPercent, n
<1>4. Reserve \in Int
  <2>1. DayLimit * ReservePercent \in Int
    BY <1>2, <1>3, LimitsAssumption
  <2> QED BY <2>1 DEF Reserve, DayLimit
<1> QED BY <1>1, <1>2, <1>3, <1>4, LimitsAssumption

(* An admission takes a slot and counts the request on disk; the checks it *)
(* passed were made on the day of the ledger.                              *)
LEMMA AdmitSteps ==
  ASSUME Shaped, NEW p \in Callers, Admit(p)
  PROVE  LET c == call[p].on
             co == RolledOver(c)
         IN  /\ Moved(p)
             /\ call[p].phase \in {"ready", "asleep"}
             /\ call'[p].phase = "admitted"
             /\ coord'[c].active = coord[c].active + 1
             /\ ~(coord[c].active >= Limits.MaxConcurrent)
             /\ coord'[c].fresh /\ coord'[c].daily = ledger'
             /\ ledger'.requests = co.daily.requests + 1
             /\ DOMAIN ledger' = UsageFields
             /\ DayLimit > 0 => ~(co.daily.requests >= DayLimit)
             /\ DayLimit > 0 /\ Priority[p] # 0
                  => ~(co.daily.requests >= DayLimit - Reserve)
             /\ provider' = provider
<1> DEFINE c == call[p].on
           daily == [Refreshed(c).daily EXCEPT !.requests = @ + 1]
           entry == [age |-> 0, tokens |-> call[p].tokens, owner |-> p]
           taken == [Bound(c) EXCEPT !.phase = "admitted", !.tokens = call[p].tokens]
           co == [Left(Refreshed(c), p) EXCEPT !.window = Append(@, entry),
                                               !.daily = daily, !.active = @ + 1]
<1>1. call[p].phase \in {"ready", "asleep"}
  BY DEF Admit, Admissible, Awake
<1>2. /\ c \in Coordinators /\ DOMAIN coord = Coordinators
      /\ DOMAIN coord[c] = CoordinatorFields
  BY <1>1 DEF Shaped, CoordsShaped
<1>3. /\ DOMAIN Refreshed(c) = CoordinatorFields
      /\ Refreshed(c).active = coord[c].active
      /\ Refreshed(c).daily = RolledOver(c).daily
      /\ Refreshed(c).fresh
      /\ DOMAIN Refreshed(c).daily = UsageFields
  BY <1>2, RolledOverKeeps
<1>4. /\ ledger' = daily
      /\ coord' = [coord EXCEPT ![c] = co]
      /\ call' = [Signalled(call, c) EXCEPT ![p] = taken]
      /\ UNCHANGED <<current, provider>>
  BY DEF Admit
<1>5. daily.requests = RolledOver(c).daily.requests + 1 /\ DOMAIN daily = UsageFields
  BY <1>3 DEF UsageFields
<1>6. DOMAIN taken = CallFields /\ taken.phase = "admitted" /\ taken.on = c
  BY DEF Bound, Idle, CallFields
<1> HIDE DEF daily, entry, taken
<1>7. /\ DOMAIN Left(Refreshed(c), p) = CoordinatorFields
      /\ Left(Refreshed(c), p).active = coord[c].active
      /\ Left(Refreshed(c), p).fresh
  BY <1>3 DEF Left, CoordinatorFields
<1>8. /\ DOMAIN co = CoordinatorFields /\ co.active = coord[c].active + 1
      /\ co.daily = daily /\ co.fresh
  BY <1>7 DEF CoordinatorFields
<1> HIDE DEF co
<1>9. CoordsShaped(coord') /\ coord'[c] = co
      /\ \A d \in Coordinators \ {c} : coord'[d] = coord[d]
  BY <1>2, <1>4, <1>5, <1>8 DEF Shaped, CoordsShaped
<1>10. Moved(p) /\ call'[p] = taken
  <2>1. /\ CallsShaped(Signalled(call, c))
        /\ \A q \in Callers :
             /\ Signalled(call, c)[q].on = call[q].on
             /\ \/ Signalled(call, c)[q].phase = call[q].phase
                \/ call[q].phase = "asleep" /\ Signalled(call, c)[q].phase = "ready"
    BY SignalledKeeps DEF Shaped
  <2>2. /\ CallsShaped(call') /\ call'[p] = taken
        /\ \A q \in Callers \ {p} : call'[q] = Signalled(call, c)[q]
    BY <1>4, <1>6, <2>1 DEF CallsShaped
  <2> QED BY <1>2, <1>4, <1>6, <1>9, <2>1, <2>2 DEF Moved
<1>11. ~Refused(Refreshed(c), p) /\ BlockedFor(Refreshed(c), p) = 0
  BY DEF Admit, Admissible
<1>12. /\ DayLimit > 0 => ~(RolledOver(c).daily.requests >= DayLimit)
       /\ DayLimit > 0 /\ Priority[p] # 0
            => ~(RolledOver(c).daily.requests >= DayLimit - Reserve)
  BY <1>3, <1>11, LimitsAreNumbers DEF Refused
<1>13. ~(coord[c].active >= Limits.MaxConcurrent)
  <2>1. Refreshed(c).cooldown > 0 => Refreshed(c).cooldown # 0
    OBVIOUS
  <2> QED BY <1>3, <1>11, <2>1, LimitsAreNumbers DEF BlockedFor, Forever
<1> QED BY <1>1, <1>2, <1>4, <1>5, <1>6, <1>8, <1>9, <1>10, <1>12, <1>13

(* Sending counts the request at the provider and nowhere else.            *)
LEMMA SendSteps ==
  ASSUME Shaped, NEW p \in Callers, Send(p)
  PROVE  /\ Moved(p) /\ UNCHANGED <<coord, ledger>>
         /\ call[p].phase = "admitted" /\ call'[p].phase = "sent"
         /\ DOMAIN provider' = DOMAIN provider
         /\ provider'.today = provider.today + 1
         /\ provider'.automatic = provider.automatic + (IF Priority[p] = 0 THEN 0 ELSE 1)
<1> DEFINE sent == [Bound(call[p].on) EXCEPT !.phase = "sent"]
<1>1. /\ call[p].phase = "admitted" /\ call' = [call EXCEPT ![p] = sent]
      /\ UNCHANGED <<coord, current, ledger>>
  BY DEF Send
<1>2. DOMAIN sent = CallFields /\ sent.phase = "sent" /\ sent.on = call[p].on
  BY DEF Bound, Idle, CallFields
<1> HIDE DEF sent
<1>3. /\ CallsShaped(call') /\ call'[p] = sent
      /\ \A q \in Callers \ {p} : call'[q] = call[q]
  BY <1>1, <1>2 DEF Shaped, CallsShaped
<1>4. Moved(p)
  BY <1>1, <1>2, <1>3 DEF Shaped, Moved
<1>5. /\ DOMAIN provider' = DOMAIN provider
      /\ provider'.today = provider.today + 1
      /\ provider'.automatic = provider.automatic + (IF Priority[p] = 0 THEN 0 ELSE 1)
  BY DEF Send, Shaped
<1> QED BY <1>1, <1>2, <1>3, <1>4, <1>5

(* The end of a lease gives its slot back and counts nothing.              *)
LEMMA EndSteps ==
  ASSUME Shaped, NEW p \in Callers, StartFails(p) \/ CloseStream(p)
  PROVE  /\ Moved(p)
         /\ call[p].phase \in Flying
         /\ call'[p].phase \in {"bound", "failed", "completed"}
         /\ coord'[call[p].on].active =
              IF coord[call[p].on].active > 0 THEN coord[call[p].on].active - 1 ELSE 0
         /\ DayKept(call[p].on)
         /\ DOMAIN provider' = DOMAIN provider
         /\ provider'.today = provider.today /\ provider'.automatic = provider.automatic
<1> DEFINE c == call[p].on
<1>1. PICK size : \E phase \in {"bound", "failed", "completed"} :
                      FinishLease(p, size, phase)
  <2>1. StartFails(p) => FinishLease(p, Reserved(p), "failed")
    BY DEF StartFails
  <2>2. CloseStream(p) => \E size : \E phase \in {"bound", "completed"} :
                                      FinishLease(p, size, phase)
    BY DEF CloseStream
  <2> QED BY <2>1, <2>2
<1> PICK phase \in {"bound", "failed", "completed"} : FinishLease(p, size, phase)
  BY <1>1
<1>2. call[p].phase \in Flying
  BY DEF StartFails, CloseStream, Flying
<1>3. /\ c \in Coordinators /\ DOMAIN coord = Coordinators
      /\ DOMAIN coord[c] = CoordinatorFields /\ DOMAIN coord[c].daily = UsageFields
  BY <1>2 DEF Shaped, CoordsShaped, Flying
<1> DEFINE co == Finished(coord[c], p, size)
           new == [Bound(c) EXCEPT !.phase = phase]
<1>4. /\ coord' = [coord EXCEPT ![c] = co]
      /\ call' = [Signalled(call, c) EXCEPT ![p] = new]
      /\ provider' = [provider EXCEPT !.window = Reconciled(@, p, size)]
      /\ UNCHANGED <<current, ledger>>
  BY <1>3 DEF FinishLease
<1>5. /\ DOMAIN co = CoordinatorFields /\ co.daily = coord[c].daily
      /\ co.fresh = coord[c].fresh
      /\ co.active = IF coord[c].active > 0 THEN coord[c].active - 1 ELSE 0
  BY <1>3 DEF Finished, CoordinatorFields
<1>6. DOMAIN new = CallFields /\ new.phase = phase /\ new.on = c
  BY DEF Bound, Idle, CallFields
<1> HIDE DEF co, new
<1>7. /\ CoordsShaped(coord') /\ coord'[c] = co
      /\ \A d \in Coordinators \ {c} : coord'[d] = coord[d]
  BY <1>3, <1>4, <1>5 DEF Shaped, CoordsShaped
<1>8. Moved(p) /\ call'[p] = new
  <2>1. /\ CallsShaped(Signalled(call, c))
        /\ \A q \in Callers :
             /\ Signalled(call, c)[q].on = call[q].on
             /\ \/ Signalled(call, c)[q].phase = call[q].phase
                \/ call[q].phase = "asleep" /\ Signalled(call, c)[q].phase = "ready"
    BY SignalledKeeps DEF Shaped
  <2>2. /\ CallsShaped(call') /\ call'[p] = new
        /\ \A q \in Callers \ {p} : call'[q] = Signalled(call, c)[q]
    BY <1>4, <1>6, <2>1 DEF CallsShaped
  <2> QED BY <1>3, <1>4, <1>6, <1>7, <2>1, <2>2 DEF Moved
<1>9. /\ DOMAIN provider' = DOMAIN provider
      /\ provider'.today = provider.today /\ provider'.automatic = provider.automatic
  BY <1>4 DEF Shaped
<1>10. DayKept(c)
  BY <1>4, <1>5, <1>7 DEF DayKept
<1> QED BY <1>1, <1>2, <1>5, <1>6, <1>7, <1>8, <1>9, <1>10

-----------------------------------------------------------------------------
(* The steps that are not part of a call: a run begins or ends, the        *)
(* provider is saved, the process dies, time passes.                       *)

(* New records have the records' shapes.                                   *)
LEMMA BlankShape ==
  /\ DOMAIN Blank = CoordinatorFields /\ DOMAIN Blank.daily = UsageFields
  /\ Blank.active = 0
  /\ DOMAIN Idle = CallFields /\ Idle.phase = "idle" /\ Idle.on = NoCoordinator
  /\ \A c : DOMAIN Bound(c) = CallFields /\ Bound(c).phase = "bound" /\ Bound(c).on = c
  BY DEF Blank, NoUsage, Idle, Bound, CallFields, CoordinatorFields, UsageFields

(* A new coordinator has no call and the ledger's day.                     *)
LEMMA NewCoordinatorShape ==
  ASSUME Shaped
  PROVE  /\ DOMAIN NewCoordinator = CoordinatorFields
         /\ NewCoordinator.active = 0
         /\ NewCoordinator.daily = ledger /\ NewCoordinator.fresh
  BY DEF NewCoordinator, Blank, CoordinatorFields

(* A run that begins uses the current coordinator, made for it if there is *)
(* none.                                                                   *)
LEMMA TakeSteps ==
  ASSUME Shaped, NEW p \in Callers, TakeBackend(p)
  PROVE  /\ CallsShaped(call') /\ CoordsShaped(coord')
         /\ call[p] = Idle /\ call'[p].phase = "bound"
         /\ call'[p].on = current' /\ current' \in Coordinators
         /\ \A q \in Callers \ {p} : call'[q] = call[q]
         /\ UNCHANGED <<ledger, provider>>
         /\ \/ current' = current /\ UNCHANGED coord
            \/ /\ Unused(current') /\ current = NoCoordinator
               /\ coord'[current'] = NewCoordinator
               /\ \A d \in Coordinators \ {current'} : coord'[d] = coord[d]
<1>1. call[p] = Idle /\ UNCHANGED <<ledger, provider>>
  BY DEF TakeBackend
<1>2. CASE /\ current # NoCoordinator
           /\ call' = [call EXCEPT ![p] = Bound(current)]
           /\ UNCHANGED <<coord, current>>
  BY <1>1, <1>2, BlankShape DEF Shaped, CallsShaped
<1>3. ASSUME NEW c \in Coordinators, Unused(c), current = NoCoordinator,
             coord' = [coord EXCEPT ![c] = NewCoordinator],
             current' = c, call' = [call EXCEPT ![p] = Bound(c)]
      PROVE  /\ CallsShaped(call') /\ CoordsShaped(coord')
             /\ call'[p].phase = "bound" /\ call'[p].on = current'
             /\ \A q \in Callers \ {p} : call'[q] = call[q]
             /\ coord'[c] = NewCoordinator
             /\ \A d \in Coordinators \ {c} : coord'[d] = coord[d]
  <2>1. CallsShaped(call') /\ call'[p] = Bound(c)
        /\ \A q \in Callers \ {p} : call'[q] = call[q]
    BY <1>3, BlankShape DEF Shaped, CallsShaped
  <2>2. CoordsShaped(coord') /\ coord'[c] = NewCoordinator
        /\ \A d \in Coordinators \ {c} : coord'[d] = coord[d]
    BY <1>3, NewCoordinatorShape DEF Shaped, CoordsShaped
  <2> QED BY <1>3, <2>1, <2>2, BlankShape
<1> QED BY <1>1, <1>2, <1>3 DEF TakeBackend

(* A coordinator is collected when nobody uses it.                         *)
LEMMA CollectedKeeps ==
  ASSUME Shaped, NEW entry, coord' = Collected(coord, entry, call')
  PROVE  /\ CoordsShaped(coord')
         /\ \A c \in Coordinators :
              coord'[c] = IF c # entry /\ \A p \in Callers : call'[p].on # c
                          THEN Blank ELSE coord[c]
<1>1. /\ DOMAIN coord' = Coordinators
      /\ \A c \in Coordinators :
           coord'[c] = IF c # entry /\ \A p \in Callers : call'[p].on # c
                       THEN Blank ELSE coord[c]
  BY Zenon DEF Collected
<1>2. \A c \in Coordinators : coord'[c] = Blank \/ coord'[c] = coord[c]
  BY <1>1, Zenon
<1> QED BY <1>1, <1>2, BlankShape DEF Shaped, CoordsShaped

(* The end of a run changes no coordinator but its own.                    *)
LEMMA DropSteps ==
  ASSUME Shaped, NEW p \in Callers, DropBackend(p)
  PROVE  /\ CallsShaped(call') /\ CoordsShaped(coord')
         /\ call[p].phase = "bound" /\ call'[p] = Idle
         /\ \A q \in Callers \ {p} : call'[q] = call[q]
         /\ UNCHANGED <<current, ledger, provider>>
         /\ \A c \in Coordinators :
              coord'[c] = IF c # current /\ \A q \in Callers : call'[q].on # c
                          THEN Blank ELSE coord[c]
<1>1. /\ call[p].phase = "bound" /\ call' = [call EXCEPT ![p] = Idle]
      /\ coord' = Collected(coord, current, call')
      /\ UNCHANGED <<current, ledger, provider>>
  BY DEF DropBackend
<1>2. CallsShaped(call') /\ call'[p] = Idle
      /\ \A q \in Callers \ {p} : call'[q] = call[q]
  BY <1>1, BlankShape DEF Shaped, CallsShaped
<1>3. /\ CoordsShaped(coord')
      /\ \A c \in Coordinators :
           coord'[c] = IF c # current /\ \A q \in Callers : call'[q].on # c
                       THEN Blank ELSE coord[c]
  BY <1>1, CollectedKeeps
<1> QED BY <1>1, <1>2, <1>3

(* Time moves no call; at midnight every count starts anew.                *)
LEMMA TickSteps ==
  ASSUME Shaped, Tick
  PROVE  /\ CallsShaped(call') /\ CoordsShaped(coord')
         /\ \A p \in Callers : /\ call[p].phase # "admitted"
                               /\ call'[p].phase = call[p].phase
                               /\ call'[p].on = call[p].on
         /\ \A c \in Coordinators :
              /\ coord'[c].active = coord[c].active
              /\ coord'[c].daily = coord[c].daily
         /\ current' = current
         /\ DOMAIN provider' = DOMAIN provider
         /\ \/ /\ UNCHANGED ledger
               /\ provider'.today = provider.today
               /\ provider'.automatic = provider.automatic
               /\ \A c \in Coordinators :
                    ~Unused(c) => (coord'[c].fresh <=> coord[c].fresh)
            \/ /\ ledger' = NoUsage
               /\ provider'.today = 0 /\ provider'.automatic = 0
               /\ \A c \in Coordinators : ~Unused(c) => ~coord'[c].fresh
<1>1. CallsShaped(call') /\ \A p \in Callers : /\ call'[p].phase = call[p].phase
                                              /\ call'[p].on = call[p].on
  BY ZenonT(60) DEF Tick, Shaped, CallsShaped, CallFields
<1>2. CoordsShaped(coord') /\ \A c \in Coordinators :
                                /\ coord'[c].active = coord[c].active
                                /\ coord'[c].daily = coord[c].daily
  BY ZenonT(60) DEF Tick, Shaped, CoordsShaped, CoordinatorFields
<1>3. /\ \A p \in Callers : call[p].phase # "admitted"
      /\ current' = current
      /\ DOMAIN provider' = DOMAIN provider
  BY DEF Tick, Shaped
<1>4. CASE hour + 1 = DayLength
  <2>1. ledger' = NoUsage /\ provider'.today = 0 /\ provider'.automatic = 0
    BY <1>4 DEF Tick
  <2>2. \A c \in Coordinators : ~Unused(c) => ~coord'[c].fresh
    BY <1>4, ZenonT(60) DEF Tick, Shaped, CoordsShaped, CoordinatorFields
  <2> QED BY <1>1, <1>2, <1>3, <2>1, <2>2, SMTT(40)
<1>5. CASE hour + 1 # DayLength
  <2>1. /\ UNCHANGED ledger
        /\ provider'.today = provider.today /\ provider'.automatic = provider.automatic
    BY <1>5 DEF Tick
  <2>2. \A c \in Coordinators : ~Unused(c) => (coord'[c].fresh <=> coord[c].fresh)
    BY <1>5 DEF Tick, Shaped, CoordsShaped, CoordinatorFields
  <2> QED BY <1>1, <1>2, <1>3, <2>1, <2>2
<1> QED BY <1>4, <1>5

(* The next-state relation, sorted by what a step does to the counts.      *)
LEMMA NextCases ==
  ASSUME Next
  PROVE  \/ Tick \/ SaveProvider \/ Crash
         \/ \E p \in Callers :
              \/ TakeBackend(p) \/ DropBackend(p) \/ QuietStep(p) \/ Rejected(p)
              \/ Admit(p) \/ Send(p) \/ StartFails(p) \/ CloseStream(p)
  BY Zenon DEF Next, Look, QuietStep

-----------------------------------------------------------------------------
(* What the step of a call does to the sets that are counted.              *)

(* The step of a call keeps the shapes.                                    *)
LEMMA MovedShape ==
  ASSUME Shaped, NEW p \in Callers, Moved(p), call'[p].phase # "idle",
         DOMAIN provider' = DOMAIN provider, DOMAIN ledger' = UsageFields
  PROVE  Shaped'
  BY DEF Shaped, Moved

(* It changes the sets by the call at most.                                *)
LEMMA MovedFlight ==
  ASSUME Shaped, NEW p \in Callers, Moved(p)
  PROVE  /\ \A c \in Coordinators \ {call[p].on} : InFlight(c)' = InFlight(c)
         /\ InFlight(call[p].on)' \ {p} = InFlight(call[p].on) \ {p}
         /\ p \in InFlight(call[p].on)' <=> call'[p].phase \in Flying
         /\ p \in InFlight(call[p].on) <=> call[p].phase \in Flying
         /\ Admitted' \ {p} = Admitted \ {p}
         /\ p \in Admitted' <=> call'[p].phase = "admitted"
         /\ p \in Admitted <=> call[p].phase = "admitted"
<1> DEFINE c == call[p].on
<1>1. \A q \in Callers \ {p} :
        /\ call'[q].on = call[q].on
        /\ call'[q].phase \in Flying <=> call[q].phase \in Flying
        /\ call'[q].phase = "admitted" <=> call[q].phase = "admitted"
  BY DEF Moved, Flying
<1>2. call'[p].on = c
  BY DEF Moved
<1>3. \A d : /\ InFlight(d) = {q \in Callers : call[q].on = d /\ call[q].phase \in Flying}
             /\ InFlight(d)' = {q \in Callers : call'[q].on = d /\ call'[q].phase \in Flying}
  BY DEF InFlight, Flying
<1>4. /\ Admitted = {q \in Callers : call[q].phase = "admitted"}
      /\ Admitted' = {q \in Callers : call'[q].phase = "admitted"}
  BY DEF Admitted
<1> QED BY <1>1, <1>2, <1>3, <1>4

(* Two finite sets that differ in one element.                             *)
LEMMA CardinalityStep ==
  ASSUME NEW S, NEW T, NEW x, IsFiniteSet(S), IsFiniteSet(T), T \ {x} = S \ {x}
  PROVE  /\ Cardinality(S) \in Nat /\ Cardinality(T) \in Nat
         /\ (x \in S <=> x \in T) => Cardinality(T) = Cardinality(S)
         /\ x \notin S /\ x \in T => Cardinality(T) = Cardinality(S) + 1
         /\ x \in S /\ x \notin T => Cardinality(S) = Cardinality(T) + 1
<1>1. Cardinality(S) \in Nat /\ Cardinality(T) \in Nat
  BY FS_CardinalityType
<1>2. (x \in S <=> x \in T) => T = S
  OBVIOUS
<1>3. ASSUME x \notin S, x \in T PROVE Cardinality(T) = Cardinality(S) + 1
  <2>1. T = S \cup {x}
    BY <1>3
  <2> QED BY <1>3, <2>1, FS_AddElement
<1>4. ASSUME x \in S, x \notin T PROVE Cardinality(S) = Cardinality(T) + 1
  <2>1. S = T \cup {x}
    BY <1>4
  <2> QED BY <1>4, <2>1, FS_AddElement
<1> QED BY <1>1, <1>2, <1>3, <1>4

(* The calls that are counted are finitely many.                           *)
LEMMA CountedAreFinite ==
  /\ \A c : IsFiniteSet(InFlight(c)) /\ IsFiniteSet(InFlight(c)')
  /\ IsFiniteSet(Admitted) /\ IsFiniteSet(Admitted')
<1>1. \A S : S \subseteq Callers => IsFiniteSet(S)
  BY FiniteCallers, FS_Subset
<1> QED BY <1>1 DEF InFlight, Admitted

-----------------------------------------------------------------------------
(* Slots.                                                                  *)

SlotInv ==
  /\ Shaped
  /\ \A c \in Coordinators :
       /\ coord[c].active = Cardinality(InFlight(c))
       /\ coord[c].active <= Limits.MaxConcurrent

(* The step of a call keeps the slots if it takes one exactly when the     *)
(* call takes off and returns one exactly when the call ends.              *)
LEMMA MovedSlots ==
  ASSUME SlotInv, NEW p \in Callers, Moved(p), Shaped',
         LET c == call[p].on
             up == call[p].phase \notin Flying /\ call'[p].phase \in Flying
             down == call[p].phase \in Flying /\ call'[p].phase \notin Flying
         IN  /\ up => /\ coord'[c].active = coord[c].active + 1
                      /\ ~(coord[c].active >= Limits.MaxConcurrent)
             /\ down => coord'[c].active =
                          IF coord[c].active > 0 THEN coord[c].active - 1 ELSE 0
             /\ ~up /\ ~down => coord'[c].active = coord[c].active
  PROVE  SlotInv'
<1> DEFINE c == call[p].on
<1>1. c \in Coordinators
  BY DEF Moved
<1>2. \A d \in Coordinators \ {c} :
        /\ coord'[d].active = Cardinality(InFlight(d)')
        /\ coord'[d].active <= Limits.MaxConcurrent
  BY MovedFlight DEF SlotInv, Moved
<1> DEFINE S == InFlight(c)
           T == InFlight(c)'
<1>3. /\ Cardinality(S) \in Nat /\ Cardinality(T) \in Nat
      /\ (p \in S <=> p \in T) => Cardinality(T) = Cardinality(S)
      /\ p \notin S /\ p \in T => Cardinality(T) = Cardinality(S) + 1
      /\ p \in S /\ p \notin T => Cardinality(S) = Cardinality(T) + 1
  <2>1. IsFiniteSet(S) /\ IsFiniteSet(T)
    BY CountedAreFinite
  <2>2. T \ {p} = S \ {p}
    BY MovedFlight DEF SlotInv
  <2> HIDE DEF S, T
  <2> QED BY <2>1, <2>2, CardinalityStep
<1>4. /\ p \in T <=> call'[p].phase \in Flying
      /\ p \in S <=> call[p].phase \in Flying
  BY MovedFlight DEF SlotInv
<1>5. coord[c].active = Cardinality(S) /\ coord[c].active <= Limits.MaxConcurrent
  BY <1>1 DEF SlotInv
<1> HIDE DEF S, T
<1>6. coord'[c].active = Cardinality(T) /\ coord'[c].active <= Limits.MaxConcurrent
  BY <1>3, <1>4, <1>5, LimitsAreNumbers
<1>7. \A d \in Coordinators : /\ coord'[d].active = Cardinality(InFlight(d)')
                              /\ coord'[d].active <= Limits.MaxConcurrent
  <2>1. \A d \in Coordinators : d = c => InFlight(d)' = T
    BY DEF Moved, InFlight, T
  <2> QED BY <1>2, <1>6, <2>1
<1>8. Shaped'
  OBVIOUS
<1> QED BY <1>7, <1>8 DEF SlotInv, InFlight

(* The steps outside a call keep the slots if the same calls are in flight *)
(* and a coordinator that is replaced has none.                            *)
LEMMA OtherSlots ==
  ASSUME SlotInv, Shaped',
         \A q \in Callers : call'[q].phase \in Flying => call'[q].on = call[q].on,
         \A c \in Coordinators :
           \/ coord'[c].active = coord[c].active
              /\ \A q \in Callers : call'[q].phase \in Flying <=> call[q].phase \in Flying
           \/ coord'[c].active = 0
              /\ \A q \in Callers : call'[q].phase \in Flying => call'[q].on # c
  PROVE  SlotInv'
<1> SUFFICES ASSUME NEW c \in Coordinators
             PROVE  /\ coord'[c].active = Cardinality(InFlight(c)')
                    /\ coord'[c].active <= Limits.MaxConcurrent
  BY DEF SlotInv
<1>1. CASE /\ coord'[c].active = coord[c].active
           /\ \A q \in Callers : call'[q].phase \in Flying <=> call[q].phase \in Flying
  <2>1. InFlight(c)' = InFlight(c)
    BY <1>1 DEF InFlight, Flying
  <2> QED BY <1>1, <2>1 DEF SlotInv
<1>2. CASE /\ coord'[c].active = 0
           /\ \A q \in Callers : call'[q].phase \in Flying => call'[q].on # c
  <2>1. InFlight(c)' = {}
    BY <1>2 DEF InFlight, Flying
  <2>2. Cardinality(InFlight(c)') = 0
    BY <2>1, FS_EmptySet
  <2> QED BY <1>2, <2>2, LimitsAreNumbers
<1> QED BY <1>1, <1>2

(* In the initial state no slot is taken.                                  *)
LEMMA SlotInit == Init => SlotInv
<1> SUFFICES ASSUME Init PROVE SlotInv
  OBVIOUS
<1>1. Shaped
  BY BlankShape, CallersAssumption
  DEF Init, Shaped, CallsShaped, CoordsShaped, NoUsage, UsageFields
<1>2. ASSUME NEW c \in Coordinators
      PROVE  coord[c].active = 0 /\ InFlight(c) = {}
  BY BlankShape DEF Init, InFlight
<1>3. ASSUME NEW c \in Coordinators
      PROVE  /\ coord[c].active = Cardinality(InFlight(c))
             /\ coord[c].active <= Limits.MaxConcurrent
  <2>1. Cardinality(InFlight(c)) = 0
    BY <1>2, FS_EmptySet
  <2> QED BY <1>2, <2>1, LimitsAreNumbers
<1> QED BY <1>1, <1>3 DEF SlotInv

(* Every step keeps the records' shapes and the slots.                     *)
LEMMA SlotNext == SlotInv /\ [Next]_vars => SlotInv'
<1> SUFFICES ASSUME SlotInv, [Next]_vars PROVE SlotInv'
  OBVIOUS
<1>0. Shaped /\ DOMAIN ledger = UsageFields
  BY DEF SlotInv, Shaped
<1>1. CASE UNCHANGED vars
  BY <1>1 DEF vars, SlotInv, Shaped, CallsShaped, CoordsShaped, InFlight
<1>2. CASE Tick
  <2>1. Shaped'
    BY <1>0, <1>2, TickSteps DEF Shaped, NoUsage, UsageFields
  <2> QED BY <1>0, <1>2, <2>1, TickSteps, OtherSlots
<1>3. CASE SaveProvider
  <2>1. /\ call' = call /\ UNCHANGED <<ledger, provider>>
        /\ current' = NoCoordinator
        /\ coord' = Collected(coord, NoCoordinator, call')
    BY <1>3 DEF SaveProvider
  <2>2. /\ CoordsShaped(coord')
        /\ \A c \in Coordinators :
             \/ coord'[c] = coord[c]
             \/ coord'[c] = Blank /\ \A p \in Callers : call'[p].on # c
    BY <1>0, <2>1, CollectedKeeps
  <2>3. Shaped'
    BY <1>0, <2>1, <2>2 DEF Shaped
  <2> QED BY <2>1, <2>2, <2>3, BlankShape, OtherSlots
<1>4. CASE Crash
  <2>1. /\ coord' = [c \in Coordinators |-> Blank] /\ current' = NoCoordinator
        /\ call' = [p \in Callers |-> Idle] /\ UNCHANGED ledger
        /\ DOMAIN provider' = DOMAIN provider
    BY <1>4 DEF Crash
  <2>2. Shaped'
    BY <1>0, <2>1, BlankShape DEF Shaped, CallsShaped, CoordsShaped
  <2> QED BY <2>1, <2>2, BlankShape, OtherSlots DEF Flying
<1>5. ASSUME NEW p \in Callers, TakeBackend(p) PROVE SlotInv'
  <2>1. \A q \in Callers : /\ call'[q].phase \in Flying <=> call[q].phase \in Flying
                           /\ call'[q].phase \in Flying => call'[q].on = call[q].on
    BY <1>0, <1>5, TakeSteps, BlankShape DEF Flying
  <2>2. Shaped'
    BY <1>0, <1>5, TakeSteps DEF Shaped
  <2>3. ASSUME NEW c \in Coordinators
        PROVE  \/ coord'[c].active = coord[c].active
               \/ /\ coord'[c].active = 0
                  /\ \A q \in Callers : call'[q].phase \in Flying => call'[q].on # c
    BY <1>0, <1>5, <2>1, TakeSteps, NewCoordinatorShape DEF Unused
  <2> QED BY <2>1, <2>2, <2>3, OtherSlots
<1>6. ASSUME NEW p \in Callers, DropBackend(p) PROVE SlotInv'
  <2>1. \A q \in Callers : /\ call'[q].phase \in Flying <=> call[q].phase \in Flying
                           /\ call'[q].phase \in Flying => call'[q].on = call[q].on
    BY <1>0, <1>6, DropSteps, BlankShape DEF Flying
  <2>2. Shaped'
    BY <1>0, <1>6, DropSteps, BlankShape DEF Shaped
  <2>3. ASSUME NEW c \in Coordinators
        PROVE  \/ coord'[c].active = coord[c].active
               \/ /\ coord'[c].active = 0
                  /\ \A q \in Callers : call'[q].phase \in Flying => call'[q].on # c
    BY <1>0, <1>6, DropSteps, BlankShape
  <2> QED BY <2>1, <2>2, <2>3, OtherSlots
<1>7. ASSUME NEW p \in Callers, QuietStep(p) PROVE SlotInv'
  <2>1. Shaped'
    BY <1>0, <1>7, QuietSteps, MovedShape DEF DayKept
  <2> QED BY <1>0, <1>7, <2>1, QuietSteps, MovedSlots
<1>8. ASSUME NEW p \in Callers, Rejected(p) PROVE SlotInv'
  <2>1. Shaped'
    BY <1>0, <1>8, RejectedSteps, MovedShape
  <2> QED BY <1>0, <1>8, <2>1, RejectedSteps, MovedSlots
<1>9. ASSUME NEW p \in Callers, Admit(p) PROVE SlotInv'
  <2>1. Shaped'
    BY <1>0, <1>9, AdmitSteps, MovedShape
  <2> QED BY <1>0, <1>9, <2>1, AdmitSteps, MovedSlots DEF Flying
<1>10. ASSUME NEW p \in Callers, Send(p) PROVE SlotInv'
  <2>1. Shaped'
    BY <1>0, <1>10, SendSteps, MovedShape
  <2> QED BY <1>0, <1>10, <2>1, SendSteps, MovedSlots DEF Flying
<1>11. ASSUME NEW p \in Callers, StartFails(p) \/ CloseStream(p) PROVE SlotInv'
  <2>1. Shaped'
    BY <1>0, <1>11, EndSteps, MovedShape DEF DayKept
  <2> QED BY <1>0, <1>11, <2>1, EndSteps, MovedSlots DEF Flying
<1> QED
  BY <1>1, <1>2, <1>3, <1>4, <1>5, <1>6, <1>7, <1>8, <1>9, <1>10, <1>11, NextCases

(* A coordinator never has more calls in flight than allowed, and its slot *)
(* counter is their number, through failed starts, cancelled waits,        *)
(* restarts and replaced coordinators (tryAdmitLocked, finish).            *)
THEOREM SlotsAreCallsHolds == Spec => []SlotsAreCalls
<1>1. SlotInv => SlotsAreCalls
  BY DEF SlotInv, SlotsAreCalls
<1> QED BY <1>1, SlotInit, SlotNext, PTL DEF Spec

-----------------------------------------------------------------------------
(* The day, as long as no run outlives a save of its provider.             *)

Automatic == {p \in Callers : call[p].phase = "admitted" /\ Priority[p] # 0}
AutomaticLimit == Max({0, DayLimit - Reserve})

(* Whoever makes a call uses the current coordinator, and that coordinator *)
(* counts what the ledger counts.                                          *)
DayShared ==
  /\ Shaped
  /\ \A p \in Callers : call[p].phase # "idle" => call[p].on = current
  /\ current # NoCoordinator /\ coord[current].fresh =>
       coord[current].daily = ledger

(* What was sent and what is admitted is counted, inside the limits.       *)
DayCounted ==
  /\ ledger.requests \in Nat /\ provider.today \in Nat /\ provider.automatic \in Nat
  /\ provider.today + Cardinality(Admitted) <= ledger.requests
  /\ provider.automatic <= provider.today
  /\ DayLimit > 0 =>
       /\ ledger.requests <= DayLimit
       /\ provider.automatic + Cardinality(Automatic) <= AutomaticLimit

DayInv == DayShared /\ DayCounted

(* What is left of the day to automatic work is a number of requests.       *)
LEMMA DayNumbers ==
  /\ DayLimit \in Nat /\ Reserve \in Int /\ AutomaticLimit \in Nat
  /\ AutomaticLimit >= DayLimit - Reserve
<1>1. DayLimit \in Nat /\ Reserve \in Int
  BY LimitsAreNumbers
<1>2. 0 \in Int /\ DayLimit - Reserve \in Int
  BY <1>1
<1> DEFINE left == DayLimit - Reserve
<1> HIDE DEF left
<1>3. Max({0, left}) \in {0, left} /\ Max({0, left}) >= 0 /\ Max({0, left}) >= left
  BY <1>2, MaxOfTwo DEF left
<1> QED BY <1>1, <1>2, <1>3 DEF AutomaticLimit, left

(* The admitted calls can be counted.                                      *)
LEMMA AdmittedNumbers ==
  Cardinality(Admitted) \in Nat /\ Cardinality(Automatic) \in Nat
<1>1. Automatic \subseteq Admitted
  BY DEF Automatic, Admitted
<1> QED BY <1>1, CountedAreFinite, FS_Subset, FS_CardinalityType

(* The step of a call keeps coordinator and ledger together.               *)
LEMMA MovedShared ==
  ASSUME DayShared, NEW p \in Callers, Moved(p), Shaped', call[p].phase # "idle",
         \/ DayKept(call[p].on)
         \/ ledger' = coord'[call[p].on].daily
  PROVE  DayShared'
<1> DEFINE c == call[p].on
<1>1. c = current /\ current' = current /\ c \in Coordinators
  BY DEF DayShared, Moved
<1>2. \A q \in Callers : call'[q].phase # "idle" => call'[q].on = current'
  BY <1>1 DEF DayShared, Moved
<1>3. coord[c].fresh => coord[c].daily = ledger
  BY <1>1, CallersAssumption DEF DayShared
<1>4. RolledOver(c).daily = ledger
  BY <1>1, <1>3, RolledOverKeeps DEF DayShared
<1>5. coord'[c].fresh => coord'[c].daily = ledger'
  BY <1>3, <1>4 DEF DayKept
<1>6. coord'[current'].fresh => coord'[current'].daily = ledger'
  BY <1>1, <1>5
<1>7. Shaped'
  OBVIOUS
<1> QED BY <1>2, <1>6, <1>7 DEF DayShared

(* The numbers of admitted and of automatic admitted calls after a step.   *)
LEMMA MovedAdmitted ==
  ASSUME Shaped, NEW p \in Callers, Moved(p)
  PROVE  LET a == Cardinality(Admitted)
             b == Cardinality(Automatic)
             before == call[p].phase = "admitted"
             after == call'[p].phase = "admitted"
             auto == Priority[p] # 0
         IN  /\ a \in Nat /\ b \in Nat /\ a' \in Nat /\ b' \in Nat /\ b <= a
             /\ (before <=> after) => a' = a /\ b' = b
             /\ ~before /\ after => a' = a + 1 /\ b' = IF auto THEN b + 1 ELSE b
             /\ before /\ ~after => a = a' + 1 /\ b = IF auto THEN b' + 1 ELSE b'
<1>1. /\ Admitted' \ {p} = Admitted \ {p}
      /\ p \in Admitted' <=> call'[p].phase = "admitted"
      /\ p \in Admitted <=> call[p].phase = "admitted"
  BY MovedFlight
<1>2. /\ Automatic = {q \in Admitted : Priority[q] # 0}
      /\ Automatic' = {q \in Admitted' : Priority[q] # 0}
  BY DEF Automatic, Admitted
<1>3. /\ IsFiniteSet(Admitted) /\ IsFiniteSet(Admitted')
      /\ IsFiniteSet(Automatic) /\ IsFiniteSet(Automatic')
  BY <1>2, CountedAreFinite, FS_Subset
<1>9. Cardinality(Automatic) <= Cardinality(Admitted)
  BY <1>2, <1>3, FS_Subset
<1> DEFINE A == Admitted
           A1 == Admitted'
           B == Automatic
           B1 == Automatic'
<1>4. B1 \ {p} = B \ {p} /\ A1 \ {p} = A \ {p}
  BY <1>1, <1>2
<1>5. /\ p \in B1 <=> p \in A1 /\ Priority[p] # 0
      /\ p \in B <=> p \in A /\ Priority[p] # 0
  BY <1>2
<1> HIDE DEF A, A1, B, B1
<1>6. /\ Cardinality(A) \in Nat /\ Cardinality(A1) \in Nat
      /\ (p \in A <=> p \in A1) => Cardinality(A1) = Cardinality(A)
      /\ p \notin A /\ p \in A1 => Cardinality(A1) = Cardinality(A) + 1
      /\ p \in A /\ p \notin A1 => Cardinality(A) = Cardinality(A1) + 1
  BY <1>3, <1>4, CardinalityStep DEF A, A1
<1>7. /\ Cardinality(B) \in Nat /\ Cardinality(B1) \in Nat
      /\ (p \in B <=> p \in B1) => Cardinality(B1) = Cardinality(B)
      /\ p \notin B /\ p \in B1 => Cardinality(B1) = Cardinality(B) + 1
      /\ p \in B /\ p \notin B1 => Cardinality(B) = Cardinality(B1) + 1
  BY <1>3, <1>4, CardinalityStep DEF B, B1
<1>8. /\ p \in A1 <=> call'[p].phase = "admitted"
      /\ p \in A <=> call[p].phase = "admitted"
  BY <1>1 DEF A, A1
<1> QED BY <1>5, <1>6, <1>7, <1>8, <1>9 DEF A, A1, B, B1

(* A coordinator in use takes the day from the ledger.                     *)
LEMMA SharedDay ==
  ASSUME DayShared, NEW p \in Callers, call[p].phase # "idle"
  PROVE  RolledOver(call[p].on).daily = ledger
<1>1. call[p].on = current /\ call[p].on \in Coordinators
  BY DEF DayShared, Shaped
<1> QED BY <1>1, CallersAssumption, RolledOverKeeps DEF DayShared

(* Counts that do not change, nor what they are compared with, stay right. *)
LEMMA CountsKept ==
  ASSUME DayCounted, ledger'.requests = ledger.requests,
         provider'.today = provider.today, provider'.automatic = provider.automatic,
         Admitted' = Admitted, Automatic' = Automatic
  PROVE  DayCounted'
  BY DEF DayCounted, DayLimit, AutomaticLimit

(* In the initial state nothing has been sent.                             *)
LEMMA DayInit == Init => DayInv
<1> SUFFICES ASSUME Init PROVE DayInv
  OBVIOUS
<1>1. Shaped
  BY SlotInit DEF SlotInv
<1>2. Admitted = {} /\ Automatic = {} /\ \A p \in Callers : call[p].phase = "idle"
  BY BlankShape DEF Init, Admitted, Automatic
<1>3. Cardinality(Admitted) = 0 /\ Cardinality(Automatic) = 0
  BY <1>2, FS_EmptySet
<1>4. ledger.requests = 0 /\ provider.today = 0 /\ provider.automatic = 0
  BY DEF Init, NoUsage
<1>5. DayShared
  BY <1>1, <1>2 DEF Init, DayShared
<1>6. DayCounted
  BY <1>3, <1>4, DayNumbers DEF DayCounted
<1> QED BY <1>5, <1>6 DEF DayInv

(* The step of a call counts on disk what it admits, before it is sent.    *)
LEMMA CallDay ==
  ASSUME DayInv, Shaped', NEW p \in Callers,
         \/ QuietStep(p) \/ Rejected(p) \/ Admit(p) \/ Send(p)
         \/ StartFails(p) \/ CloseStream(p)
  PROVE  DayInv'
<1> DEFINE a == Cardinality(Admitted)
           b == Cardinality(Automatic)
           before == call[p].phase = "admitted"
           after == call'[p].phase = "admitted"
           auto == Priority[p] # 0
<1>0. Shaped /\ DayShared /\ DayCounted
  BY DEF DayInv, DayShared
<1>1. /\ DayLimit \in Nat /\ Reserve \in Int
      /\ AutomaticLimit \in Int /\ AutomaticLimit >= DayLimit - Reserve
  BY DayNumbers
<1>2. /\ ledger.requests \in Nat /\ provider.today \in Nat /\ provider.automatic \in Nat
      /\ provider.today + a <= ledger.requests
      /\ provider.automatic <= provider.today
      /\ DayLimit > 0 => /\ ledger.requests <= DayLimit
                         /\ provider.automatic + b <= AutomaticLimit
  BY <1>0 DEF DayCounted
<1>3. SUFFICES
        /\ Moved(p) /\ call[p].phase # "idle"
        /\ DayKept(call[p].on) \/ ledger' = coord'[call[p].on].daily
        /\ ledger'.requests \in Nat /\ provider'.today \in Nat /\ provider'.automatic \in Nat
        /\ provider'.today + a' <= ledger'.requests
        /\ provider'.automatic <= provider'.today
        /\ DayLimit > 0 => /\ ledger'.requests <= DayLimit
                           /\ provider'.automatic + b' <= AutomaticLimit
  BY <1>0, MovedShared DEF DayInv, DayCounted, DayLimit, AutomaticLimit
<1>4. Moved(p) =>
        /\ a \in Nat /\ b \in Nat /\ a' \in Nat /\ b' \in Nat /\ b <= a
        /\ (before <=> after) => a' = a /\ b' = b
        /\ ~before /\ after => a' = a + 1 /\ b' = IF auto THEN b + 1 ELSE b
        /\ before /\ ~after => a = a' + 1 /\ b = IF auto THEN b' + 1 ELSE b'
  BY <1>0, MovedAdmitted
<1>5. call[p].phase # "idle" => RolledOver(call[p].on).daily = ledger
  BY <1>0, SharedDay
<1> HIDE DEF a, b
<1>6. CASE QuietStep(p)
  <2>1. /\ Moved(p) /\ call[p].phase # "idle" /\ ~before /\ ~after
        /\ DayKept(call[p].on) /\ provider' = provider
    BY <1>0, <1>6, QuietSteps DEF Flying
  <2> QED BY <1>2, <1>4, <2>1 DEF DayKept
<1>7. CASE Rejected(p)
  <2>1. /\ Moved(p) /\ call[p].phase # "idle" /\ ~before /\ ~after
        /\ DayKept(call[p].on) \/ DayMarked(call[p].on)
        /\ provider' = provider
    BY <1>0, <1>7, RejectedSteps
  <2>2. ledger'.requests = ledger.requests
    BY <1>5, <2>1 DEF DayKept, DayMarked
  <2> QED BY <1>2, <1>4, <2>1, <2>2 DEF DayMarked
<1>8. CASE Admit(p)
  <2>1. /\ Moved(p) /\ call[p].phase # "idle" /\ ~before /\ after
        /\ ledger' = coord'[call[p].on].daily
        /\ ledger'.requests = ledger.requests + 1
        /\ DayLimit > 0 => ~(ledger.requests >= DayLimit)
        /\ DayLimit > 0 /\ auto => ~(ledger.requests >= DayLimit - Reserve)
        /\ provider' = provider
    BY <1>0, <1>5, <1>8, AdmitSteps
  <2>2. /\ a' = a + 1 /\ b' = (IF auto THEN b + 1 ELSE b)
        /\ a \in Nat /\ b \in Nat /\ b <= a
    BY <1>4, <2>1
  <2>3. DayLimit > 0 => provider.automatic + b' <= AutomaticLimit
    BY <1>1, <1>2, <2>1, <2>2
  <2> QED BY <1>1, <1>2, <2>1, <2>2, <2>3
<1>9. CASE Send(p)
  <2>1. /\ Moved(p) /\ call[p].phase # "idle" /\ before /\ ~after
        /\ UNCHANGED <<coord, ledger>>
        /\ provider'.today = provider.today + 1
        /\ provider'.automatic = provider.automatic + (IF auto THEN 1 ELSE 0)
    BY <1>0, <1>9, SendSteps
  <2>2. a = a' + 1 /\ b = (IF auto THEN b' + 1 ELSE b') /\ a' \in Nat /\ b' \in Nat
    BY <1>4, <2>1
  <2>3. DayKept(call[p].on)
    BY <2>1 DEF DayKept
  <2> QED BY <1>1, <1>2, <2>1, <2>2, <2>3
<1>10. CASE StartFails(p) \/ CloseStream(p)
  <2>1. /\ Moved(p) /\ call[p].phase # "idle" /\ ~after
        /\ DayKept(call[p].on) /\ ledger' = ledger
        /\ provider'.today = provider.today /\ provider'.automatic = provider.automatic
    BY <1>0, <1>10, EndSteps DEF Flying, DayKept
  <2>2. a' <= a /\ b' <= b /\ a' \in Nat /\ b' \in Nat /\ a \in Nat /\ b \in Nat
    BY <1>4, <2>1
  <2> QED BY <1>1, <1>2, <2>1, <2>2
<1> QED BY <1>6, <1>7, <1>8, <1>9, <1>10

(* Every step keeps the day, if no run outlives a save of its provider.    *)
LEMMA DayNext ==
  ASSUME ~Outlive, SlotInv, DayInv, [Next]_vars
  PROVE  DayInv'
<1>0. Shaped /\ Shaped' /\ DayShared /\ DayCounted
  BY SlotNext DEF SlotInv, DayInv
<1>1. CASE UNCHANGED vars
  <2>1. Admitted' = Admitted /\ Automatic' = Automatic
    BY <1>1 DEF vars, Admitted, Automatic
  <2>2. DayCounted'
    BY <1>0, <1>1, <2>1, CountsKept DEF vars
  <2> QED BY <1>0, <1>1, <2>2 DEF vars, DayInv, DayShared
<1>2. CASE Tick
  <2>1. Admitted = {} /\ Admitted' = {} /\ Automatic = {} /\ Automatic' = {}
    BY <1>0, <1>2, TickSteps DEF Admitted, Automatic
  <2>2. current # NoCoordinator => current \in Coordinators /\ ~Unused(current)
    BY <1>0 DEF Shaped, Unused
  <2>3. DayShared'
    BY <1>0, <1>2, <2>2, TickSteps DEF DayShared
  <2>4. CASE /\ UNCHANGED ledger /\ provider'.today = provider.today
             /\ provider'.automatic = provider.automatic
    BY <1>0, <2>1, <2>3, <2>4, CountsKept DEF DayInv
  <2>5. CASE ledger' = NoUsage /\ provider'.today = 0 /\ provider'.automatic = 0
    <3>1. Cardinality(Admitted') = 0 /\ Cardinality(Automatic') = 0
      BY <2>1, FS_EmptySet
    <3>2. ledger'.requests = 0
      BY <2>5 DEF NoUsage
    <3>3. DayCounted'
      BY <2>5, <3>1, <3>2, DayNumbers DEF DayCounted, DayLimit, AutomaticLimit
    <3> QED BY <2>3, <3>3 DEF DayInv
  <2> QED BY <1>0, <1>2, <2>4, <2>5, TickSteps
<1>3. CASE SaveProvider
  <2>1. /\ call' = call /\ UNCHANGED <<ledger, provider>>
        /\ current' = NoCoordinator
        /\ \A p \in Callers : call[p].phase = "idle"
    BY <1>3 DEF SaveProvider
  <2>2. Admitted' = Admitted /\ Automatic' = Automatic
    BY <2>1 DEF Admitted, Automatic
  <2>3. DayShared'
    BY <1>0, <2>1 DEF DayShared
  <2> QED BY <1>0, <2>1, <2>2, <2>3, CountsKept DEF DayInv
<1>4. CASE Crash
  <2>1. /\ current' = NoCoordinator
        /\ \A p \in Callers : call'[p].phase = "idle"
        /\ ledger' = ledger
        /\ provider'.today = provider.today /\ provider'.automatic = provider.automatic
    BY <1>0, <1>4, BlankShape DEF Crash, Shaped
  <2>2. Admitted' = {} /\ Automatic' = {}
    BY <2>1 DEF Admitted, Automatic
  <2>3. DayShared'
    BY <1>0, <2>1 DEF DayShared
  <2>4. Cardinality(Admitted') = 0 /\ Cardinality(Automatic') = 0
    BY <2>2, FS_EmptySet
  <2>5. DayCounted'
    BY <1>0, <2>1, <2>4, AdmittedNumbers, DayNumbers
    DEF DayCounted, DayLimit, AutomaticLimit
  <2> QED BY <2>3, <2>5 DEF DayInv
<1>5. ASSUME NEW p \in Callers, TakeBackend(p) PROVE DayInv'
  <2>1. /\ call[p].phase = "idle" /\ call'[p].phase = "bound"
        /\ call'[p].on = current' /\ current' \in Coordinators
        /\ \A q \in Callers \ {p} : call'[q] = call[q]
        /\ UNCHANGED <<ledger, provider>>
        /\ \/ current' = current /\ UNCHANGED coord
           \/ current = NoCoordinator /\ coord'[current'] = NewCoordinator
    BY <1>0, <1>5, TakeSteps, BlankShape
  <2>2. \A q \in Callers \ {p} : call[q].phase # "idle" =>
          call[q].on = current /\ current \in Coordinators
    BY <1>0 DEF DayShared, Shaped
  <2>3. \A q \in Callers : call'[q].phase # "idle" => call'[q].on = current'
    BY <2>1, <2>2, CallersAssumption
  <2>4. coord'[current'].fresh => coord'[current'].daily = ledger'
    BY <1>0, <2>1, NewCoordinatorShape, CallersAssumption DEF DayShared
  <2>5. DayShared'
    BY <1>0, <2>3, <2>4 DEF DayShared
  <2>6. Admitted' = Admitted /\ Automatic' = Automatic
    BY <2>1 DEF Admitted, Automatic
  <2> QED BY <1>0, <2>1, <2>5, <2>6, CountsKept DEF DayInv
<1>6. ASSUME NEW p \in Callers, DropBackend(p) PROVE DayInv'
  <2>1. /\ call[p].phase = "bound" /\ call'[p].phase = "idle"
        /\ \A q \in Callers \ {p} : call'[q] = call[q]
        /\ UNCHANGED <<current, ledger, provider>>
        /\ current \in Coordinators => coord'[current] = coord[current]
    BY <1>0, <1>6, DropSteps, BlankShape
  <2>2. DayShared'
    BY <1>0, <2>1 DEF DayShared, Shaped
  <2>3. Admitted' = Admitted /\ Automatic' = Automatic
    BY <2>1 DEF Admitted, Automatic
  <2> QED BY <1>0, <2>1, <2>2, <2>3, CountsKept DEF DayInv
<1>7. ASSUME NEW p \in Callers,
             \/ QuietStep(p) \/ Rejected(p) \/ Admit(p) \/ Send(p)
             \/ StartFails(p) \/ CloseStream(p)
      PROVE  DayInv'
  BY <1>0, <1>7, CallDay
<1> QED BY <1>1, <1>2, <1>3, <1>4, <1>5, <1>6, <1>7, NextCases

(* The invariant of the day holds in every reachable state.                *)
LEMMA DayAlways == ~Outlive => (Spec => []DayInv)
<1> SUFFICES ASSUME ~Outlive PROVE Spec => []DayInv
  OBVIOUS
<1>1. Init => SlotInv /\ DayInv
  BY SlotInit, DayInit
<1>2. SlotInv /\ DayInv /\ [Next]_vars => (SlotInv /\ DayInv)'
  BY SlotNext, DayNext
<1> QED BY <1>1, <1>2, PTL DEF Spec

(* The ledger on disk counts every request sent today before it is sent    *)
(* (saveDailyLocked), as long as no run outlives a save of its provider.   *)
THEOREM LedgerCountsHolds == ~Outlive => (Spec => []LedgerCounts)
<1> SUFFICES ASSUME ~Outlive PROVE Spec => []LedgerCounts
  OBVIOUS
<1>1. DayInv => LedgerCounts
  BY DEF DayInv, DayCounted, LedgerCounts
<1> QED BY <1>1, DayAlways, PTL

(* The provider receives no more requests in a day than allowed, and       *)
(* automatic work leaves the owner's reserve alone (tryAdmitLocked,        *)
(* ensureDayLocked), as long as no run outlives a save of its provider.    *)
THEOREM ProviderDayHolds == ~Outlive => (Spec => []ProviderDay)
<1> SUFFICES ASSUME ~Outlive PROVE Spec => []ProviderDay
  OBVIOUS
<1>1. DayInv => ProviderDay
  <2> SUFFICES ASSUME DayInv, DayLimit > 0
               PROVE  provider.today <= DayLimit /\ provider.automatic <= AutomaticLimit
    BY DEF ProviderDay, DayLimit, AutomaticLimit
  <2> QED BY AdmittedNumbers, DayNumbers DEF DayInv, DayCounted
<1> QED BY <1>1, DayAlways, PTL

-----------------------------------------------------------------------------
(* The queue: waiters of one class stand in the order of their age.        *)

Queued(r) == r.phase \in {"ready", "asleep"}

(* Nobody ages but in the queue.                                           *)
AgeFits(r) == r.age \in Nat /\ (~Queued(r) => r.age = 0)

(* Everybody in the queue of a coordinator waits there, once, and behind   *)
(* nobody of its class who is younger.                                     *)
InLine(w, c, calls) ==
  /\ w \in Seq(Callers)
  /\ \A i \in DOMAIN w : calls[w[i]].on = c /\ Queued(calls[w[i]])
  /\ \A i, j \in DOMAIN w : w[i] = w[j] => i = j
  /\ \A i, j \in DOMAIN w :
       i < j /\ Priority[w[i]] = Priority[w[j]] => calls[w[j]].age <= calls[w[i]].age

LinesFit ==
  /\ \A p \in Callers : AgeFits(call[p])
  /\ \A c \in Coordinators : InLine(coord[c].waiters, c, call)

LineInv == SlotInv /\ LinesFit

Alike(r, s) == s.on = r.on /\ s.age = r.age /\ (Queued(s) <=> Queued(r))

(* A queue stands as long as those in it do.                               *)
LEMMA LineKept ==
  ASSUME NEW w, NEW c, NEW calls, NEW new, InLine(w, c, calls),
         \A i \in DOMAIN w : Alike(calls[w[i]], new[w[i]])
  PROVE  InLine(w, c, new)
  BY DEF InLine, Alike

LEMMA NobodyInLine == \A c, calls : InLine(<<>>, c, calls)
  BY DEF InLine

LEMMA Concatenated ==
  ASSUME NEW a \in Seq(Callers), NEW b \in Seq(Callers)
  PROVE  /\ a \o b \in Seq(Callers) /\ Len(a \o b) = Len(a) + Len(b)
         /\ \A i \in 1..(Len(a) + Len(b)) :
              (a \o b)[i] = IF i <= Len(a) THEN a[i] ELSE b[i - Len(a)]
  OBVIOUS

(* Removing somebody who stands there once closes up the queue.            *)
LEMMA Removed ==
  ASSUME NEW w \in Seq(Callers), NEW p, NEW k \in DOMAIN w, w[k] = p,
         \A i \in DOMAIN w : w[i] = p => i = k
  PROVE  /\ RemoveFirst(w, p) \in Seq(Callers)
         /\ Len(RemoveFirst(w, p)) = Len(w) - 1
         /\ \A i \in 1..(Len(w) - 1) :
              RemoveFirst(w, p)[i] = IF i < k THEN w[i] ELSE w[i + 1]
<1> DEFINE I == {i \in 1..Len(w) : w[i] = p}
<1>1. I = {k} /\ k \in Nat /\ k \in 1..Len(w) /\ Len(w) \in Nat
  OBVIOUS
<1>2. Min(I) = k
  BY <1>1 DEF Min
<1>3. SelectInSeq(w, LAMBDA v : v = p) = k
  BY <1>1, <1>2 DEF SelectInSeq
<1>4. RemoveFirst(w, p) = RemoveAt(w, k)
  BY <1>1, <1>3 DEF RemoveFirst
<1> DEFINE a == SubSeq(w, 1, k - 1)
           b == SubSeq(w, k + 1, Len(w))
<1>5. RemoveAt(w, k) = a \o b
  BY DEF RemoveAt
<1>6. a \in Seq(Callers) /\ Len(a) = k - 1 /\ \A i \in 1..(k - 1) : a[i] = w[i]
  BY <1>1
<1>7. /\ b \in Seq(Callers) /\ Len(b) = Len(w) - k
      /\ \A i \in 1..(Len(w) - k) : b[i] = w[i + k]
  BY <1>1
<1> HIDE DEF a, b
<1>8. a \o b \in Seq(Callers) /\ Len(a \o b) = Len(w) - 1
  <2>1. Len(a \o b) = Len(a) + Len(b)
    BY <1>6, <1>7, Concatenated
  <2>2. a \o b \in Seq(Callers)
    BY <1>6, <1>7, Concatenated
  <2> QED BY <1>1, <1>6, <1>7, <2>1, <2>2
<1>9. ASSUME NEW i \in 1..(Len(w) - 1)
      PROVE  (a \o b)[i] = IF i < k THEN w[i] ELSE w[i + 1]
  <2>0. i \in 1..(Len(a) + Len(b))
    BY <1>1, <1>6, <1>7
  <2>1. (a \o b)[i] = IF i <= Len(a) THEN a[i] ELSE b[i - Len(a)]
    BY <1>6, <1>7, <2>0, Concatenated
  <2>2. CASE i < k
    <3>1. i \in 1..(k - 1) /\ i <= Len(a)
      BY <1>1, <1>6, <2>2
    <3> QED BY <1>6, <2>1, <2>2, <3>1
  <2>3. CASE ~(i < k)
    <3>1. i - Len(a) \in 1..(Len(w) - k) /\ ~(i <= Len(a)) /\ i - Len(a) + k = i + 1
      BY <1>1, <1>6, <2>3
    <3> QED BY <1>7, <2>1, <2>3, <3>1
  <2> QED BY <2>2, <2>3
<1> QED BY <1>4, <1>5, <1>8, <1>9

(* Nobody in a queue is outside of it.                                     *)
LEMMA InLineQueued ==
  ASSUME LinesFit, NEW c \in Coordinators, NEW i \in DOMAIN coord[c].waiters
  PROVE  /\ coord[c].waiters[i] \in Callers
         /\ call[coord[c].waiters[i]].on = c /\ Queued(call[coord[c].waiters[i]])
  BY DEF LinesFit, InLine

(* What a step of one caller does to the queue it uses: it joins at the    *)
(* end, leaves, or does neither.                                           *)
OthersAlike(p) == \A q \in Callers \ {p} : Alike(call[q], call'[q])

StaysInLine(p) ==
  /\ coord'[call[p].on].waiters = coord[call[p].on].waiters
  /\ Alike(call[p], call'[p])

JoinsLine(p) ==
  /\ coord'[call[p].on].waiters = Append(coord[call[p].on].waiters, p)
  /\ ~Queued(call[p]) /\ Queued(call'[p])
  /\ call'[p].on = call[p].on /\ call'[p].age = call[p].age

LeavesLine(p) ==
  /\ coord'[call[p].on].waiters = RemoveFirst(coord[call[p].on].waiters, p)
  /\ ~Queued(call'[p]) /\ call'[p].on = call[p].on /\ call'[p].age = 0

(* The other queues stand.                                                 *)
LEMMA OtherLines ==
  ASSUME LinesFit, NEW p \in Callers, OthersAlike(p), AgeFits(call'[p]),
         \A d \in Coordinators \ {call[p].on} : coord'[d] = coord[d],
         call[p].on \in Coordinators => InLine(coord'[call[p].on].waiters, call[p].on, call')
  PROVE  LinesFit'
<1>1. ASSUME NEW q \in Callers PROVE AgeFits(call'[q])
  BY DEF LinesFit, OthersAlike, Alike, AgeFits
<1>2. ASSUME NEW d \in Coordinators \ {call[p].on} PROVE InLine(coord'[d].waiters, d, call')
  <2> DEFINE w == coord[d].waiters
  <2>1. InLine(w, d, call)
    BY DEF LinesFit
  <2>2. ASSUME NEW i \in DOMAIN w PROVE Alike(call[w[i]], call'[w[i]])
    BY <2>1, InLineQueued DEF OthersAlike
  <2> QED BY <2>1, <2>2, LineKept
<1> QED BY <1>1, <1>2 DEF LinesFit

LEMMA LineStays ==
  ASSUME LinesFit, NEW p \in Callers, OthersAlike(p), call[p].on \in Coordinators,
         \A d \in Coordinators \ {call[p].on} : coord'[d] = coord[d], StaysInLine(p)
  PROVE  LinesFit'
<1> DEFINE c == call[p].on
           w == coord[c].waiters
<1>1. InLine(w, c, call) /\ AgeFits(call[p])
  BY DEF LinesFit
<1>2. ASSUME NEW i \in DOMAIN w PROVE Alike(call[w[i]], call'[w[i]])
  BY InLineQueued DEF OthersAlike, StaysInLine
<1>3. InLine(w, c, call')
  BY <1>1, <1>2, LineKept
<1>4. AgeFits(call'[p]) /\ coord'[c].waiters = w
  BY <1>1 DEF AgeFits, StaysInLine, Alike
<1> QED BY <1>3, <1>4, OtherLines

LEMMA LineJoins ==
  ASSUME LinesFit, NEW p \in Callers, OthersAlike(p), call[p].on \in Coordinators,
         \A d \in Coordinators \ {call[p].on} : coord'[d] = coord[d], JoinsLine(p)
  PROVE  LinesFit'
<1> DEFINE c == call[p].on
           w == coord[c].waiters
           u == Append(w, p)
<1>1. InLine(w, c, call) /\ AgeFits(call[p]) /\ ~Queued(call[p])
  BY DEF LinesFit, JoinsLine
<1>2. \A i \in DOMAIN w : w[i] \in Callers /\ Queued(call[w[i]]) /\ w[i] # p
  BY <1>1, InLineQueued
<1>3. InLine(w, c, call')
  <2>1. ASSUME NEW i \in DOMAIN w PROVE Alike(call[w[i]], call'[w[i]])
    BY <1>2 DEF OthersAlike
  <2> QED BY <1>1, <2>1, LineKept
<1>4. /\ u \in Seq(Callers) /\ Len(u) = Len(w) + 1 /\ u[Len(u)] = p
      /\ \A i \in DOMAIN w : i \in DOMAIN u /\ u[i] = w[i] /\ i < Len(u)
      /\ \A i \in DOMAIN u : i \in DOMAIN w \/ i = Len(u)
  <2>1. w \in Seq(Callers)
    BY <1>1 DEF InLine
  <2> HIDE DEF w
  <2>2. u \in Seq(Callers) /\ Len(u) = Len(w) + 1 /\ Len(w) \in Nat
    BY <2>1
  <2>3. u[Len(w) + 1] = p /\ \A i \in 1..Len(w) : u[i] = w[i]
    BY <2>1
  <2>4. DOMAIN w = 1..Len(w) /\ DOMAIN u = 1..(Len(w) + 1)
    BY <2>1, <2>2
  <2> QED BY <2>2, <2>3, <2>4
<1>5. Queued(call'[p]) /\ call'[p].on = c /\ call'[p].age = 0
  BY <1>1 DEF JoinsLine, AgeFits
<1>6. \A i \in DOMAIN w : call'[w[i]].age \in Nat
  BY <1>2 DEF LinesFit, AgeFits, OthersAlike, Alike
<1> HIDE DEF u
<1>7. InLine(u, c, call')
  <2>1. \A i \in DOMAIN u : call'[u[i]].on = c /\ Queued(call'[u[i]])
    BY <1>3, <1>4, <1>5 DEF InLine
  <2>2. ASSUME NEW i \in DOMAIN u, NEW j \in DOMAIN u, u[i] = u[j] PROVE i = j
    BY <1>2, <1>3, <1>4, <2>2 DEF InLine
  <2>3. ASSUME NEW i \in DOMAIN u, NEW j \in DOMAIN u, i < j, Priority[u[i]] = Priority[u[j]]
        PROVE  call'[u[j]].age <= call'[u[i]].age
    <3>1. i \in DOMAIN w
      BY <1>4, <2>3
    <3>2. CASE j \in DOMAIN w
      BY <1>3, <1>4, <2>3, <3>1, <3>2, SMTT(40) DEF InLine
    <3>3. CASE j = Len(u)
      BY <1>4, <1>5, <1>6, <3>1, <3>3, SMTT(40)
    <3> QED BY <1>4, <3>2, <3>3
  <2> QED BY <1>4, <2>1, <2>2, <2>3 DEF InLine
<1>8. coord'[c].waiters = u /\ AgeFits(call'[p])
  BY <1>5 DEF JoinsLine, AgeFits, u
<1> QED BY <1>7, <1>8, OtherLines

LEMMA LineLeaves ==
  ASSUME LinesFit, NEW p \in Callers, OthersAlike(p), call[p].on \in Coordinators,
         \A d \in Coordinators \ {call[p].on} : coord'[d] = coord[d], LeavesLine(p)
  PROVE  LinesFit'
<1> DEFINE c == call[p].on
           w == coord[c].waiters
           u == RemoveFirst(w, p)
<1>1. InLine(w, c, call) /\ w \in Seq(Callers)
  BY DEF LinesFit, InLine
<1>2. AgeFits(call'[p]) /\ coord'[c].waiters = u
  BY DEF LeavesLine, AgeFits
<1>3. InLine(u, c, call')
  <2>1. CASE \E k \in DOMAIN w : w[k] = p
    <3>1. PICK k \in DOMAIN w : w[k] = p
      BY <2>1
    <3>2. \A i \in DOMAIN w : w[i] = p => i = k
      BY <1>1, <3>1 DEF InLine
    <3>3. /\ u \in Seq(Callers) /\ Len(u) = Len(w) - 1
          /\ \A i \in 1..(Len(w) - 1) : u[i] = IF i < k THEN w[i] ELSE w[i + 1]
      BY <1>1, <3>1, <3>2, Removed
    <3> HIDE DEF u
    <3> DEFINE g(i) == IF i < k THEN i ELSE i + 1
    <3>4. ASSUME NEW i \in DOMAIN u
          PROVE  i \in Nat /\ k \in Nat /\ g(i) \in DOMAIN w /\ u[i] = w[g(i)] /\ g(i) # k
      BY <1>1, <3>1, <3>3, SMTT(40)
    <3>5. ASSUME NEW i \in DOMAIN u PROVE u[i] \in Callers \ {p} /\ Alike(call[u[i]], call'[u[i]])
      BY <1>1, <3>2, <3>4 DEF OthersAlike
    <3>6. InLine(u, c, call)
      <4>1. \A i \in DOMAIN u : call[u[i]].on = c /\ Queued(call[u[i]])
        BY <1>1, <3>4 DEF InLine
      <4>2. ASSUME NEW i \in DOMAIN u, NEW j \in DOMAIN u, u[i] = u[j] PROVE i = j
        <5>1. g(i) = g(j)
          BY <1>1, <3>4, <4>2 DEF InLine
        <5> QED BY <3>1, <3>4, <5>1
      <4>3. ASSUME NEW i \in DOMAIN u, NEW j \in DOMAIN u, i < j, Priority[u[i]] = Priority[u[j]]
            PROVE  call[u[j]].age <= call[u[i]].age
        <5>1. g(i) < g(j)
          BY <3>1, <3>4, <4>3
        <5> HIDE DEF g
        <5> QED BY <1>1, <3>4, <4>3, <5>1, SMTT(40) DEF InLine
      <4> QED BY <3>3, <4>1, <4>2, <4>3 DEF InLine
    <3> QED BY <3>5, <3>6, LineKept
  <2>2. CASE ~\E k \in DOMAIN w : w[k] = p
    <3>1. u = w
      BY <1>1, <2>2 DEF RemoveFirst
    <3> HIDE DEF u
    <3>2. ASSUME NEW i \in DOMAIN w PROVE Alike(call[w[i]], call'[w[i]])
      BY <1>1, <2>2 DEF OthersAlike
    <3> QED BY <1>1, <3>1, <3>2, LineKept
  <2> QED BY <2>1, <2>2
<1> QED BY <1>2, <1>3, OtherLines

(* Waking somebody, or noticing a new day, leaves ages and queues alone.   *)
Woken(c) == {call, Signalled(call, c), RolledOverCalls(c), Signalled(RolledOverCalls(c), c)}

LEMMA WokenAlike ==
  ASSUME Shaped, NEW c \in Coordinators, NEW calls \in Woken(c)
  PROVE  /\ CallsShaped(calls)
         /\ \A q \in Callers : Alike(call[q], calls[q])
         /\ \A q \in Callers : call[q].phase # "asleep" => calls[q] = call[q]
<1> DEFINE Fine(x) == /\ CallsShaped(x)
                      /\ \A q \in Callers : Alike(call[q], x[q])
                      /\ \A q \in Callers : call[q].phase # "asleep" => x[q] = call[q]
<1>1. Fine(call)
  BY DEF Shaped, Alike
<1>2. ASSUME NEW x, Fine(x) PROVE Fine(Signalled(x, c))
  <2>1. ASSUME NEW q \in Callers, DOMAIN x[q] = CallFields, Alike(call[q], x[q])
        PROVE  /\ DOMAIN [x[q] EXCEPT !.phase = "ready", !.timer = Forever] = CallFields
               /\ x[q].phase = "asleep" =>
                    Alike(call[q], [x[q] EXCEPT !.phase = "ready", !.timer = Forever])
    BY <2>1 DEF Alike, Queued, CallFields
  <2>2. ASSUME NEW q \in Callers
        PROVE  /\ DOMAIN Signalled(x, c)[q] = CallFields
               /\ Alike(call[q], Signalled(x, c)[q])
               /\ x[q].phase # "asleep" => Signalled(x, c)[q] = x[q]
    BY <1>2, <2>1 DEF Signalled, CallsShaped
  <2>3. DOMAIN Signalled(x, c) = Callers
    BY DEF Signalled
  <2> QED BY <1>2, <2>2, <2>3 DEF CallsShaped
<1>3. Fine(RolledOverCalls(c))
  BY <1>1, <1>2 DEF RolledOverCalls
<1> HIDE DEF Fine
<1>4. Fine(calls)
  BY <1>1, <1>2, <1>3 DEF Woken
<1> QED BY <1>4 DEF Fine

LEMMA RefreshedLine ==
  ASSUME Shaped, NEW c \in Coordinators
  PROVE  /\ RolledOver(c).waiters = coord[c].waiters
         /\ Refreshed(c).waiters = coord[c].waiters
<1>1. DOMAIN coord[c] = CoordinatorFields
  BY DEF Shaped, CoordsShaped
<1>2. DOMAIN RolledOver(c) = CoordinatorFields /\ RolledOver(c).waiters = coord[c].waiters
  BY <1>1 DEF RolledOver, CoordinatorFields
<1> QED BY <1>2 DEF Refreshed, CoordinatorFields

LEMMA LeftLine ==
  ASSUME NEW co, DOMAIN co = CoordinatorFields, NEW p
  PROVE  /\ Left(co, p).waiters = RemoveFirst(co.waiters, p)
         /\ DOMAIN Left(co, p) = CoordinatorFields
  BY DEF Left, CoordinatorFields

(* One caller moves, the others are woken at most.                         *)
LEMMA CallerMoves ==
  ASSUME Shaped, LinesFit, NEW p \in Callers, NEW c \in Coordinators, c = call[p].on,
         NEW calls \in Woken(c), NEW new, call' = [calls EXCEPT ![p] = new],
         NEW co, coord' = [coord EXCEPT ![c] = co] \/ (coord' = coord /\ co = coord[c]),
         \/ co.waiters = coord[c].waiters /\ Alike(call[p], new)
         \/ /\ co.waiters = Append(coord[c].waiters, p)
            /\ ~Queued(call[p]) /\ Queued(new) /\ new.on = c /\ new.age = call[p].age
         \/ /\ co.waiters = RemoveFirst(coord[c].waiters, p)
            /\ ~Queued(new) /\ new.on = c /\ new.age = 0
  PROVE  LinesFit'
<1>1. /\ DOMAIN calls = Callers
      /\ \A q \in Callers : Alike(call[q], calls[q])
  BY WokenAlike DEF CallsShaped
<1>2. call'[p] = new /\ OthersAlike(p)
  BY <1>1 DEF OthersAlike
<1>3. DOMAIN coord = Coordinators
  BY DEF Shaped, CoordsShaped
<1>4. coord'[c] = co /\ \A d \in Coordinators \ {c} : coord'[d] = coord[d]
  BY <1>3
<1>5. CASE co.waiters = coord[c].waiters /\ Alike(call[p], new)
  <2>1. StaysInLine(p)
    BY <1>2, <1>4, <1>5 DEF StaysInLine
  <2> QED BY <1>2, <1>4, <2>1, LineStays
<1>6. CASE /\ co.waiters = Append(coord[c].waiters, p)
           /\ ~Queued(call[p]) /\ Queued(new) /\ new.on = c /\ new.age = call[p].age
  <2>1. JoinsLine(p)
    BY <1>2, <1>4, <1>6 DEF JoinsLine
  <2> QED BY <1>2, <1>4, <2>1, LineJoins
<1>7. CASE /\ co.waiters = RemoveFirst(coord[c].waiters, p)
           /\ ~Queued(new) /\ new.on = c /\ new.age = 0
  <2>1. LeavesLine(p)
    BY <1>2, <1>4, <1>7 DEF LeavesLine
  <2> QED BY <1>2, <1>4, <2>1, LineLeaves
<1> QED BY <1>5, <1>6, <1>7

(* Who leaves the queue is bound to its coordinator, or admitted by it.    *)
LEMMA LeaveLine ==
  ASSUME Shaped, LinesFit, NEW p \in Callers, NEW c \in Coordinators, c = call[p].on,
         NEW calls \in {call, RolledOverCalls(c)},
         NEW co \in {coord[c], Refreshed(c)}, Leave(c, co, calls, p)
  PROVE  LinesFit'
<1>1. DOMAIN co = CoordinatorFields /\ co.waiters = coord[c].waiters
  BY RefreshedLine, RolledOverKeeps DEF Shaped, CoordsShaped
<1>2. Left(co, p).waiters = RemoveFirst(coord[c].waiters, p)
  BY <1>1, LeftLine
<1>3. ~Queued(Bound(c)) /\ Bound(c).on = c /\ Bound(c).age = 0
  BY DEF Bound, Idle, Queued
<1>4. Signalled(calls, c) \in Woken(c)
  BY DEF Woken
<1>5. /\ coord' = [coord EXCEPT ![c] = Left(co, p)]
      /\ call' = [Signalled(calls, c) EXCEPT ![p] = Bound(c)]
  BY DEF Leave
<1> DEFINE b == Bound(c)
           x == Signalled(calls, c)
           l == Left(co, p)
<1> HIDE DEF b, x, l
<1>6. /\ x \in Woken(c) /\ call' = [x EXCEPT ![p] = b]
      /\ coord' = [coord EXCEPT ![c] = l]
      /\ l.waiters = RemoveFirst(coord[c].waiters, p)
      /\ ~Queued(b) /\ b.on = c /\ b.age = 0
  BY <1>2, <1>3, <1>4, <1>5 DEF b, x, l
<1> QED BY <1>6, CallerMoves

LEMMA AtItsCoordinator ==
  ASSUME Shaped, NEW p \in Callers, call[p].phase # "idle"
  PROVE  /\ call[p].on \in Coordinators
         /\ DOMAIN call[p] = CallFields
         /\ DOMAIN coord[call[p].on] = CoordinatorFields
  BY DEF Shaped, CallsShaped, CoordsShaped

LEMMA QuietKeepsLines ==
  ASSUME Shaped, LinesFit, NEW p \in Callers, QuietStep(p)
  PROVE  LinesFit'
<1> DEFINE c == call[p].on
<1>1. call[p].phase # "idle"
  BY QuietSteps
<1>2. /\ c \in Coordinators /\ DOMAIN call[p] = CallFields
      /\ DOMAIN coord[c] = CoordinatorFields /\ AgeFits(call[p])
  BY <1>1, AtItsCoordinator DEF LinesFit
<1>3. \A calls \in Woken(c) : DOMAIN calls[p] = CallFields /\ Alike(call[p], calls[p])
  BY <1>2, WokenAlike DEF CallsShaped
<1>4. /\ call \in Woken(c) /\ Signalled(call, c) \in Woken(c) /\ RolledOverCalls(c) \in Woken(c)
  BY DEF Woken
<1>5. Refreshed(c).waiters = coord[c].waiters
  BY <1>2, RefreshedLine
<1> HIDE DEF c
<1>6. CASE EstimateInput(p)
  <2> DEFINE calls == RolledOverCalls(c)
             co == Refreshed(c)
  <2>1. PICK size \in Sizes :
          call' = [calls EXCEPT ![p].phase = "estimated", ![p].tokens = size]
    BY <1>6 DEF EstimateInput, c
  <2> DEFINE new == [calls[p] EXCEPT !.phase = "estimated", !.tokens = size]
  <2>2. call' = [calls EXCEPT ![p] = new]
    BY <2>1
  <2>3. coord' = [coord EXCEPT ![c] = co] /\ call[p].phase = "bound"
    BY <1>6 DEF EstimateInput, c
  <2>4. Alike(call[p], new)
    BY <1>3, <1>4, <2>3 DEF Alike, Queued, CallFields
  <2> HIDE DEF new, calls, co
  <2>5. calls \in Woken(c) /\ co.waiters = coord[c].waiters /\ c \in Coordinators /\ c = call[p].on
    BY <1>2, <1>4, <1>5 DEF calls, co, c
  <2> QED BY <2>2, <2>3, <2>4, <2>5, CallerMoves
<1>7. CASE Enqueue(p)
  <2>0. call[p].phase = "estimated" /\ ~Queued(call[p]) /\ call[p].age = 0
    BY <1>2, <1>7 DEF Enqueue, Queued, AgeFits
  <2>1. CASE call' = [call EXCEPT ![p] = Bound(c)] /\ UNCHANGED coord
    <3> DEFINE new == Bound(c)
    <3>1. Alike(call[p], new)
      BY <2>0 DEF Alike, Bound, Idle, Queued, c
    <3> HIDE DEF new
    <3>2. call' = [call EXCEPT ![p] = new] /\ coord' = coord /\ c \in Coordinators /\ c = call[p].on
      BY <1>2, <2>1 DEF new, c
    <3> QED BY <1>4, <3>1, <3>2, CallerMoves
  <2>2. CASE /\ coord' = [coord EXCEPT ![c].waiters = Append(@, p)]
             /\ call' = [Signalled(call, c) EXCEPT ![p].phase = "ready"]
    <3> DEFINE calls == Signalled(call, c)
               new == [calls[p] EXCEPT !.phase = "ready"]
               co == [coord[c] EXCEPT !.waiters = Append(coord[c].waiters, p)]
    <3>1. call' = [calls EXCEPT ![p] = new] /\ coord' = [coord EXCEPT ![c] = co]
      BY <2>2
    <3>2. co.waiters = Append(coord[c].waiters, p)
      BY <1>2 DEF CoordinatorFields, c
    <3>3. new.phase = "ready" /\ new.on = call[p].on /\ new.age = call[p].age
      BY <1>3, <1>4 DEF Alike, CallFields
    <3> HIDE DEF calls, new, co
    <3>4. calls \in Woken(c) /\ Queued(new) /\ new.on = c /\ c \in Coordinators /\ c = call[p].on
      BY <1>2, <1>4, <3>3 DEF calls, c, Queued
    <3> QED BY <2>0, <3>1, <3>2, <3>3, <3>4, CallerMoves
  <2> QED BY <1>7, <2>1, <2>2 DEF Enqueue, c
<1>8. ASSUME NEW timer, Awake(p), Sleep(c, p, timer) PROVE LinesFit'
  <2> DEFINE calls == RolledOverCalls(c)
             new == [calls[p] EXCEPT !.phase = "asleep", !.timer = timer]
             co == Refreshed(c)
  <2>1. call' = [calls EXCEPT ![p] = new] /\ coord' = [coord EXCEPT ![c] = co]
    BY <1>8 DEF Sleep
  <2>2. new.phase = "asleep" /\ new.on = call[p].on /\ new.age = call[p].age
    BY <1>3, <1>4 DEF Alike, CallFields
  <2>3. Queued(call[p])
    BY <1>8 DEF Awake, Queued
  <2> HIDE DEF calls, new, co
  <2>4. /\ calls \in Woken(c) /\ co.waiters = coord[c].waiters /\ c \in Coordinators
        /\ c = call[p].on /\ Alike(call[p], new)
    BY <1>2, <1>4, <1>5, <2>2, <2>3 DEF calls, co, c, Alike, Queued
  <2> QED BY <2>1, <2>4, CallerMoves
<1>9. CASE Yield(p)
  BY <1>8, <1>9 DEF Yield, c
<1>10. CASE Hold(p)
  BY <1>8, <1>10 DEF Hold, c
<1>11. CASE Refuse(p)
  <2>1. Leave(c, Refreshed(c), RolledOverCalls(c), p)
    BY <1>11 DEF Refuse, c
  <2> QED BY <1>2, <2>1, LeaveLine DEF c
<1>12. CASE AdmitFails(p)
  <2>1. Leave(c, Refreshed(c), RolledOverCalls(c), p)
    BY <1>12 DEF AdmitFails, c
  <2> QED BY <1>2, <2>1, LeaveLine DEF c
<1>13. CASE CancelWaiter(p)
  <2>1. Leave(c, coord[c], call, p)
    BY <1>13 DEF CancelWaiter, c
  <2> QED BY <1>2, <2>1, LeaveLine DEF c
<1>14. CASE RecordSuccess(p)
  <2> DEFINE calls == Signalled(call, c)
             new == [calls[p] EXCEPT !.phase = "bound"]
             co == [coord[c] EXCEPT !.failures = 0,
                                    !.level = IF coord[c].level > 0 THEN coord[c].level - 1 ELSE 0]
  <2>1. /\ call[p].phase = "completed" /\ call' = [calls EXCEPT ![p] = new]
    BY <1>14 DEF RecordSuccess, c
  <2>2. coord' = [coord EXCEPT ![c] = co]
    BY <1>14 DEF RecordSuccess, c
  <2>3. new.phase = "bound" /\ new.on = call[p].on /\ new.age = call[p].age
    BY <1>3, <1>4 DEF Alike, CallFields
  <2>4. co.waiters = coord[c].waiters
    BY <1>2 DEF CoordinatorFields, c
  <2> HIDE DEF calls, new, co
  <2>5. calls \in Woken(c) /\ c \in Coordinators /\ c = call[p].on /\ Alike(call[p], new)
    BY <1>2, <1>4, <2>1, <2>3 DEF calls, c, Alike, Queued
  <2> QED BY <2>1, <2>2, <2>4, <2>5, CallerMoves
<1> QED BY <1>6, <1>7, <1>9, <1>10, <1>11, <1>12, <1>13, <1>14 DEF QuietStep

LEMMA RejectedKeepsLines ==
  ASSUME Shaped, LinesFit, NEW p \in Callers, Rejected(p)
  PROVE  LinesFit'
<1> DEFINE c == call[p].on
<1>1. call[p].phase \in {"bound", "sent", "failed"}
  BY DEF Rejected, RejectedShort, RejectedAmbiguous, RejectedDaily, RejectionIgnored, Rejectable
<1>2. /\ c \in Coordinators /\ DOMAIN call[p] = CallFields /\ DOMAIN coord[c] = CoordinatorFields
  BY <1>1, AtItsCoordinator
<1>3. Moved(p) /\ OthersAlike(p) /\ Alike(call[p], call'[p])
  <2>1. \E calls \in {call, Signalled(call, c)} : call' = [calls EXCEPT ![p].phase = AfterRejection(@)]
    BY SMTT(40) DEF Rejected, RejectedShort, RejectedAmbiguous, RejectedDaily, RejectionIgnored
  <2>2. PICK calls \in {call, Signalled(call, c)} : call' = [calls EXCEPT ![p].phase = AfterRejection(@)]
    BY <2>1
  <2>3. /\ calls \in Woken(c) /\ DOMAIN calls = Callers /\ DOMAIN calls[p] = CallFields
        /\ calls[p] = call[p] /\ \A q \in Callers : Alike(call[q], calls[q])
    <3>1. calls \in Woken(c)
      BY DEF Woken
    <3> QED BY <1>1, <1>2, <3>1, WokenAlike DEF CallsShaped
  <2>4. /\ call'[p] = [call[p] EXCEPT !.phase = AfterRejection(call[p].phase)]
        /\ \A q \in Callers \ {p} : call'[q] = calls[q]
    BY <2>2, <2>3
  <2>5. AfterRejection(call[p].phase) \in {"broken", "bound"}
    BY <1>1 DEF AfterRejection
  <2>6. Alike(call[p], call'[p])
    BY <1>1, <1>2, <2>4, <2>5 DEF Alike, Queued, CallFields
  <2> QED BY <2>3, <2>4, <2>6, RejectedSteps, SMTT(40) DEF OthersAlike
<1>4. coord'[c].waiters = coord[c].waiters
  <2>1. DOMAIN RolledOver(c) = CoordinatorFields /\ RolledOver(c).waiters = coord[c].waiters
    BY <1>2, RefreshedLine, RolledOverKeeps
  <2>2. \A h, j : /\ DOMAIN Cooled(RolledOver(c), h, j) = CoordinatorFields
                  /\ Cooled(RolledOver(c), h, j).waiters = coord[c].waiters
    BY <2>1 DEF Cooled, CoordinatorFields
  <2>3. \A co, l, d : DOMAIN co = CoordinatorFields =>
          /\ [co EXCEPT !.level = l].waiters = co.waiters
          /\ [co EXCEPT !.daily = d].waiters = co.waiters
    BY DEF CoordinatorFields
  <2>4. DOMAIN coord = Coordinators
    BY DEF Shaped, CoordsShaped
  <2>5. CASE RejectionIgnored(p)
    BY <2>5 DEF RejectionIgnored
  <2>6. CASE \E hint \in RetryHints : RejectedShort(p, hint)
    <3>1. PICK h, j : coord' = [coord EXCEPT ![c] = Cooled(RolledOver(c), h, j)]
      BY <2>6 DEF RejectedShort
    <3> QED BY <1>2, <2>2, <2>4, <3>1
  <2>7. CASE \E hint \in RetryHints : RejectedAmbiguous(p, hint)
    <3>1. PICK h, j : coord' = [coord EXCEPT
              ![c] = [Cooled(RolledOver(c), h, j) EXCEPT !.level = Min({@ + 1, 3})]]
      BY <2>7 DEF RejectedAmbiguous
    <3> DEFINE cooled == Cooled(RolledOver(c), h, j)
               l == Min({cooled.level + 1, 3})
    <3>2. coord' = [coord EXCEPT ![c] = [cooled EXCEPT !.level = l]]
      BY <3>1
    <3>3. DOMAIN cooled = CoordinatorFields /\ cooled.waiters = coord[c].waiters
      BY <2>2
    <3> HIDE DEF cooled, l
    <3> QED BY <1>2, <2>3, <2>4, <3>2, <3>3
  <2>8. CASE RejectedDaily(p)
    <3>1. PICK d : coord' = [coord EXCEPT ![c] = [RolledOver(c) EXCEPT !.daily = d]]
      BY <2>8 DEF RejectedDaily
    <3> QED BY <1>2, <2>1, <2>3, <2>4, <3>1
  <2> QED BY <2>5, <2>6, <2>7, <2>8 DEF Rejected
<1>5. StaysInLine(p)
  BY <1>3, <1>4 DEF StaysInLine
<1> QED BY <1>2, <1>3, <1>5, LineStays, SMTT(40) DEF Moved

LEMMA AdmitKeepsLines ==
  ASSUME Shaped, LinesFit, NEW p \in Callers, Admit(p)
  PROVE  LinesFit'
<1> DEFINE c == call[p].on
           daily == [Refreshed(c).daily EXCEPT !.requests = @ + 1]
           entry == [age |-> 0, tokens |-> call[p].tokens, owner |-> p]
           calls == Signalled(call, c)
           new == [Bound(c) EXCEPT !.phase = "admitted", !.tokens = call[p].tokens]
           left == Left(Refreshed(c), p)
           co == [left EXCEPT !.window = Append(@, entry), !.daily = daily, !.active = @ + 1]
<1>1. c \in Coordinators
  BY AdmitSteps, AtItsCoordinator
<1>2. coord' = [coord EXCEPT ![c] = co] /\ call' = [calls EXCEPT ![p] = new]
  BY DEF Admit
<1>3. ~Queued(new) /\ new.on = c /\ new.age = 0
  BY DEF Bound, Idle, Queued
<1>4. DOMAIN left = CoordinatorFields /\ left.waiters = RemoveFirst(coord[c].waiters, p)
  BY <1>1, RolledOverKeeps, RefreshedLine, LeftLine
<1> HIDE DEF daily, entry, left
<1>5. co.waiters = RemoveFirst(coord[c].waiters, p)
  BY <1>4 DEF CoordinatorFields
<1>6. calls \in Woken(c)
  BY DEF Woken
<1> HIDE DEF co, calls, new
<1>7. c = call[p].on
  OBVIOUS
<1> HIDE DEF c
<1> QED BY <1>1, <1>2, <1>3, <1>5, <1>6, <1>7, CallerMoves

(* Sending and finishing concern nobody in the queue.                      *)
LEMMA FlightKeepsLines ==
  ASSUME Shaped, LinesFit, NEW p \in Callers, Send(p) \/ StartFails(p) \/ CloseStream(p)
  PROVE  LinesFit'
<1> DEFINE c == call[p].on
<1>1. call[p].phase \in Flying
  BY SendSteps, EndSteps DEF Flying
<1>2. /\ c \in Coordinators /\ c = call[p].on /\ DOMAIN coord[c] = CoordinatorFields
      /\ ~Queued(call[p]) /\ call[p].age = 0
  BY <1>1, AtItsCoordinator DEF Flying, Queued, LinesFit, AgeFits
<1> HIDE DEF c
<1>3. CASE Send(p)
  <2> DEFINE new == [Bound(c) EXCEPT !.phase = "sent"]
  <2>1. call' = [call EXCEPT ![p] = new] /\ coord' = coord
    BY <1>2, <1>3 DEF Send
  <2>2. Alike(call[p], new)
    BY <1>2 DEF Alike, Queued, Bound, Idle
  <2> HIDE DEF new
  <2>3. call \in Woken(c)
    BY DEF Woken
  <2> QED BY <1>2, <2>1, <2>2, <2>3, CallerMoves
<1>4. CASE StartFails(p) \/ CloseStream(p)
  <2>1. \E size : \E phase \in {"bound", "failed", "completed"} : FinishLease(p, size, phase)
    <3>1. StartFails(p) => FinishLease(p, Reserved(p), "failed")
      BY DEF StartFails
    <3>2. CloseStream(p) => \E size : \E phase \in {"bound", "completed"} : FinishLease(p, size, phase)
      BY DEF CloseStream
    <3> QED BY <1>4, <3>1, <3>2
  <2>a. PICK size : \E phase \in {"bound", "failed", "completed"} : FinishLease(p, size, phase)
    BY <2>1
  <2>2. PICK phase \in {"bound", "failed", "completed"} : FinishLease(p, size, phase)
    BY <2>a
  <2> DEFINE new == [Bound(c) EXCEPT !.phase = phase]
             calls == Signalled(call, c)
             co == Finished(coord[c], p, size)
  <2>3. call' = [calls EXCEPT ![p] = new] /\ coord' = [coord EXCEPT ![c] = co]
    BY <1>2, <2>2 DEF FinishLease
  <2>4. Alike(call[p], new)
    BY <1>2 DEF Alike, Queued, Bound, Idle
  <2>5. co.waiters = coord[c].waiters
    BY <1>2 DEF Finished, CoordinatorFields
  <2>6. calls \in Woken(c)
    BY DEF Woken
  <2> HIDE DEF new, calls, co
  <2> QED BY <1>2, <2>3, <2>4, <2>5, <2>6, CallerMoves
<1> QED BY <1>3, <1>4

(* Where nobody is, nobody queues; who is outside may come and go.         *)
LEMMA OutsidersMove ==
  ASSUME LinesFit, NEW p \in Callers, ~Queued(call[p]), AgeFits(call'[p]),
         \A q \in Callers \ {p} : call'[q] = call[q],
         \A c \in Coordinators :
           coord'[c].waiters = coord[c].waiters \/ coord'[c].waiters = <<>>
  PROVE  LinesFit'
<1>1. \A q \in Callers : AgeFits(call'[q])
  BY DEF LinesFit
<1>2. ASSUME NEW c \in Coordinators PROVE InLine(coord'[c].waiters, c, call')
  <2>1. CASE coord'[c].waiters = <<>>
    BY <2>1, NobodyInLine
  <2>2. CASE coord'[c].waiters = coord[c].waiters
    <3> DEFINE w == coord[c].waiters
    <3>1. InLine(w, c, call)
      BY DEF LinesFit
    <3>2. ASSUME NEW i \in DOMAIN w PROVE Alike(call[w[i]], call'[w[i]])
      <4>1. w[i] \in Callers \ {p}
        BY InLineQueued
      <4> QED BY <4>1 DEF Alike
    <3>3. InLine(w, c, call')
      BY <3>1, <3>2, LineKept
    <3> QED BY <2>2, <3>3
  <2> QED BY <2>1, <2>2
<1> QED BY <1>1, <1>2 DEF LinesFit

LEMMA MinOfTwo ==
  ASSUME NEW a \in Nat, NEW b \in Nat
  PROVE  Min({a, b}) = IF a <= b THEN a ELSE b
<1>1. \E x \in {a, b} : \A y \in {a, b} : x =< y
  OBVIOUS
<1>2. Min({a, b}) \in {a, b} /\ \A y \in {a, b} : Min({a, b}) =< y
  BY <1>1 DEF Min
<1> QED BY <1>2

(* Time ages everybody in a queue alike, up to a bound of the class.       *)
LEMMA TickKeepsLines ==
  ASSUME Shaped, LinesFit, Tick
  PROVE  LinesFit'
<1> DEFINE Cap(q) == Priority[q] * AgingInterval
           Older(q) == IF call[q].age + 1 <= Cap(q) THEN call[q].age + 1 ELSE Cap(q)
<1>1. \A q \in Callers : Cap(q) \in Nat /\ call[q].age \in Nat
  BY CallersAssumption, TimesAssumption DEF LinesFit, AgeFits
<1>2. ASSUME NEW q \in Callers
      PROVE  /\ call'[q].on = call[q].on /\ (Queued(call'[q]) <=> Queued(call[q]))
             /\ Queued(call[q]) => call'[q].age = Older(q)
             /\ ~Queued(call[q]) => call'[q].age = call[q].age
  <2> DEFINE a == Min({call[q].age + 1, Cap(q)})
  <2>1. a = Older(q)
    BY <1>1, MinOfTwo
  <2>2. DOMAIN call[q] = CallFields
    BY DEF Shaped, CallsShaped
  <2>3. \A t : LET r == [call[q] EXCEPT !.age = a, !.timer = t]
               IN  r.age = a /\ r.on = call[q].on /\ r.phase = call[q].phase
    BY <2>2 DEF CallFields
  <2>4. \E t : call'[q] = IF Queued(call[q]) THEN [call[q] EXCEPT !.age = a, !.timer = t] ELSE call[q]
    BY DEF Tick, Waiting, Queued
  <2> HIDE DEF a
  <2> QED BY <2>1, <2>3, <2>4 DEF Queued
<1>3. ASSUME NEW c \in Coordinators PROVE coord'[c].waiters = coord[c].waiters
  BY ZenonT(60) DEF Tick, Shaped, CoordsShaped, CoordinatorFields
<1>4. ASSUME NEW q \in Callers PROVE AgeFits(call'[q])
  BY <1>1, <1>2 DEF LinesFit, AgeFits
<1>5. ASSUME NEW c \in Coordinators PROVE InLine(coord'[c].waiters, c, call')
  <2> DEFINE w == coord[c].waiters
  <2>1. InLine(w, c, call)
    BY DEF LinesFit
  <2>2. \A i \in DOMAIN w : w[i] \in Callers /\ Queued(call[w[i]]) /\ call[w[i]].on = c
    BY InLineQueued
  <2>3. \A i \in DOMAIN w : call'[w[i]].on = c /\ Queued(call'[w[i]])
    BY <1>2, <2>2
  <2>4. ASSUME NEW i \in DOMAIN w, NEW j \in DOMAIN w, i < j, Priority[w[i]] = Priority[w[j]]
        PROVE  call'[w[j]].age <= call'[w[i]].age
    <3>1. call[w[j]].age <= call[w[i]].age
      BY <2>1, <2>4 DEF InLine
    <3>2. Cap(w[i]) = Cap(w[j])
      BY <2>4
    <3>3. call'[w[i]].age = Older(w[i]) /\ call'[w[j]].age = Older(w[j])
      BY <1>2, <2>2
    <3>4. /\ call[w[i]].age \in Nat /\ call[w[j]].age \in Nat
          /\ Cap(w[i]) \in Nat /\ Cap(w[j]) \in Nat
      BY <1>1, <2>2
    <3> HIDE DEF Cap
    <3> QED BY <3>1, <3>2, <3>3, <3>4
  <2>5. InLine(w, c, call')
    BY <2>1, <2>3, <2>4 DEF InLine
  <2> QED BY <1>3, <2>5
<1> QED BY <1>4, <1>5 DEF LinesFit

LEMMA LineStarts == Init => LineInv
<1> SUFFICES ASSUME Init PROVE LineInv
  OBVIOUS
<1>1. \A p \in Callers : call[p] = Idle
  BY DEF Init
<1>2. AgeFits(Idle)
  BY DEF AgeFits, Idle
<1>3. \A c \in Coordinators : coord[c].waiters = <<>>
  BY DEF Init, Blank
<1>4. LinesFit
  BY <1>1, <1>2, <1>3, NobodyInLine DEF LinesFit
<1> QED BY <1>4, SlotInit DEF LineInv

LEMMA LineStep == LineInv /\ [Next]_vars => LineInv'
<1> SUFFICES ASSUME LineInv, [Next]_vars PROVE LineInv'
  OBVIOUS
<1>0. SlotInv /\ Shaped /\ LinesFit /\ SlotInv'
  BY SlotNext DEF LineInv, SlotInv
<1>1. Blank.waiters = <<>> /\ AgeFits(Idle) /\ ~Queued(Idle)
  BY DEF Blank, AgeFits, Idle, Queued
<1>2. CASE UNCHANGED vars
  BY <1>0, <1>2 DEF vars, LinesFit, LineInv
<1>3. CASE Tick
  BY <1>0, <1>3, TickKeepsLines DEF LineInv
<1>4. CASE SaveProvider
  <2>1. call' = call /\ coord' = Collected(coord, NoCoordinator, call')
    BY <1>4 DEF SaveProvider
  <2>2. \A c \in Coordinators : coord'[c] = coord[c] \/ coord'[c] = Blank
    BY <1>0, <2>1, CollectedKeeps
  <2>3. ASSUME NEW c \in Coordinators PROVE InLine(coord'[c].waiters, c, call')
    BY <1>0, <1>1, <2>1, <2>2, NobodyInLine DEF LinesFit
  <2> QED BY <1>0, <2>1, <2>3 DEF LinesFit, LineInv
<1>5. CASE Crash
  <2>1. /\ \A c \in Coordinators : coord'[c] = Blank
        /\ \A p \in Callers : call'[p] = Idle
    BY <1>5 DEF Crash
  <2> QED BY <1>0, <1>1, <2>1, NobodyInLine DEF LinesFit, LineInv
<1>6. ASSUME NEW p \in Callers, TakeBackend(p) PROVE LineInv'
  <2>1. /\ call[p] = Idle /\ \A q \in Callers \ {p} : call'[q] = call[q]
        /\ \A c \in Coordinators : coord'[c] = coord[c] \/ coord'[c] = NewCoordinator
    BY <1>0, <1>6, TakeSteps
  <2>2. \E c : call' = [call EXCEPT ![p] = Bound(c)]
    BY <1>6 DEF TakeBackend
  <2>3. \A c : AgeFits(Bound(c))
    BY DEF AgeFits, Bound, Idle, Queued
  <2>4. AgeFits(call'[p])
    BY <1>0, <2>2, <2>3 DEF Shaped, CallsShaped
  <2>5. NewCoordinator.waiters = <<>>
    BY DEF NewCoordinator, Blank
  <2> QED BY <1>0, <1>1, <2>1, <2>4, <2>5, OutsidersMove DEF LineInv
<1>7. ASSUME NEW p \in Callers, DropBackend(p) PROVE LineInv'
  <2>1. /\ call[p].phase = "bound" /\ call'[p] = Idle
        /\ \A q \in Callers \ {p} : call'[q] = call[q]
        /\ \A c \in Coordinators : coord'[c] = coord[c] \/ coord'[c] = Blank
    BY <1>0, <1>7, DropSteps
  <2> QED BY <1>0, <1>1, <2>1, OutsidersMove DEF LineInv, Queued
<1>8. ASSUME NEW p \in Callers, QuietStep(p) PROVE LineInv'
  BY <1>0, <1>8, QuietKeepsLines DEF LineInv
<1>9. ASSUME NEW p \in Callers, Rejected(p) PROVE LineInv'
  BY <1>0, <1>9, RejectedKeepsLines DEF LineInv
<1>10. ASSUME NEW p \in Callers, Admit(p) PROVE LineInv'
  BY <1>0, <1>10, AdmitKeepsLines DEF LineInv
<1>11. ASSUME NEW p \in Callers, Send(p) \/ StartFails(p) \/ CloseStream(p) PROVE LineInv'
  BY <1>0, <1>11, FlightKeepsLines DEF LineInv
<1> QED
  BY <1>2, <1>3, <1>4, <1>5, <1>6, <1>7, <1>8, <1>9, <1>10, <1>11, NextCases

(* Who has waited longer has been promoted as often.                       *)
LEMMA PromotionsGrow ==
  ASSUME NEW a \in Nat, NEW b \in Nat, a <= b
  PROVE  a \div AgingInterval \in Nat /\ a \div AgingInterval <= b \div AgingInterval
<1> DEFINE n == AgingInterval
           x == a \div n
           y == b \div n
<1>0. n \in Nat \ {0}
  BY TimesAssumption
<1>1. /\ x \in Nat /\ y \in Nat
      /\ n * x <= a /\ b < n * (y + 1)
  BY <1>0
<1> HIDE DEF x, y, n
<1>2. ASSUME x > y PROVE FALSE
  <2>1. y + 1 <= x
    BY <1>1, <1>2
  <2>2. n * (y + 1) <= n * x
    BY <1>0, <1>1, <2>1
  <2>3. n * (y + 1) \in Int /\ n * x \in Int
    BY <1>0, <1>1
  <2> QED BY <1>1, <2>2, <2>3
<1>3. x <= y
  BY <1>1, <1>2
<1> QED BY <1>1, <1>3 DEF x, y, n

LEMMA Served ==
  ASSUME LinesFit, NEW p \in Callers, NEW c \in Coordinators, Selected(c, p),
         NEW q \in ToSet(coord[c].waiters), Priority[q] = Priority[p]
  PROVE  Position(c, p) <= Position(c, q)
<1> DEFINE w == coord[c].waiters
<1>1. InLine(w, c, call) /\ p \in ToSet(w)
  BY DEF LinesFit, Selected
<1>2. PICK i \in DOMAIN w : w[i] = p
  BY <1>1 DEF ToSet
<1>3. PICK j \in DOMAIN w : w[j] = q
  BY DEF ToSet
<1>4. Position(c, p) = i /\ Position(c, q) = j
  BY <1>1, <1>2, <1>3 DEF InLine, Position
<1>5. i \in Nat /\ j \in Nat /\ q \in Callers
  BY <1>1, <1>2, <1>3 DEF InLine
<1>6. ASSUME j < i PROVE FALSE
  <2>1. call[p].age <= call[q].age
    BY <1>1, <1>2, <1>3, <1>6 DEF InLine
  <2>2. call[p].age \in Nat /\ call[q].age \in Nat
    BY <1>5 DEF LinesFit, AgeFits
  <2>3. Promotions(p) \in Nat /\ Promotions(q) \in Nat /\ Promotions(p) <= Promotions(q)
    BY <2>1, <2>2, PromotionsGrow DEF Promotions
  <2>4. Priority[p] \in Nat /\ Priority[q] = Priority[p]
    BY CallersAssumption
  <2>5. /\ EffectivePriority(p) \in Nat /\ EffectivePriority(q) \in Nat
        /\ EffectivePriority(q) <= EffectivePriority(p)
    BY <2>3, <2>4 DEF EffectivePriority
  <2>6. \/ EffectivePriority(p) < EffectivePriority(q)
        \/ EffectivePriority(p) = EffectivePriority(q) /\ Position(c, p) <= Position(c, q)
    BY DEF Selected
  <2> QED BY <1>4, <1>5, <1>6, <2>5, <2>6
<1> QED BY <1>4, <1>5, <1>6

(* Nobody is admitted past an earlier waiter of the same priority, however *)
(* waiters are cancelled, refused, promoted or woken in between            *)
(* (selectedWaiterLocked, removeWaiterLocked).                             *)
THEOREM ServedInOrder == Spec => [][FirstInFirstOut]_vars
<1>1. LineInv /\ [Next]_vars => [FirstInFirstOut]_vars
  <2> SUFFICES ASSUME LineInv PROVE FirstInFirstOut
    OBVIOUS
  <2>1. ASSUME NEW p \in Callers, Admit(p), NEW q \in ToSet(coord[call[p].on].waiters),
               Priority[q] = Priority[p]
        PROVE  Position(call[p].on, p) <= Position(call[p].on, q)
    <3>1. Selected(call[p].on, p)
      BY <2>1 DEF Admit, Admissible
    <3>2. call[p].on \in Coordinators
      BY <2>1, AdmitSteps, AtItsCoordinator DEF LineInv, SlotInv
    <3> QED BY <2>1, <3>1, <3>2, Served DEF LineInv
  <2> QED BY <2>1 DEF FirstInFirstOut
<1> QED BY <1>1, LineStarts, LineStep, PTL DEF Spec
=============================================================================
