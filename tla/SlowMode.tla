------------------------------ MODULE SlowMode ------------------------------
(***************************************************************************)
(* Provider slow mode: the quota coordinator of internal/slowmode, the     *)
(* backend wrapper that admits every model call through it, and the        *)
(* bridge's table of coordinators with their quota ledger                  *)
(* (internal/desktop/google_slowmode.go, google_quota_ledger.go).          *)
(*                                                                         *)
(* One provider and model are modelled.  Callers are agent runs: a run     *)
(* takes its backend, and with it a coordinator, once and then makes any   *)
(* number of calls through it.  Each action is one critical section of a   *)
(* coordinator's mutex or one wake-up of a waiter.                         *)
(*                                                                         *)
(* An instant is kept as its distance from now (an age, or the time left)  *)
(* and capped where the code stops telling larger distances apart.  So     *)
(* time never ends and the model is still finite.                          *)
(***************************************************************************)
EXTENDS Integers, Sequences, SequencesExt, FiniteSetsExt

CONSTANTS
  Callers,        \* agent runs that use the provider
  Coordinators,   \* coordinator objects that may exist at the same time
  NoCaller, NoCoordinator,
  Priority,       \* [Callers -> 0..3], 0 is the owner's foreground work
  Sizes,          \* input tokens a request may be estimated at, or report
  Limits,         \* configured [RPM, TPM, RPD, MaxConcurrent]; 0 disables
  SafetyPercent, ReservePercent, AgingInterval, BaseBackoff, MaxBackoff,
  RetryHints,     \* Retry-After values the provider sends, 0 for none
  Feedbacks,      \* kinds of rejection the provider sends
  Window,         \* rollingWindow, in ticks
  DayLength,      \* ticks between two Pacific midnights
  LedgerFaults,   \* whether writing the ledger may fail
  Outlive         \* whether a run may outlive a save of its provider

ASSUME CallersAssumption ==
  /\ NoCaller \notin Callers
  /\ NoCoordinator \notin Coordinators
  /\ Priority \in [Callers -> 0..3]
  /\ Sizes \subseteq Nat
ASSUME FiniteCallers == IsFiniteSet(Callers)
ASSUME LimitsAssumption ==
  /\ Limits \in [RPM : Nat, TPM : Nat, RPD : Nat, MaxConcurrent : Nat \ {0}]
  /\ SafetyPercent \in 1..100
  /\ ReservePercent \in 0..100
  /\ ReservePercent > 0 => Limits.RPD > 0
ASSUME TimesAssumption ==
  /\ AgingInterval \in Nat \ {0}
  /\ BaseBackoff \in Nat \ {0}
  /\ MaxBackoff \in Nat /\ MaxBackoff >= BaseBackoff
  /\ RetryHints \subseteq Nat
  /\ Window \in Nat \ {0}
  /\ DayLength \in Nat \ {0}
ASSUME ScenarioAssumption ==
  /\ Feedbacks \subseteq {"short", "daily", "ambiguous"}
  /\ LedgerFaults \in BOOLEAN
  /\ Outlive \in BOOLEAN

VARIABLES
  hour,      \* ticks since the last Pacific midnight
  coord,     \* the coordinators' fields
  current,   \* Bridge.googleSlowModes: the coordinator new runs get
  ledger,    \* the quota file's bucket of today
  mtime,     \* age of the quota file's last write, at most Window
  call,      \* what each run is doing
  provider   \* what the provider received: its own minute and day

vars == <<hour, coord, current, ledger, mtime, call, provider>>

Forever == 0 - 1      \* a wait without a timer

Usage == [requests : Nat, exhausted : BOOLEAN]
Reservation == [age : 0..Window, tokens : Nat, owner : Callers \cup {NoCaller}]

Coordinator ==
  [window : Seq(Reservation), daily : Usage, fresh : BOOLEAN, active : Nat,
   cooldown : Nat, failures : Nat, level : 0..3, waiters : Seq(Callers)]

Call ==
  [phase : {"idle", "bound", "estimated", "ready", "asleep", "admitted", "sent",
            "broken", "failed", "completed"},
   on : Coordinators \cup {NoCoordinator}, tokens : Nat, age : Nat,
   timer : Nat \cup {Forever}]

NoUsage == [requests |-> 0, exhausted |-> FALSE]

Blank ==
  [window |-> <<>>, daily |-> NoUsage, fresh |-> TRUE, active |-> 0,
   cooldown |-> 0, failures |-> 0, level |-> 0, waiters |-> <<>>]

Idle ==
  [phase |-> "idle", on |-> NoCoordinator, tokens |-> 0, age |-> 0,
   timer |-> Forever]

Bound(c) == [Idle EXCEPT !.phase = "bound", !.on = c]

-----------------------------------------------------------------------------
(* The effective envelope.                                                 *)

ApplyPercent(value, percent) ==
  IF value = 0 THEN 0
  ELSE Max({1, (value \div 100) * percent + ((value % 100) * percent) \div 100})

HalvePositive(value) == IF value <= 1 THEN value ELSE value \div 2

Halved(value, level) ==
  LET h[n \in 0..level] == IF n = 0 THEN value ELSE HalvePositive(h[n - 1])
  IN  h[level]

EffectiveLimits(level) ==
  [RPM |-> Halved(ApplyPercent(Limits.RPM, SafetyPercent), level),
   TPM |-> Halved(ApplyPercent(Limits.TPM, SafetyPercent), level),
   RPD |-> ApplyPercent(Limits.RPD, SafetyPercent),
   MaxConcurrent |-> Limits.MaxConcurrent]

(* Requests of a day that only foreground work may use.                    *)
Reserve == (EffectiveLimits(0).RPD * ReservePercent + 99) \div 100

-----------------------------------------------------------------------------
(* The rolling window.                                                     *)

Tokens(window) == FoldSeq(LAMBDA r, sum : r.tokens + sum, 0, window)

Unexpired(window) == SelectSeq(window, LAMBDA r : r.age < Window)

RequestsDelay(window, limit) ==
  LET remove == Len(window) + 1 - limit
  IN  IF limit > 0 /\ remove > 0 THEN Window - window[remove].age ELSE 0

(* Mutant: a request that does not fit waits for an empty window.          *)
TokensDelayAll(window, limit, size) ==
  IF limit > 0 /\ Tokens(window) + size > limit
  THEN Window - window[Len(window)].age
  ELSE 0

TokensDelay(window, limit, size) ==
  LET fits == {k \in 1..Len(window) :
                 Tokens(SubSeq(window, k + 1, Len(window))) + size <= limit}
  IN  IF limit > 0 /\ Tokens(window) + size > limit
      THEN IF fits = {} THEN Window ELSE Window - window[Min(fits)].age
      ELSE 0

(* The reservation a lease holds gets the tokens the provider reported,    *)
(* and its lease is over.                                                  *)
Reconciled(window, p, size) ==
  [i \in DOMAIN window |->
     IF window[i].owner = p
     THEN [window[i] EXCEPT !.tokens = size, !.owner = NoCaller]
     ELSE window[i]]

-----------------------------------------------------------------------------
(* Waiters.                                                                *)

Waiting(p) == call[p].phase \in {"ready", "asleep"}

Promotions(p) == call[p].age \div AgingInterval

(* Mutant: waiters do not age.                                             *)
BasePriority(p) == Priority[p]

(* Waiting promotes a request by one class per interval.                   *)
EffectivePriority(p) ==
  IF Promotions(p) >= Priority[p] THEN 0 ELSE Priority[p] - Promotions(p)

Position(c, p) == CHOOSE i \in DOMAIN coord[c].waiters : coord[c].waiters[i] = p

Selected(c, p) ==
  /\ p \in ToSet(coord[c].waiters)
  /\ \A q \in ToSet(coord[c].waiters) :
       \/ EffectivePriority(p) < EffectivePriority(q)
       \/ /\ EffectivePriority(p) = EffectivePriority(q)
          /\ Position(c, p) <= Position(c, q)

AgingDelay(p) ==
  IF Promotions(p) >= Priority[p] THEN Forever
  ELSE (Promotions(p) + 1) * AgingInterval - call[p].age

(* Closing the channel wakes every goroutine that waits on it.             *)
Signalled(calls, c) ==
  [p \in Callers |->
     IF calls[p].phase = "asleep" /\ calls[p].on = c
     THEN [calls[p] EXCEPT !.phase = "ready", !.timer = Forever]
     ELSE calls[p]]

-----------------------------------------------------------------------------
(* A new day is noticed by the next critical section, which takes its      *)
(* count from the ledger and wakes everyone.                               *)

RolledOver(c) ==
  IF coord[c].fresh THEN coord[c]
  ELSE [coord[c] EXCEPT !.fresh = TRUE, !.daily = ledger]

RolledOverCalls(c) == IF coord[c].fresh THEN call ELSE Signalled(call, c)

Refreshed(c) == [RolledOver(c) EXCEPT !.window = Unexpired(@)]

-----------------------------------------------------------------------------
Init ==
  /\ hour = 0
  /\ coord = [c \in Coordinators |-> Blank]
  /\ current = NoCoordinator
  /\ ledger = NoUsage
  /\ mtime = Window
  /\ call = [p \in Callers |-> Idle]
  /\ provider = [window |-> <<>>, today |-> 0, automatic |-> 0]

(* A coordinator object that does not exist (yet, or any more).            *)
Unused(c) == c # current /\ \A p \in Callers : call[p].on # c

(* One tick.  At midnight the ledger's bucket is a new one.  An admitted    *)
(* request is sent, or fails, within its tick.                             *)
Tick ==
  LET midnight == hour + 1 = DayLength
      Older(r) == [r EXCEPT !.age = Min({@ + 1, Window})]
      Sooner(n) == IF n > 0 THEN n - 1 ELSE n
  IN  /\ \A p \in Callers : call[p].phase # "admitted"
      /\ hour' = IF midnight THEN 0 ELSE hour + 1
      /\ coord' = [c \in Coordinators |->
           [coord[c] EXCEPT
             !.window = [i \in DOMAIN @ |-> Older(@[i])],
             !.cooldown = Sooner(@),
             !.fresh = (@ /\ ~midnight) \/ Unused(c)]]
      /\ ledger' = IF midnight THEN NoUsage ELSE ledger
      /\ mtime' = Min({mtime + 1, Window})
      /\ call' = [p \in Callers |->
           IF Waiting(p)
           THEN [call[p] EXCEPT !.age = Min({@ + 1, Priority[p] * AgingInterval}),
                                !.timer = Sooner(@)]
           ELSE call[p]]
      /\ provider' =
           [window |-> Unexpired([i \in DOMAIN provider.window |->
                                    Older(provider.window[i])]),
            today |-> IF midnight THEN 0 ELSE provider.today,
            automatic |-> IF midnight THEN 0 ELSE provider.automatic]
      /\ UNCHANGED current

-----------------------------------------------------------------------------
(* The bridge hands coordinators to runs.                                  *)

(* Mutant: a new coordinator counts the day from zero.                     *)
NewCoordinatorForgets ==
  [Blank EXCEPT !.cooldown = IF mtime < Window THEN Window - mtime ELSE 0]

(* Mutant: a new coordinator assumes that the last minute was quiet.       *)
NewCoordinatorCold == [Blank EXCEPT !.daily = ledger]

(* After a restart the ledger's last write says when the last call of the  *)
(* process before may have been sent.                                      *)
NewCoordinator ==
  [Blank EXCEPT !.daily = ledger,
                !.cooldown = IF mtime < Window THEN Window - mtime ELSE 0]

(* A coordinator nobody refers to is garbage.                              *)
Collected(coords, entry, calls) ==
  [c \in Coordinators |->
     IF c # entry /\ \A p \in Callers : calls[p].on # c THEN Blank ELSE coords[c]]

TakeBackend(p) ==
  /\ call[p] = Idle
  /\ \/ /\ current # NoCoordinator
        /\ call' = [call EXCEPT ![p] = Bound(current)]
        /\ UNCHANGED <<coord, current>>
     \/ /\ current = NoCoordinator
        /\ \E c \in Coordinators :
             /\ Unused(c)
             /\ coord' = [coord EXCEPT ![c] = NewCoordinator]
             /\ current' = c
             /\ call' = [call EXCEPT ![p] = Bound(c)]
  /\ UNCHANGED <<hour, ledger, mtime, provider>>

(* The run ends.                                                           *)
DropBackend(p) ==
  /\ call[p].phase = "bound"
  /\ call' = [call EXCEPT ![p] = Idle]
  /\ coord' = Collected(coord, current, call')
  /\ UNCHANGED <<hour, current, ledger, mtime, provider>>

(* Saving the provider drops its coordinator; runs that have one keep it.  *)
SaveProvider ==
  /\ current # NoCoordinator
  /\ Outlive \/ \A p \in Callers : call[p].phase = "idle"
  /\ current' = NoCoordinator
  /\ coord' = Collected(coord, NoCoordinator, call)
  /\ UNCHANGED <<hour, ledger, mtime, call, provider>>

(* The process dies.  The file, and what the provider received, remain.    *)
Crash ==
  /\ coord' = [c \in Coordinators |-> Blank]
  /\ current' = NoCoordinator
  /\ call' = [p \in Callers |-> Idle]
  /\ provider' = [provider EXCEPT !.window =
                    [i \in DOMAIN @ |-> [@[i] EXCEPT !.owner = NoCaller]]]
  /\ UNCHANGED <<hour, ledger, mtime>>

-----------------------------------------------------------------------------
(* A model call: estimate, wait, send, close.                              *)

(* The estimator looks at the window, which brings the coordinator up to   *)
(* date.                                                                   *)
EstimateInput(p) ==
  LET c == call[p].on IN
  /\ call[p].phase = "bound"
  /\ coord' = [coord EXCEPT ![c] = Refreshed(c)]
  /\ \E size \in Sizes :
       call' = [RolledOverCalls(c) EXCEPT
                  ![p].phase = "estimated", ![p].tokens = size]
  /\ UNCHANGED <<hour, current, ledger, mtime, provider>>

Enqueue(p) ==
  LET c == call[p].on
      limit == EffectiveLimits(0).TPM
  IN  /\ call[p].phase = "estimated"
      /\ IF limit > 0 /\ call[p].tokens > limit
         THEN /\ call' = [call EXCEPT ![p] = Bound(c)]
              /\ UNCHANGED coord
         ELSE /\ coord' = [coord EXCEPT ![c].waiters = Append(@, p)]
              /\ call' = [Signalled(call, c) EXCEPT ![p].phase = "ready"]
      /\ UNCHANGED <<hour, current, ledger, mtime, provider>>

(* A waiter takes the mutex when it is woken or its timer fires.           *)
Awake(p) ==
  call[p].phase = "ready" \/ (call[p].phase = "asleep" /\ call[p].timer = 0)

(* Mutant: automatic work may use the owner's reserve.                     *)
RefusedLate(co, p) ==
  LET limits == EffectiveLimits(co.level) IN
  \/ limits.TPM > 0 /\ call[p].tokens > limits.TPM
  \/ co.daily.exhausted
  \/ limits.RPD > 0 /\ co.daily.requests >= limits.RPD

(* What no waiting can change today.                                       *)
Refused(co, p) ==
  LET limits == EffectiveLimits(co.level) IN
  \/ limits.TPM > 0 /\ call[p].tokens > limits.TPM
  \/ co.daily.exhausted
  \/ limits.RPD > 0 /\ co.daily.requests >= limits.RPD
  \/ /\ Priority[p] # 0
     /\ limits.RPD > 0
     /\ co.daily.requests >= limits.RPD - Reserve

(* How long the selected waiter has to wait; 0 lets it go.                 *)
BlockedFor(co, p) ==
  LET limits == EffectiveLimits(co.level)
      delay == Max({RequestsDelay(co.window, limits.RPM),
                    TokensDelay(co.window, limits.TPM, call[p].tokens)})
  IN  IF co.cooldown > 0 THEN co.cooldown
      ELSE IF co.active >= limits.MaxConcurrent THEN Forever
      ELSE delay

(* Removing a waiter wakes the others.                                     *)
Left(co, p) == [co EXCEPT !.waiters = RemoveFirst(@, p)]

Leave(c, co, calls, p) ==
  /\ coord' = [coord EXCEPT ![c] = Left(co, p)]
  /\ call' = [Signalled(calls, c) EXCEPT ![p] = Bound(c)]

Sleep(c, p, timer) ==
  /\ coord' = [coord EXCEPT ![c] = Refreshed(c)]
  /\ call' = [RolledOverCalls(c) EXCEPT ![p].phase = "asleep", ![p].timer = timer]
  /\ UNCHANGED <<hour, current, ledger, mtime, provider>>

(* Not this waiter's turn: it looks again when it is promoted.             *)
Yield(p) ==
  LET c == call[p].on IN
  /\ Awake(p)
  /\ ~Selected(c, p)
  /\ Sleep(c, p, AgingDelay(p))

Hold(p) ==
  LET c == call[p].on IN
  /\ Awake(p)
  /\ Selected(c, p)
  /\ ~Refused(Refreshed(c), p)
  /\ BlockedFor(Refreshed(c), p) # 0
  /\ Sleep(c, p, BlockedFor(Refreshed(c), p))

Refuse(p) ==
  LET c == call[p].on IN
  /\ Awake(p)
  /\ Selected(c, p)
  /\ Refused(Refreshed(c), p)
  /\ Leave(c, Refreshed(c), RolledOverCalls(c), p)
  /\ UNCHANGED <<hour, current, ledger, mtime, provider>>

Admissible(p) ==
  LET c == call[p].on IN
  /\ Awake(p)
  /\ Selected(c, p)
  /\ ~Refused(Refreshed(c), p)
  /\ BlockedFor(Refreshed(c), p) = 0

(* Every dimension is reserved and the count of the day is on disk before  *)
(* the request is sent.                                                    *)
Admit(p) ==
  LET c     == call[p].on
      co    == Refreshed(c)
      entry == [age |-> 0, tokens |-> call[p].tokens, owner |-> p]
      daily == [co.daily EXCEPT !.requests = @ + 1]
  IN  /\ Admissible(p)
      /\ ledger' = daily
      /\ mtime' = 0
      /\ coord' = [coord EXCEPT ![c] =
           [Left(co, p) EXCEPT !.window = Append(@, entry), !.daily = daily,
                               !.active = @ + 1]]
      /\ call' = [Signalled(call, c) EXCEPT
                    ![p] = [Bound(c) EXCEPT !.phase = "admitted",
                                            !.tokens = call[p].tokens]]
      /\ UNCHANGED <<hour, current, provider>>

Send(p) ==
  LET entry == [age |-> 0, tokens |-> call[p].tokens, owner |-> p]
      auto  == IF Priority[p] = 0 THEN 0 ELSE 1
  IN  /\ call[p].phase = "admitted"
      /\ call' = [call EXCEPT ![p] = [Bound(call[p].on) EXCEPT !.phase = "sent"]]
      /\ provider' = [window |-> Append(provider.window, entry),
                      today |-> provider.today + 1,
                      automatic |-> provider.automatic + auto]
      /\ UNCHANGED <<hour, coord, current, ledger, mtime>>

(* The ledger cannot be written (the run was cancelled, or the disk fails).*)
AdmitFails(p) ==
  LET c == call[p].on IN
  /\ LedgerFaults
  /\ Admissible(p)
  /\ Leave(c, Refreshed(c), RolledOverCalls(c), p)
  /\ UNCHANGED <<hour, current, ledger, mtime, provider>>

(* The run is cancelled while it waits.                                    *)
CancelWaiter(p) ==
  /\ Waiting(p)
  /\ Leave(call[p].on, coord[call[p].on], call, p)
  /\ UNCHANGED <<hour, current, ledger, mtime, provider>>

-----------------------------------------------------------------------------
(* The end of a call, and what the provider says about it.                 *)

(* Mutant: the slot of a call is not given back.                           *)
FinishedHeld(co, p, size) == [co EXCEPT !.window = Reconciled(@, p, size)]

Finished(co, p, size) ==
  [co EXCEPT !.window = Reconciled(@, p, size),
             !.active = IF @ > 0 THEN @ - 1 ELSE 0]

Reserved(p) ==
  LET mine == SelectSeq(coord[call[p].on].window, LAMBDA r : r.owner = p)
  IN  IF mine = <<>> THEN 0 ELSE mine[1].tokens

(* The lease ends; the reported size replaces the estimate when there is   *)
(* one.                                                                    *)
FinishLease(p, size, phase) ==
  LET c == call[p].on IN
  /\ coord' = [coord EXCEPT ![c] = Finished(@, p, size)]
  /\ call' = [Signalled(call, c) EXCEPT ![p] = [Bound(c) EXCEPT !.phase = phase]]
  /\ provider' = [provider EXCEPT !.window = Reconciled(@, p, size)]
  /\ UNCHANGED <<hour, current, ledger, mtime>>

StartFails(p) ==
  /\ call[p].phase \in {"admitted", "sent"}
  /\ FinishLease(p, Reserved(p), "failed")

CloseStream(p) ==
  \/ /\ call[p].phase = "sent"
     /\ \E size \in Sizes \cup {Reserved(p)}, phase \in {"bound", "completed"} :
          FinishLease(p, size, phase)
  \/ /\ call[p].phase = "broken"
     /\ FinishLease(p, Reserved(p), "bound")

RecordSuccess(p) ==
  LET c == call[p].on IN
  /\ call[p].phase = "completed"
  /\ coord' = [coord EXCEPT ![c].failures = 0,
                            ![c].level = IF @ > 0 THEN @ - 1 ELSE 0]
  /\ call' = [Signalled(call, c) EXCEPT ![p].phase = "bound"]
  /\ UNCHANGED <<hour, current, ledger, mtime, provider>>

(* Further failures do not lengthen the backoff.                           *)
FailureCap == Min({n \in 1..MaxBackoff : BaseBackoff * 2 ^ (n - 1) >= MaxBackoff})

CooldownDelay(hint, failures) ==
  IF hint > 0 THEN Min({hint, MaxBackoff})
  ELSE Min({BaseBackoff * 2 ^ (failures - 1), MaxBackoff})

Cooled(co, hint, jitter) ==
  LET failures == Min({co.failures + 1, FailureCap})
  IN  [co EXCEPT !.failures = failures,
                 !.cooldown = Max({@, CooldownDelay(hint, failures) + jitter})]

Jitters(hint, failures) ==
  LET delay == CooldownDelay(hint, Min({failures + 1, FailureCap}))
  IN  0..Min({delay \div 4, MaxBackoff - delay})

(* Who may hear of a rejection, and what follows.                          *)
AfterRejection(phase) ==
  CASE phase = "sent" -> "broken" [] phase = "failed" -> "bound" [] OTHER -> phase

Rejectable(p) == call[p].phase \in {"bound", "sent", "failed"}

(* The minute's quota was hit: nothing is admitted for a while.            *)
RejectedShort(p, hint) ==
  LET c == call[p].on IN
  /\ Rejectable(p)
  /\ "short" \in Feedbacks
  /\ \E jitter \in Jitters(hint, coord[c].failures) :
       coord' = [coord EXCEPT ![c] = Cooled(RolledOver(c), hint, jitter)]
  /\ call' = [Signalled(call, c) EXCEPT ![p].phase = AfterRejection(@)]
  /\ UNCHANGED <<hour, current, ledger, mtime, provider>>

(* A rejection that does not say which quota was hit also halves the       *)
(* envelope, at most three times.                                          *)
RejectedAmbiguous(p, hint) ==
  LET c == call[p].on IN
  /\ Rejectable(p)
  /\ "ambiguous" \in Feedbacks
  /\ \E jitter \in Jitters(hint, coord[c].failures) :
       coord' = [coord EXCEPT
         ![c] = [Cooled(RolledOver(c), hint, jitter) EXCEPT !.level = Min({@ + 1, 3})]]
  /\ call' = [Signalled(call, c) EXCEPT ![p].phase = AfterRejection(@)]
  /\ UNCHANGED <<hour, current, ledger, mtime, provider>>

(* The day's quota was hit: nothing is admitted until midnight.            *)
RejectedDaily(p) ==
  LET c     == call[p].on
      daily == [RolledOver(c).daily EXCEPT !.exhausted = TRUE]
  IN  /\ Rejectable(p)
      /\ "daily" \in Feedbacks
      /\ coord' = [coord EXCEPT ![c] = [RolledOver(c) EXCEPT !.daily = daily]]
      /\ ledger' = daily
      /\ mtime' = 0
      /\ call' = [Signalled(call, c) EXCEPT ![p].phase = AfterRejection(@)]
      /\ UNCHANGED <<hour, current, provider>>

(* The error says nothing about quotas, or the ledger cannot be written.   *)
RejectionIgnored(p) ==
  /\ call[p].phase \in {"sent", "failed"}
  /\ call' = [call EXCEPT ![p].phase = AfterRejection(@)]
  /\ UNCHANGED <<hour, coord, current, ledger, mtime, provider>>

Rejected(p) ==
  \/ \E hint \in RetryHints : RejectedShort(p, hint) \/ RejectedAmbiguous(p, hint)
  \/ RejectedDaily(p)
  \/ RejectionIgnored(p)

Look(p) == Yield(p) \/ Hold(p) \/ Refuse(p) \/ Admit(p) \/ AdmitFails(p)

Next ==
  \/ Tick
  \/ SaveProvider
  \/ Crash
  \/ \E p \in Callers :
       \/ TakeBackend(p) \/ DropBackend(p)
       \/ EstimateInput(p) \/ Enqueue(p)
       \/ Look(p) \/ CancelWaiter(p) \/ Send(p)
       \/ StartFails(p) \/ CloseStream(p) \/ RecordSuccess(p)
       \/ Rejected(p)

Spec == Init /\ [][Next]_vars
=============================================================================
