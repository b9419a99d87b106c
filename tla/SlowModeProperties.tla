------------------------ MODULE SlowModeProperties ------------------------
(* What slow mode promises.                                                *)
EXTENDS SlowMode

(* Every variable has its type.                                            *)
TypeOK ==
  /\ hour \in 0..(DayLength - 1)
  /\ coord \in [Coordinators -> Coordinator]
  /\ current \in Coordinators \cup {NoCoordinator}
  /\ ledger \in Usage
  /\ mtime \in 0..Window
  /\ call \in [Callers -> Call]
  /\ provider \in [window : Seq(Reservation), today : Nat, automatic : Nat]

Admitted == {p \in Callers : call[p].phase = "admitted"}

(* The minute the provider sees stays inside the owner's requests when a   *)
(* request is sent, and inside the input tokens when one is admitted, by   *)
(* the usage reported until then.  Restarts included: the new process      *)
(* waits until the old one's last minute is over (tryAdmitLocked,          *)
(* LoadWarmup).                                                            *)
ProviderMinute ==
  LET limits == EffectiveLimits(0) IN
  /\ limits.RPM > 0 /\ Len(provider'.window) > Len(provider.window)
       => Len(provider'.window) <= limits.RPM
  /\ limits.TPM > 0 /\ (\E p \in Callers : Admit(p))
       => Tokens(provider.window)
          + MapThenSumSet(LAMBDA p : call'[p].tokens, Admitted') <= limits.TPM

(* The provider receives no more requests in a Pacific day than allowed,   *)
(* and automatic work leaves the owner's reserve alone, whatever restarts  *)
(* happen in the day (tryAdmitLocked, ensureDayLocked).                    *)
ProviderDay ==
  LET limits == EffectiveLimits(0) IN
  limits.RPD > 0 =>
    /\ provider.today <= limits.RPD
    /\ provider.automatic <= Max({0, limits.RPD - Reserve})

InFlight(c) ==
  {p \in Callers : call[p].on = c /\ call[p].phase \in {"admitted", "sent", "broken"}}

(* A coordinator's slot counter is the number of calls in flight, so a slot*)
(* is neither leaked nor given out twice (tryAdmitLocked, finish).         *)
SlotsAreCalls ==
  \A c \in Coordinators :
    /\ coord[c].active = Cardinality(InFlight(c))
    /\ coord[c].active <= Limits.MaxConcurrent

(* The ledger on disk counts every request sent today before it is sent,   *)
(* whatever crash separates the two (saveDailyLocked).                     *)
LedgerCounts ==
  provider.today + Cardinality(Admitted) <= ledger.requests

(* No waiter sleeps through its turn: one that would be admitted, or       *)
(* refused, if it looked, has been woken or its timer has fired.           *)
NoLostWakeup ==
  \A p \in Callers :
    call[p].phase = "asleep" /\ Selected(call[p].on, p) =>
      LET co == Refreshed(call[p].on) IN
      Refused(co, p) \/ BlockedFor(co, p) = 0 => call[p].timer = 0

(* A class is served in the order of arrival: nobody is admitted past an   *)
(* earlier waiter with the same priority (selectedWaiterLocked).           *)
FirstInFirstOut ==
  \A p \in Callers :
    Admit(p) =>
      \A q \in ToSet(coord[call[p].on].waiters) :
        Priority[q] = Priority[p] =>
          Position(call[p].on, p) <= Position(call[p].on, q)

-----------------------------------------------------------------------------
(* Time passes; a goroutine that can look or send does; a call ends,       *)
(* because a run has a deadline.                                           *)
Fairness ==
  /\ WF_vars(Tick)
  /\ \A p \in Callers :
       /\ WF_vars(Look(p))
       /\ WF_vars(Send(p))
       /\ WF_vars(CloseStream(p))
       /\ WF_vars(RecordSuccess(p))
       /\ WF_vars(RejectionIgnored(p))

(* The provider does not refuse for the minute's quota for ever: in the    *)
(* end its rejections change nothing but the call they end.                *)
RejectionsCease ==
  <>[][\A p \in Callers, hint \in RetryHints :
         RejectedShort(p, hint) \/ RejectedAmbiguous(p, hint) => RejectionIgnored(p)]_vars

FairSpec == Spec /\ Fairness /\ RejectionsCease

(* Every waiter leaves the queue, automatic work too, however much         *)
(* foreground work keeps arriving (aging), unless the provider keeps       *)
(* rejecting calls or the process keeps dying.                             *)
NobodyStarves == \A p \in Callers : Waiting(p) ~> ~Waiting(p)

-----------------------------------------------------------------------------
(* A statement of the repository that the code does not keep.              *)

(* docs/GOOGLE_AI_STUDIO_ROADMAP.md:257: quota-exhausted state is persisted *)
(* so that restarting cannot reset it: once the day is marked exhausted on *)
(* disk it stays so until midnight.                                        *)
ExhaustionPersists ==
  [][ledger.exhausted /\ hour' >= hour => ledger'.exhausted]_vars
=============================================================================
