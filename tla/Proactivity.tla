------------------------------ MODULE Proactivity ------------------------------
(***************************************************************************)
(* Notifications (proactivity/policy.go, desktop/proactivity.go and the    *)
(* notification jobs of desktop/schedules.go): a finished agent task wants *)
(* to tell the owner; the policy lets it, puts it off to a later time as a *)
(* durable job of its own, or suppresses it.  The policy's ledger lives in *)
(* memory: it reserves a delivery under its lock, notifies without it, and *)
(* commits or takes the reservation back; after a restart it is rebuilt    *)
(* from the audit of what was sent, which is written after the fact and    *)
(* may be lost.                                                            *)
(*                                                                         *)
(* Time passes in units, Day of them a day.  A job is due, at a step of    *)
(* its execution, or over; the scheduler that runs it is in Scheduler.     *)
(***************************************************************************)
EXTENDS Integers, Sequences, FiniteSets, FiniteSetsExt, Functions

CONSTANTS
  Notices,   \* notifications, one for every run of an agent task
  Types,     \* notification types
  TypeOf,    \* the type of a notice
  Offers,   \* settings the owner may save
  Day,       \* units in a day
  Tries,     \* attempts of a job
  Horizon,   \* the last moment
  MaxMishaps \* edits, crashes and failures

ProactivityAssumption ==
  /\ TypeOf \in [Notices -> Types] /\ Day \in Nat \ {0} /\ Tries \in Nat \ {0}
  /\ Offers # {} /\ Horizon \in Nat /\ MaxMishaps \in Nat
  /\ \A c \in Offers :
       /\ c.enabled \in BOOLEAN /\ c.zone \in Nat /\ c.limit \in Nat /\ c.cooldown \in Nat
       /\ c.quiet \subseteq (0 .. Day - 1) \X (0 .. Day - 1)

VARIABLES
  settings,     \* what the policy works with
  dailyCounts,  \* deliveries by local date
  lastByType,   \* the last delivery of each type, Never if none
  delivered,    \* the notices known to be delivered
  pending,      \* reservations by notice
  jobs,         \* the jobs that carry notices, done ones included
  audit,        \* what the journal says was sent, and when it was written
  now, up,
  mishaps,      \* edits, crashes and failures so far
  crashed,      \* one of them was a crash
  shown,        \* when the owner was shown a notice, as it was reserved
  unaudited,    \* something was shown that the journal does not know
  rezoned       \* the time zone was changed

policy == <<settings, dailyCounts, lastByType, delivered, pending>>
bounds == <<mishaps, crashed>>
vars == <<policy, jobs, audit, now, up, bounds, shown, unaudited, rezoned>>

Never == -1
Happens == mishaps < MaxMishaps /\ mishaps' = mishaps + 1

-----------------------------------------------------------------------------
(* The policy.                                                             *)

LocalDate(t) == (t + settings.zone) \div Day
LocalTime(t) == (t + settings.zone) % Day
atMinute(date, m) == date * Day + m - settings.zone
nextLocalMidnight(t) == atMinute(LocalDate(t) + 1, 0)

\* An interval without length is quiet for ever, and the first such ends the search.
Endless == \E q \in settings.quiet : q[1] = q[2]

quietEnds(t) ==
  LET m == LocalTime(t)
      d == LocalDate(t)
  IN {atMinute(d, q[2]) : q \in {p \in settings.quiet : p[1] < p[2] /\ m >= p[1] /\ m < p[2]}}
     \cup {atMinute(d + 1, q[2]) : q \in {p \in settings.quiet : p[1] > p[2] /\ m >= p[1]}}
     \cup {atMinute(d, q[2]) : q \in {p \in settings.quiet : p[1] > p[2] /\ m < p[1] /\ m < p[2]}}

CountOf(date) == IF date \in DOMAIN dailyCounts THEN dailyCounts[date] ELSE 0

Held(n) ==
  LET quiet == IF Endless THEN {} ELSE quietEnds(now)
      limit == IF settings.limit > 0 /\ CountOf(LocalDate(now)) >= settings.limit
               THEN {nextLocalMidnight(now)} ELSE {}
      due == lastByType[TypeOf[n]] + settings.cooldown
      cooldown == IF settings.cooldown > 0 /\ lastByType[TypeOf[n]] # Never /\ now < due
                  THEN {due} ELSE {}
  IN quiet \cup (limit \cup cooldown)

\* Suppressed, deferred to a time or to none, or to be delivered now.
decideLocked(n) ==
  CASE n \in delivered \/ n \in DOMAIN pending \/ ~settings.enabled -> "suppressed"
    [] n \notin delivered /\ n \notin DOMAIN pending /\ settings.enabled
         /\ (Endless \/ Held(n) # {}) -> "deferred"
    [] OTHER -> "deliver"

reserveLocked(n) ==
  LET d == LocalDate(now) IN
    /\ dailyCounts' = [e \in DOMAIN dailyCounts \cup {d} |-> IF e = d THEN CountOf(d) + 1 ELSE dailyCounts[e]]
    /\ lastByType' = [lastByType EXCEPT ![TypeOf[n]] = now]
    /\ pending' = [m \in DOMAIN pending \cup {n} |->
                     IF m = n THEN [date |-> d, at |-> now, before |-> lastByType[TypeOf[n]]] ELSE pending[m]]
    /\ UNCHANGED <<settings, delivered>>

commitLocked(n) ==
  /\ pending' = Restrict(pending, DOMAIN pending \ {n})
  /\ delivered' = delivered \cup {n}
  /\ UNCHANGED <<settings, dailyCounts, lastByType>>

rollbackLocked(n) ==
  LET r == pending[n]
      rest == Restrict(pending, DOMAIN pending \ {n})
      same == {m \in DOMAIN rest : TypeOf[m] = TypeOf[n]}
  IN /\ pending' = rest
     /\ dailyCounts' = IF CountOf(r.date) > 1 THEN [dailyCounts EXCEPT ![r.date] = @ - 1]
                       ELSE Restrict(dailyCounts, DOMAIN dailyCounts \ {r.date})
     /\ lastByType' = IF lastByType[TypeOf[n]] # r.at THEN lastByType
                      ELSE [lastByType EXCEPT ![TypeOf[n]] = Max({r.before} \cup {rest[m].at : m \in same})]
     /\ UNCHANGED <<settings, delivered>>

UpdateSettings ==
  /\ up /\ Happens
  /\ \E c \in Offers :
       /\ c # settings /\ settings' = c
       /\ dailyCounts' = IF c.zone # settings.zone THEN << >> ELSE dailyCounts
       /\ rezoned' = (rezoned \/ c.zone # settings.zone)
  /\ UNCHANGED <<lastByType, delivered, pending, jobs, audit, now, up, crashed, shown, unaudited>>

-----------------------------------------------------------------------------
(* The jobs that carry a notice.                                           *)

Job(n, kind, at) == [notice |-> n, kind |-> kind, at |-> at, tries |-> 0, pc |-> "due", to |-> Never]
Moves(j, pc) == jobs' = (jobs \ {j}) \cup {[j EXCEPT !.pc = pc, !.tries = IF pc \in {"done", "failed"} THEN 0 ELSE @]}

\* A failed attempt is repeated until the attempts are spent.
Retried(j) == [j EXCEPT !.pc = IF j.tries < Tries THEN "due" ELSE "failed", !.to = Never]

\* The notice of a finished agent task is not worth running the task again.
Errs(j) == IF j.kind = "task" THEN Moves(j, "failed") ELSE jobs' = (jobs \ {j}) \cup {Retried(j)}

\* The agent task behind a notice has just run; or a deferred job comes due.
Deliver(j) ==
  /\ up /\ j.pc = "due" /\ now >= j.at
  /\ LET d == decideLocked(j.notice)
         claimed == [j EXCEPT !.tries = @ + 1]
     IN \/ /\ d = "suppressed" /\ UNCHANGED policy
           /\ jobs' = (jobs \ {j}) \cup {[claimed EXCEPT !.pc = "done"]}
        \/ /\ d = "deferred" /\ UNCHANGED policy
           /\ jobs' = (jobs \ {j}) \cup
                {IF Held(j.notice) = {} THEN [claimed EXCEPT !.pc = "done"]
                 ELSE [claimed EXCEPT !.pc = "enqueue", !.to = Max(Held(j.notice))]}
        \/ /\ d = "deliver" /\ reserveLocked(j.notice)
           /\ jobs' = (jobs \ {j}) \cup {[claimed EXCEPT !.pc = "notify"]}
  /\ UNCHANGED <<audit, now, up, bounds, shown, unaudited, rezoned>>

emitNotification(j) ==
  /\ up /\ j.pc = "notify"
  /\ \/ /\ shown' = [shown EXCEPT ![j.notice] = Append(@, pending[j.notice].at)]
        /\ unaudited' = unaudited \cup {j.notice}
        /\ Moves(j, "commit")
        /\ UNCHANGED <<policy, mishaps>>
     \/ /\ Happens
        /\ rollbackLocked(j.notice) /\ Errs(j)
        /\ UNCHANGED <<shown, unaudited>>
  /\ UNCHANGED <<audit, now, up, crashed, rezoned>>

CommitDelivery(j) ==
  /\ up /\ j.pc = "commit"
  /\ commitLocked(j.notice)
  /\ Moves(j, "audit")
  /\ UNCHANGED <<audit, now, up, bounds, shown, unaudited, rezoned>>

\* A lost audit record is only logged.
deliverNotification(j) ==
  /\ up /\ j.pc = "audit"
  /\ \/ /\ audit' = audit \cup {[notice |-> j.notice, at |-> now]}
        /\ unaudited' = unaudited \ {j.notice}
        /\ UNCHANGED mishaps
     \/ /\ Happens
        /\ UNCHANGED <<audit, unaudited>>
  /\ Moves(j, "done")
  /\ UNCHANGED <<policy, now, up, crashed, shown, rezoned>>

\* Mutant: the job is over before its successor is stored.
EnqueuesLater(j) ==
  /\ up /\ j.pc = "enqueue"
  /\ \/ /\ Happens /\ Moves(j, "done")
     \/ /\ jobs' = (jobs \ {j}) \cup {[j EXCEPT !.pc = "done"], Job(j.notice, "deferred", j.to)}
        /\ UNCHANGED mishaps
  /\ UNCHANGED <<policy, audit, now, up, crashed, shown, unaudited, rezoned>>

\* The job of a notice and a time exists once: creating it again is no error.
enqueueDeferredNotification(j) ==
  /\ up /\ j.pc = "enqueue"
  /\ \/ /\ Happens /\ Errs(j)
     \/ /\ jobs' = ((jobs \ {j}) \cup {[j EXCEPT !.pc = "enqueued"]}) \cup
             (IF \E k \in jobs : k.notice = j.notice /\ k.kind = "deferred" /\ k.at = j.to THEN {}
              ELSE {Job(j.notice, "deferred", j.to)})
        /\ UNCHANGED mishaps
  /\ UNCHANGED <<policy, audit, now, up, crashed, shown, unaudited, rezoned>>

executeNotificationJob(j) ==
  /\ up /\ j.pc = "enqueued"
  /\ Moves(j, "done")
  /\ UNCHANGED <<policy, audit, now, up, bounds, shown, unaudited, rezoned>>

-----------------------------------------------------------------------------
(* Quitting and starting again.                                            *)

Crash ==
  /\ up /\ Happens /\ crashed' = TRUE
  /\ up' = FALSE
  /\ jobs' = {IF j.pc \in {"due", "done", "failed"} THEN j ELSE Retried(j) : j \in jobs}
  /\ UNCHANGED <<policy, audit, now, shown, unaudited, rezoned>>

\* The window of the journal that is read covers the horizon of this model.
restoreProactivityLedger ==
  /\ ~up /\ up' = TRUE
  /\ delivered' = {a.notice : a \in audit} /\ pending' = << >>
  /\ dailyCounts' = [d \in {LocalDate(a.at) : a \in audit} |-> Cardinality({a \in audit : LocalDate(a.at) = d})]
  /\ lastByType' = [k \in Types |-> Max({Never} \cup {a.at : a \in {b \in audit : TypeOf[b.notice] = k}})]
  /\ UNCHANGED <<settings, jobs, audit, now, bounds, shown, unaudited, rezoned>>

Tick == now < Horizon /\ now' = now + 1
        /\ UNCHANGED <<policy, jobs, audit, up, bounds, shown, unaudited, rezoned>>

Init ==
  /\ settings \in Offers
  /\ dailyCounts = << >> /\ lastByType = [k \in Types |-> Never] /\ delivered = {} /\ pending = << >>
  /\ jobs = {Job(n, "task", 0) : n \in Notices}
  /\ audit = {} /\ now = 0 /\ up = TRUE /\ mishaps = 0 /\ crashed = FALSE
  /\ shown = [n \in Notices |-> << >>] /\ unaudited = {} /\ rezoned = FALSE

Next ==
  \/ \E j \in jobs : Deliver(j) \/ emitNotification(j) \/ CommitDelivery(j) \/ deliverNotification(j)
                     \/ enqueueDeferredNotification(j) \/ executeNotificationJob(j)
  \/ UpdateSettings \/ Crash \/ restoreProactivityLedger \/ Tick

Spec == Init /\ [][Next]_vars

-----------------------------------------------------------------------------
(* What the owner may rely on.                                             *)

\* Every variable has values of its kind; no date is kept with a count of zero.
ProactivityTypeOK ==
  /\ settings \in Offers /\ delivered \subseteq Notices /\ DOMAIN pending \subseteq Notices
  /\ \A j \in jobs : j.notice \in Notices /\ j.tries \in 0 .. Tries
  /\ \A d \in DOMAIN dailyCounts : dailyCounts[d] \in Nat \ {0}
  /\ \A k \in Types : lastByType[k] \in -1 .. Horizon

ShownOn(date) == {n \in Notices : \E i \in DOMAIN shown[n] : LocalDate(shown[n][i]) = date}
Reserved(date) == {n \in DOMAIN pending : pending[n].date = date}

\* A notice is let through only when those the owner was shown on this local day,
\* with those on their way to them, are fewer than the daily limit: across
\* failures of the notifier, restarts, and records written after midnight
\* (decideLocked, rollbackLocked, restoreProactivityLedger).  Changing the time
\* zone starts the count anew, and what the journal lost is not counted.
DailyLimitHolds ==
  [][ /\ ~rezoned /\ unaudited \subseteq DOMAIN pending \cup delivered
      /\ settings.limit > 0 /\ DOMAIN pending' \ DOMAIN pending # {}
      => Cardinality(ShownOn(LocalDate(now)) \cup Reserved(LocalDate(now))) < settings.limit ]_vars

\* A notice is shown once, however often its job, the job it was deferred to, or a
\* second one deferred to another time come to run, unless the journal has
\* lost it (deliverNotification, enqueueDeferredNotification).
ShownOnce ==
  [][ \A n \in Notices : shown'[n] # shown[n] /\ shown[n] # << >> => n \in unaudited /\ crashed ]_vars

\* A job that put its notice off ends only when the job that will carry the notice
\* on is there, whatever failed or was cut off in between
\* (deliverOrDeferNotification).
DeferredIsKept ==
  \A j \in jobs : j.pc = "done" /\ j.to # Never
    => \E k \in jobs : k.notice = j.notice /\ k.at = j.to /\ k.kind = "deferred"
=============================================================================
