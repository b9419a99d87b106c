---------------------------------- MODULE Cron ----------------------------------
(***************************************************************************)
(* The search for a cron expression's next occurrence (scheduler/cron.go): *)
(* it walks the time line minute by minute inside a day that matches and   *)
(* jumps over a month or a day that cannot, to the first instant of the    *)
(* next one as time.Date computes it.  Between the walls of a zone that    *)
(* puts its clocks forward and back, an instant and a wall-clock minute    *)
(* are two things.                                                         *)
(*                                                                         *)
(* Instants and wall-clock minutes are numbers; a wall-clock minute is the *)
(* minute of UTC that shows the same time.  A zone is a set of periods     *)
(* with their offsets.  The calendar is small: its lengths are constants,  *)
(* and a year that has a leap day comes as rarely as LeapEvery says.       *)
(***************************************************************************)
EXTENDS Integers, FiniteSets, FiniteSetsExt

CONSTANTS
  HourLen, DayHours,  \* minutes of an hour, hours of a day
  WeekLen,            \* days of a week; WeekLen itself is another name of day 0
  MonthDays,          \* the most days each month can have
  LeapMonth,          \* the month that has a day less in a common year
  LeapEvery,          \* years from one leap year to the next
  FirstLeap,          \* the first of them
  Years,              \* years the calendar is laid out for
  SearchWindow,       \* minutes the search looks ahead
  Zones, Expressions, \* time zones and expressions
  Starts              \* instants to search from

Months == DOMAIN MonthDays
DayLen == HourLen * DayHours

IsLeap(y) == y >= FirstLeap /\ (y - FirstLeap) % LeapEvery = 0
Length(y, m) == IF m = LeapMonth /\ ~IsLeap(y) THEN MonthDays[m] - 1 ELSE MonthDays[m]

\* The days of the calendar, numbered.
Date(d) == [year |-> d[1], month |-> d[2], dom |-> d[3]]
Following(d) ==
  IF d.dom < Length(d.year, d.month) THEN [d EXCEPT !.dom = @ + 1]
  ELSE IF d.month < Cardinality(Months) THEN [d EXCEPT !.month = @ + 1, !.dom = 1]
  ELSE Date(<<d.year + 1, 1, 1>>)
LastDay == Years * MapThenSumSet(LAMBDA m : MonthDays[m], Months)
Calendar[n \in 0..LastDay] == IF n = 0 THEN Date(<<0, 1, 1>>) ELSE Following(Calendar[n - 1])

Month(day) == Calendar[day].month
Dom(day) == Calendar[day].dom
Dow(day) == day % WeekLen

-----------------------------------------------------------------------------
(* Expressions.  A field is the set of its list items.                     *)

Refused == [any |-> FALSE, values |-> {}]

\* A Sunday may be written as the seventh day.
normalizeCronValue(value, sundaySeven) == IF sundaySeven /\ value = WeekLen THEN 0 ELSE value

Stepped(from, to, step) == {v \in from..to : (v - from) % step = 0}

\* "*", "a-b" and "a", each with or without "/n"; step 0 is one that is not written.
Step(item) == IF item.step = 0 THEN 1 ELSE item.step
Wrong(item, minimum, maximum) ==
  \/ item.kind # "star" /\ (item.from > item.to \/ item.from < minimum \/ item.to > maximum)
  \/ item.kind = "value" /\ item.step # 0
Values(item, minimum, maximum) ==
  IF item.kind = "star" THEN Stepped(minimum, maximum, Step(item))
  ELSE Stepped(item.from, item.to, Step(item))

\* Only a lone "*" leaves its field open: "*/2" restricts it.
parseCronField(items, minimum, maximum, sundaySeven) ==
  IF items = {} \/ \E i \in items : Wrong(i, minimum, maximum) THEN Refused
  ELSE [any |-> \E i \in items : items = {i} /\ i.kind = "star" /\ i.step = 0,
        values |-> {normalizeCronValue(v, sundaySeven) :
                      v \in UNION {Values(i, minimum, maximum) : i \in items}}]

\* Mutant: the leap day is forgotten.
CommonDaysInMonth(month) == IF month = LeapMonth THEN MonthDays[month] - 1 ELSE MonthDays[month]

maxDaysInMonth(month) == MonthDays[month]

\* A day of the month that never comes is refused when nothing else selects days.
checkDayReachable(spec) ==
  ~spec.dow.any \/ \E m \in spec.month.values, d \in spec.dom.values : d <= maxDaysInMonth(m)

parseCron(e) ==
  [minute |-> parseCronField(e.minute, 0, HourLen - 1, FALSE),
   hour |-> parseCronField(e.hour, 0, DayHours - 1, FALSE),
   dom |-> parseCronField(e.dom, 1, Max({MonthDays[m] : m \in Months}), FALSE),
   month |-> parseCronField(e.month, 1, Cardinality(Months), FALSE),
   dow |-> parseCronField(e.dow, 0, WeekLen, TRUE)]

Accepted(spec) ==
  /\ \A f \in DOMAIN spec : spec[f] # Refused
  /\ checkDayReachable(spec)

matchesDay(spec, day) ==
  LET dom == Dom(day) \in spec.dom.values
      dow == Dow(day) \in spec.dow.values
  IN  CASE spec.dom.any /\ spec.dow.any -> TRUE
        [] spec.dom.any /\ ~spec.dow.any -> dow
        [] ~spec.dom.any /\ spec.dow.any -> dom
        [] OTHER -> dom \/ dow

-----------------------------------------------------------------------------
(* Time zones.                                                             *)

lookup(zone, t) == CHOOSE p \in zone : p.from <= t /\ t < p.to

\* The wall clock at an instant.
Wall(zone, t) == t + lookup(zone, t).off
DayOf(zone, t) == Wall(zone, t) \div DayLen
TimeOf(zone, t) == Wall(zone, t) % DayLen

\* time.Date: it tries the offset that holds where the wall clock would be UTC,
\* and the one that holds at the result when that is not in the same period.
Instant(zone, wall) ==
  LET p == lookup(zone, wall)
      u == wall - p.off
  IN  IF p.off = 0 THEN wall
      ELSE IF p.from <= u /\ u < p.to THEN u
      ELSE wall - lookup(zone, u).off

startOfNextLocalDay(zone, t) == Instant(zone, (DayOf(zone, t) + 1) * DayLen)

FirstOfNextMonth(day) == Min({d \in day + 1 .. day + Length(Calendar[day].year, Month(day)) : Dom(d) = 1})
startOfNextLocalMonth(zone, t) == Instant(zone, FirstOfNextMonth(DayOf(zone, t)) * DayLen)

\* The instants a search looks at, and what its jumps rely on: time.Date never
\* answers later than the first minute of the day or the month it is asked for.
Searched == UNION {s + 1 .. s + SearchWindow : s \in Starts}
MidnightsComeFirst ==
  \A z \in Zones, t \in Searched :
    /\ startOfNextLocalDay(z, t) \in Int /\ startOfNextLocalMonth(z, t) \in Int
    /\ \A u \in t .. startOfNextLocalDay(z, t) - 1 : DayOf(z, u) = DayOf(z, t)
    /\ \A u \in t .. startOfNextLocalMonth(z, t) - 1 : Month(DayOf(z, u)) = Month(DayOf(z, t))

-----------------------------------------------------------------------------
VARIABLES
  zone, spec, after, \* what is asked
  candidate,         \* the instant the loop looks at
  phase              \* "searching", "found", "expired", or "refused"

asked == <<zone, spec, after>>
cronVars == <<zone, spec, after, candidate, phase>>

limit == after + 1 + SearchWindow

CronInit ==
  /\ zone \in Zones /\ after \in Starts
  /\ \E e \in Expressions : spec = parseCron(e)
  /\ phase = IF Accepted(spec) THEN "searching" ELSE "refused"
  /\ candidate = after + 1

Looking == phase = "searching" /\ candidate < limit

\* A jump that fails to advance would loop: it gives way to the next minute.
Jump(to) ==
  /\ candidate' = IF to > candidate THEN to ELSE candidate + 1
  /\ UNCHANGED <<asked, phase>>

\* Mutant: the next month begins a month's length from here.
SkipLength ==
  /\ Looking /\ Month(DayOf(zone, candidate)) \notin spec.month.values
  /\ LET day == DayOf(zone, candidate)
     IN  Jump(candidate + Length(Calendar[day].year, Month(day)) * DayLen)

SkipMonth ==
  /\ Looking /\ Month(DayOf(zone, candidate)) \notin spec.month.values
  /\ Jump(startOfNextLocalMonth(zone, candidate))

DayMatches(t) ==
  Month(DayOf(zone, t)) \in spec.month.values /\ matchesDay(spec, DayOf(zone, t))

SkipDay ==
  /\ Looking /\ Month(DayOf(zone, candidate)) \in spec.month.values
  /\ ~matchesDay(spec, DayOf(zone, candidate))
  /\ Jump(startOfNextLocalDay(zone, candidate))

TimeMatches(t) ==
  /\ TimeOf(zone, t) \div HourLen \in spec.hour.values
  /\ TimeOf(zone, t) % HourLen \in spec.minute.values

Answer ==
  /\ Looking /\ DayMatches(candidate) /\ TimeMatches(candidate)
  /\ phase' = "found" /\ UNCHANGED <<asked, candidate>>

NextMinute ==
  /\ Looking /\ DayMatches(candidate) /\ ~TimeMatches(candidate)
  /\ candidate' = candidate + 1 /\ UNCHANGED <<asked, phase>>

Expire ==
  /\ phase = "searching" /\ candidate >= limit
  /\ phase' = "expired" /\ UNCHANGED <<asked, candidate>>

CronNext == SkipMonth \/ SkipDay \/ Answer \/ NextMinute \/ Expire

CronSpec == CronInit /\ [][CronNext]_cronVars

-----------------------------------------------------------------------------
(* Properties.                                                             *)

Due(t) == DayMatches(t) /\ TimeMatches(t)

\* The answer matches, and no minute after the reference time does before it:
\* the jumps over months and days, which time.Date makes, never pass a match,
\* whatever the clocks do on the way, and the two minutes of an hour that comes
\* twice are both seen; a search that gives up has seen its whole window
\* (cron.go:250-306).
FirstMatch ==
  /\ phase = "found" => Due(candidate)
  /\ phase = "expired" => candidate >= limit
  /\ phase # "refused" => \A t \in after + 1 .. candidate - 1 : ~Due(t)

\* An expression is refused exactly when no day of the calendar can ever match
\* it: one that was accepted has a day in the window, even if it waits for a leap
\* day, and finds nothing only when the clocks jump over its time on every such
\* day (cron.go:82-101, 237-241).
AcceptedMeansReachable ==
  /\ phase = "expired" => \E t \in after + 1 .. limit - 1 : DayMatches(t)
  /\ phase = "refused" => \A t \in after + 1 .. limit - 1 : ~DayMatches(t)

\* The search always moves forward or ends (cron.go:283-289).
AlwaysAdvances == [][candidate' > candidate \/ phase' # phase]_cronVars
=============================================================================
