------------------------------ MODULE MCServices ------------------------------
(***************************************************************************)
(* The components of Services on small instances, each in behaviours of    *)
(* its own: part says whose turn it is, and the variables of the others    *)
(* keep an initial state.                                                  *)
(***************************************************************************)
EXTENDS Services, TLC

CONSTANTS s1, s2, n1, n2

VARIABLE part

-----------------------------------------------------------------------------
(* Cron: two months of a week and a half, a leap day every third year.     *)

TwoMonths == [m \in 1..2 |-> IF m = 1 THEN 4 ELSE 3]

Period(from, to, off) == [from |-> from, to |-> to, off |-> off]
Summer(std, dst, on, off) ==
  {Period(-100, on - std, std), Period(on - std, off - dst, dst), Period(off - dst, 10000, std)}

\* An hour that is skipped every year on the same date.
NewYears == [y \in 0..7 |-> 8 * (6 * y + (IF y = 0 THEN 0 ELSE (y + 0) \div 3))]
SameDate(std, dst) ==
  LET on(y) == NewYears[y] + 32 - std
      off(y) == NewYears[y] + 44 - dst
  IN  {Period(-100, on(0), std)} \cup {Period(on(y), off(y), dst) : y \in 0..7}
      \cup {Period(off(y), IF y = 7 THEN 10000 ELSE on(y + 1), std) : y \in 0..7}

\* UTC, a fixed offset, Berlin, Beirut, New York, Havana, Santiago, the Azores,
\* Nuuk, and a clock that goes by the date.
MCZones ==
  {{Period(-100, 10000, 0)}, {Period(-100, 10000, 2)},
   Summer(2, 4, 36, 78), Summer(2, 4, 40, 80), Summer(-4, -2, 36, 76), Summer(-4, -2, 40, 82),
   Summer(-4, -2, 40, 80), Summer(-2, 0, 40, 82), Summer(-4, -2, 38, 80), SameDate(2, 4)}

Item(kind, from, to, step) == [kind |-> kind, from |-> from, to |-> to, step |-> step]
All == {Item("star", 0, 0, 0)}
Only(v) == {Item("value", v, v, 0)}
Expression(minute, hour, dom, month, dow) ==
  [minute |-> minute, hour |-> hour, dom |-> dom, month |-> month, dow |-> dow]
MCExpressions ==
  {Expression(minute, hour, dom, month, dow) :
     minute \in {Only(1)}, hour \in {Only(0), {Item("star", 0, 0, 2)}},
     dom \in {All, Only(1), Only(3), Only(4)}, month \in {All, Only(2)},
     dow \in {All, Only(0)}}

-----------------------------------------------------------------------------
(* The other components.                                                   *)

OneType == [n \in Notices |-> "task"]
Offer(zoneOf, quiet) == [enabled |-> TRUE, zone |-> zoneOf, limit |-> 1, cooldown |-> 1, quiet |-> quiet]
TwoOffers == {Offer(0, {<<1, 0>>}), Offer(1, {})}

ASSUME Notify!ProactivityAssumption
ASSUME Desk!WorkspaceAssumption
ASSUME Stream!StreamAssumption
ASSUME MidnightsComeFirst

-----------------------------------------------------------------------------
notifyVars == <<psettings, dailyCounts, lastByType, delivered, pending, jobs, audit, pnow, pup,
                mishaps, crashed, shown, unaudited, rezoned>>
deskVars == <<profile, route, conv, runs, titling, config, disk, keys, served, mu, wcall, wcalls, up,
              quits, restored>>
streamVars == <<dialect, request, watchdog, expiring, owner, cut, sent, wire, net, reader, built,
                result, now, lastRead>>
allVars == <<part, cronVars, deskVars, notifyVars, vars, streamVars>>

Symmetry == Permutations({s1, s2}) \cup Permutations({n1, n2})

CronRests == phase = "searching" /\ after = 0 /\ candidate = 1 /\ zone = {} /\ spec = {}

ServicesInit ==
  /\ part \in {"cron", "workspace", "notices", "backup", "stream"}
  /\ IF part = "cron" THEN CronInit ELSE CronRests
  /\ Desk!Init /\ (part # "workspace" => config = Desk!Fresh)
  /\ Notify!Init /\ (part # "notices" => psettings.zone = 0)
  /\ Init
  /\ Stream!Init /\ (part # "stream" => dialect = "chat")

ServicesNext ==
  \/ part = "cron" /\ CronNext /\ UNCHANGED <<part, deskVars, notifyVars, vars, streamVars>>
  \/ part = "workspace" /\ Desk!Next /\ UNCHANGED <<part, cronVars, notifyVars, vars, streamVars>>
  \/ part = "notices" /\ Notify!Next /\ UNCHANGED <<part, cronVars, deskVars, vars, streamVars>>
  \/ part = "backup" /\ Next /\ UNCHANGED <<part, cronVars, deskVars, notifyVars, streamVars>>
  \/ part = "stream" /\ Stream!Next /\ UNCHANGED <<part, cronVars, deskVars, notifyVars, vars>>

ServicesSpec == ServicesInit /\ [][ServicesNext]_allVars

-----------------------------------------------------------------------------
\* Answers of the model: whole calls, timeouts after silence only, nothing held
\* once a request is over.
StreamsAreWhole == part = "stream" => Stream!CallsAreWhole /\ Stream!TimeoutIsReal /\ Stream!NothingLeaks
=============================================================================
