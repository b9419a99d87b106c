------------------------------- MODULE Services -------------------------------
(***************************************************************************)
(* The components of the desktop that share nothing in these models, each  *)
(* with constants and variables of its own: the search for a cron          *)
(* expression's next occurrence, exports and restores, the workspace the   *)
(* owner's windows work on, notices, and requests to a provider.           *)
(***************************************************************************)
EXTENDS Cron, Backup

CONSTANTS
  Agents, Convs, Providers, Keyed, Forgetful, Codex, Dirs, MaxQuits,            \* of the workspace
  Notices, Types, TypeOf, Offers, Day, Tries, Horizon, MaxMishaps,              \* of notices
  Calls, Pieces, Dialects, MaxAttempts, FirstByte, IdleBudget, InitialBackoff,  \* of requests
  MaxBackoff, MaxRetryAfter, RetryHints, MaxEvents, MaxWire, Ticks

VARIABLES
  profile, route, conv, runs, titling, config, disk, keys, served, mu, wcall, wcalls, up, quits,
  restored,
  psettings, dailyCounts, lastByType, delivered, pending, jobs, audit, pnow, pup, mishaps, crashed,
  shown, unaudited, rezoned,
  dialect, request, watchdog, expiring, owner, cut, sent, wire, net, reader, built, result, now,
  lastRead

Desk == INSTANCE WorkspaceProperties WITH call <- wcall, calls <- wcalls
Notify == INSTANCE Proactivity WITH settings <- psettings, now <- pnow, up <- pup
Stream == INSTANCE ModelStream WITH Idle <- IdleBudget, Horizon <- Ticks

\* The workspace: its variables, its routes and the keys of its providers are in
\* order (SetActiveAgent, saveOpenAIProviderLocked), and a start mends what the
\* last session left undone (reconcileAgentRoster).
WorkspaceHolds ==
  [](Desk!WorkspaceTypeOK /\ Desk!RoutesHold /\ Desk!ProvidersHaveKeys) /\ Desk!RestartHeals

\* Notices: one that is put off is kept, none is shown twice or beyond the limit
\* (deliverOrDeferNotification, decideLocked).
NoticesHold ==
  [](Notify!ProactivityTypeOK /\ Notify!DeferredIsKept) /\ Notify!DailyLimitHolds /\ Notify!ShownOnce
=============================================================================
