--------------------------- MODULE MCPluginSession ---------------------------
(***************************************************************************)
(* The session of a started plugin and the packages plugins come from,     *)
(* which share nothing in these models: part says which of them a          *)
(* behaviour is about, and the other one keeps an initial state.           *)
(***************************************************************************)
EXTENDS PluginSessionProperties, PluginPackages, TLC

CONSTANTS h, hl, t1, t2, s, p1, p2, p3, key, net, tool

VARIABLES
  part,
  cast \* the calls a behaviour of the session is about

-----------------------------------------------------------------------------
\* A start, and one tool, of a plugin that may babble; two tools at a time; a
\* tool against the stop, which asks the plugin before it closes the session.
Casts == {{h, hl}, {t1}, {t1, t2}, {t1, s}}

CastInit ==
  /\ cast \in Casts
  /\ IF h \in cast THEN Init ELSE InitAfter({h, hl})

Noisy == cast \in {{h, hl}, {t1}}

CastNext ==
  /\ Next
  /\ \A c \in Calls \ cast : call'[c] = call[c]
  /\ ~Noisy => server'.emitted = 0
  /\ cast = {t1, t2} => session'.closing = "no" /\ call'[t2] # "abandoned"
  /\ s \in cast /\ call[s] \notin Ended => session'.closing = "no"
  /\ s \in cast => call'[t1] # "abandoned"

\* One plugin in two versions, the second also without a signature; the first
\* asks for the network within limits, the others for a tool without any.
OfThePlugin == (p1 :> "a") @@ (p2 :> "a") @@ (p3 :> "a")
Versioned == (p1 :> 1) @@ (p2 :> 2) @@ (p3 :> 1)
SignedBy == (p1 :> key) @@ (p2 :> key) @@ (p3 :> None)
Declared == (p1 :> {net}) @@ (p2 :> {tool}) @@ (p3 :> {tool})

-----------------------------------------------------------------------------
PluginsInit ==
  \/ part = "session" /\ CastInit /\ PackagesInit /\ source = p1
  \/ part = "packages" /\ Init /\ cast = {} /\ PackagesInit

PluginsNext ==
  \/ part = "session" /\ CastNext /\ UNCHANGED <<part, cast, packageVars>>
  \/ part = "packages" /\ PackagesNext /\ UNCHANGED <<part, cast, vars>>

\* In a session that rests none of the fair actions is enabled.
PluginsSpec == PluginsInit /\ [][PluginsNext]_<<part, cast, vars, packageVars>> /\ Fairness
=============================================================================
