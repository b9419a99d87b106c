------------------------------- MODULE Workspace -------------------------------
(***************************************************************************)
(* What the owner sets up (desktop/agents.go, chat.go, chat_persistence.go,*)
(* conversation_titles.go, providers*.go, personality.go, proactivity.go,  *)
(* config, storage/sqlite/agents.go and conversations.go): the roster of   *)
(* named agents and their conversations in SQLite, the providers' keys in  *)
(* the system keyring, and one config file that says who is active, which  *)
(* provider is enabled and how far the setup has come.  No transaction     *)
(* spans two of the three.  The owner's windows call the bridge            *)
(* concurrently; a chat run rewrites its conversation's row before and     *)
(* after it talks, and a background worker gives new conversations a name. *)
(*                                                                         *)
(* A call is a record of what it still has to do and of the row it read.   *)
(* Every config writer but the provider's holds the bridge's lock for one  *)
(* step; saving a provider holds it over the keyring and the file.  What a *)
(* chat says is left out, a provider's answer is any.                      *)
(***************************************************************************)
EXTENDS Naturals, FiniteSets

CONSTANTS
  Agents,      \* agents the owner may create, numbered in that order
  Convs,       \* conversations
  Providers,   \* provider ids
  Keyed,       \* those that need an API key in the keyring
  Forgetful,   \* those whose credential form forgets the favourite models
  Codex,       \* the provider that signs in by OAuth
  Dirs,        \* directories the file tools may be allowed
  Slots,       \* bridge calls that may run at the same time
  None,
  MaxCalls, MaxQuits

WorkspaceAssumption ==
  /\ Agents \subseteq Nat \ {0} /\ Agents # {} /\ Keyed \subseteq Providers /\ Codex \in Providers \ Keyed
  /\ Forgetful \subseteq Keyed /\ None \notin Convs \cup Providers \cup Slots
  /\ MaxCalls \in Nat /\ MaxQuits \in Nat

VARIABLES
  profile,  \* the life of every agent's row
  route,    \* the routes and the budget its row names
  conv,     \* the row of every conversation
  runs,     \* the run rows that are not terminal, as <<agent, conversation>>
  titling,  \* the conversations a title worker is running for
  config,   \* the bridge's configuration
  disk,     \* the configuration file
  keys,     \* the providers the keyring has a key for
  served,   \* the setting the notification service works with
  mu,       \* the call that holds the bridge's lock across steps
  call,     \* what every slot is doing
  calls,    \* calls made so far
  up,       \* the application is running
  quits,    \* how often it was quit or crashed so far
  restored  \* a failed audit has thrown the configuration back

rows == <<profile, route, conv, runs>>
files == <<config, disk, keys, mu>>
vars == <<profile, route, conv, runs, titling, config, disk, keys, served, mu, call, calls, up,
          quits, restored>>

Nobody == 0   \* no agent: the profile id of a fresh installation, or an empty one
Live == {a \in Agents : profile[a] = "live"}
Eldest(as) == CHOOSE a \in as : \A b \in as : a <= b

NewRow == [agent |-> Nobody, source |-> "none", archived |-> FALSE, talked |-> FALSE]

-----------------------------------------------------------------------------
(* The configuration file.                                                 *)

Valid(c) ==
  /\ c.completed = (c.tested /\ c.configured)
  /\ c.configured => c.profile # Nobody

Fresh == [profile |-> Nobody, configured |-> FALSE, tested |-> FALSE, completed |-> FALSE,
          evolve |-> TRUE, notices |-> FALSE, dirs |-> {}, providers |-> {}, enabled |-> None,
          liked |-> {}, dev |-> FALSE, web |-> FALSE]

\* config.Save replaces the file as a whole or leaves it; memory follows the file.
Stores(c) ==
  /\ mu = None /\ Valid(c) /\ config' = c /\ disk' = c /\ UNCHANGED <<keys, mu>>

Refuses == mu = None /\ UNCHANGED files

Complete(c) == [c EXCEPT !.completed = c.configured /\ c.tested]

-----------------------------------------------------------------------------
(* Calls.                                                                  *)

Idle == [op |-> "idle", agent |-> Nobody, conv |-> None, provider |-> None, seen |-> None]

Asks(op, a, c, p, seen) ==
  [op |-> op, agent |-> a, conv |-> c, provider |-> p, seen |-> seen]

Begin(s, c) ==
  /\ up /\ call[s] = Idle /\ calls < MaxCalls
  /\ calls' = calls + 1
  /\ call' = [call EXCEPT ![s] = c]
  /\ UNCHANGED <<up, quits>>

Goes(s, c) == call' = [call EXCEPT ![s] = c] /\ UNCHANGED <<calls, up, quits>>
Ends(s) == Goes(s, Idle)
In(s, op) == up /\ call[s].op = op
GoesOn(s, op) == Goes(s, [call[s] EXCEPT !.op = op])

\* A call of one step that only writes the configuration.
Writes(s, c) ==
  /\ Begin(s, Idle)
  /\ Stores(c) \/ Refuses
  /\ UNCHANGED <<rows, titling, served, restored>>

-----------------------------------------------------------------------------
(* The roster.                                                             *)

\* A route may name no provider, or one the configuration has.
Routable == config.providers \cup {None}

StartCreate(s) ==
  /\ mu = None
  /\ \E a \in Agents, p \in Routable :
       /\ profile[a] = "absent" /\ \A b \in Agents : b < a => profile[b] # "absent"
       /\ Begin(s, Asks("insert", a, None, p, None))
  /\ UNCHANGED <<rows, titling, files, served, restored>>

\* The profile and the first versions of its mind are one transaction.
CreateAgent(s) ==
  /\ In(s, "insert")
  /\ LET a == call[s].agent IN
       \/ /\ profile[a] = "absent"
          /\ profile' = [profile EXCEPT ![a] = "live"]
          /\ route' = [route EXCEPT ![a].primary = call[s].provider]
          /\ GoesOn(s, "activate new")
       \/ UNCHANGED <<profile, route>> /\ Ends(s)
  /\ UNCHANGED <<conv, runs, titling, files, served, restored>>

SetActiveAgent(s) ==
  /\ \E a \in Live : Begin(s, Asks("activate", a, None, None, None))
  /\ UNCHANGED <<rows, titling, files, served, restored>>

activateAgent(s) ==
  /\ In(s, "activate") \/ In(s, "activate new")
  /\ LET c == Complete([config EXCEPT !.profile = call[s].agent,
                                      !.configured = @ \/ call[s].op = "activate new"])
     IN Stores(c) \/ Refuses
  /\ Ends(s)
  /\ UNCHANGED <<rows, titling, served, restored>>

HasLiveRuns(a) == \E r \in runs : r[1] = a

SoftDelete(s) ==
  /\ \E a \in Live :
       /\ ~HasLiveRuns(a)
       /\ profile' = [profile EXCEPT ![a] = "deleted"]
       /\ Begin(s, Asks("list", a, None, None, None))
  /\ UNCHANGED <<route, conv, runs, titling, files, served, restored>>

ListLeft(s) ==
  /\ In(s, "list")
  /\ Goes(s, [call[s] EXCEPT !.op = "forget", !.seen = Live])
  /\ UNCHANGED <<rows, titling, files, served, restored>>

DeleteAgent(s) ==
  /\ In(s, "forget")
  /\ LET left == call[s].seen
         c == [config EXCEPT
                 !.profile = IF @ # call[s].agent THEN @
                             ELSE IF left = {} THEN Nobody ELSE Eldest(left),
                 !.configured = left # {}]
     IN Stores(Complete(c)) \/ Refuses
  /\ Ends(s)
  /\ UNCHANGED <<rows, titling, served, restored>>

\* The active agent's primary route, fallback route or budget: validated, then
\* written column by column, whatever else has become of the row.
StartRoute(s) ==
  /\ mu = None /\ config.profile \in Live
  /\ \E p \in Routable, op \in {"primary", "fallback", "budget"} :
       /\ op = "budget" => p = None
       /\ Begin(s, Asks(op, config.profile, None, p, None))
  /\ UNCHANGED <<rows, titling, files, served, restored>>

UpdateRoute(s) ==
  /\ LET a == call[s].agent IN
       \/ In(s, "primary") /\ route' = [route EXCEPT ![a].primary = call[s].provider]
       \/ In(s, "fallback") /\ route' = [route EXCEPT ![a].fallback = call[s].provider]
       \/ In(s, "budget") /\ route' = [route EXCEPT ![a].budget = ~@]
  /\ Ends(s)
  /\ UNCHANGED <<profile, conv, runs, titling, files, served, restored>>

-----------------------------------------------------------------------------
(* Providers and their keys.                                               *)

\* A form saves the whole provider, enabled or not, or its credential only; with
\* a key for the keyring or without.  The onboarding goes on to probe it.
Form(p, kind, key) == [kind |-> kind, key |-> key, old |-> p \in keys]
FormKinds == {"onboarding", "enable", "disable", "credential"}

upsertProvider(c, p, f) ==
  [c EXCEPT !.providers = @ \cup {p},
            !.enabled = CASE f.kind = "credential" -> @
                          [] f.kind = "disable" -> IF @ = p THEN None ELSE @
                          [] OTHER -> p,
            !.liked = IF p = Codex \/ (f.kind = "credential" /\ p \in Forgetful)
                      THEN @ \ {p} ELSE @]

SaveProvider(s) ==
  /\ mu = None /\ mu' = s
  /\ \E p \in Keyed, kind \in FormKinds, key \in BOOLEAN :
       /\ key \/ p \in keys
       /\ Begin(s, Asks("save", Nobody, None, p, Form(p, kind, key)))
       /\ keys' = IF key THEN keys \cup {p} ELSE keys
  /\ UNCHANGED <<rows, titling, config, disk, served, restored>>

\* Mutant: a form that could not be saved takes the old key with it.
DropsOldKey(p, f) == IF f.key THEN keys \ {p} ELSE keys

\* A key that was put for a form that could not be saved is taken back.
TakesBack(p, f) == IF f.key /\ ~f.old THEN keys \ {p} ELSE keys

FinishSave(s) ==
  /\ In(s, "save") /\ mu = s /\ mu' = None
  /\ LET p == call[s].provider
         f == call[s].seen
         c == upsertProvider(config, p, f)
     IN \/ /\ Valid(c) /\ config' = c /\ disk' = c
           /\ UNCHANGED keys
           /\ IF f.kind = "onboarding" THEN GoesOn(s, "probe") ELSE Ends(s)
        \/ /\ keys' = TakesBack(p, f)
           /\ UNCHANGED <<config, disk>>
           /\ Ends(s)
  /\ UNCHANGED <<rows, titling, served, restored>>

\* Codex signs in elsewhere: its form writes the file only, and drops the client.
SaveCodexProvider(s) ==
  /\ \E kind \in FormKinds \ {"credential"} :
       \/ /\ Stores(upsertProvider(config, Codex, Form(Codex, kind, FALSE)))
          /\ Begin(s, IF kind = "onboarding" THEN Asks("probe", Nobody, None, Codex, None) ELSE Idle)
       \/ Refuses /\ Begin(s, Idle)
  /\ UNCHANGED <<rows, titling, served, restored>>

\* A probe reads the enabled provider and its key, then talks to it.
StartProbe(s) ==
  /\ mu = None /\ config.enabled # None /\ (config.enabled \in Keyed => config.enabled \in keys)
  /\ Begin(s, Asks("probe", Nobody, None, config.enabled, None))
  /\ UNCHANGED <<rows, titling, files, served, restored>>

completeOnboarding(s) ==
  /\ In(s, "probe")
  /\ Stores(Complete([config EXCEPT !.tested = TRUE])) \/ Refuses
  /\ Ends(s)
  /\ UNCHANGED <<rows, titling, served, restored>>

ensureCodexProviderConfigured(s) ==
  Writes(s, IF config.enabled = Codex THEN config
            ELSE upsertProvider(config, Codex, Form(Codex, "enable", FALSE)))

\* The logout at the app server comes after this and changes nothing here.
CodexLogout(s) == Writes(s, [config EXCEPT !.tested = FALSE, !.completed = FALSE])

SetProviderModelFavorite(s) ==
  \E p \in Keyed \cap config.providers, like \in BOOLEAN :
    Writes(s, [config EXCEPT !.liked = IF like THEN @ \cup {p} ELSE @ \ {p}])

-----------------------------------------------------------------------------
(* The other settings.                                                     *)

SaveAllowedDirectories(s) == \E ds \in SUBSET Dirs : Writes(s, [config EXCEPT !.dirs = ds])
addAllowedDirectory(s) == \E d \in Dirs : Writes(s, [config EXCEPT !.dirs = @ \cup {d}])
SetPluginDevMode(s) == Writes(s, [config EXCEPT !.dev = ~@])
SaveWebSearchSettings(s) == Writes(s, [config EXCEPT !.web = ~@])

\* The file is written under the lock, the service is told after it.
SaveProactivity(s) ==
  /\ \E on \in BOOLEAN :
       \/ /\ Stores([config EXCEPT !.notices = on])
          /\ Begin(s, Asks("serve", Nobody, None, None, on))
       \/ Refuses /\ Begin(s, Idle)
  /\ UNCHANGED <<rows, titling, served, restored>>

ServeProactivity(s) ==
  /\ In(s, "serve") /\ served' = call[s].seen
  /\ Ends(s)
  /\ UNCHANGED <<rows, titling, files, restored>>

\* The switch is saved, then audited; without the audit the whole previous
\* configuration comes back.
SetPersonaAutoEvolution(s) ==
  /\ \E on \in BOOLEAN :
       \/ /\ Stores([config EXCEPT !.evolve = on])
          /\ Begin(s, Asks("audit", Nobody, None, None, config))
       \/ Refuses /\ Begin(s, Idle)
  /\ UNCHANGED <<rows, titling, served, restored>>

AuditAutoEvolution(s) ==
  /\ In(s, "audit")
  /\ \/ UNCHANGED <<files, restored>>
     \/ Stores(call[s].seen) /\ restored' = TRUE
     \/ Refuses /\ UNCHANGED restored
  /\ Ends(s)
  /\ UNCHANGED <<rows, titling, served>>

-----------------------------------------------------------------------------
(* Conversations.                                                          *)

NewConversation(s) ==
  /\ config.profile # Nobody
  /\ \E c \in Convs, source \in {"default", "user"} :
       /\ conv[c].source = "none"
       /\ conv' = [conv EXCEPT ![c] = [NewRow EXCEPT !.agent = config.profile, !.source = source]]
  /\ Begin(s, Idle)
  /\ UNCHANGED <<profile, route, runs, titling, files, served, restored>>

Owned(c) == conv[c].source # "none" /\ conv[c].agent = config.profile

Rename(s) ==
  /\ \E c \in Convs : Owned(c) /\ conv' = [conv EXCEPT ![c].source = "user"]
  /\ Begin(s, Idle)
  /\ UNCHANGED <<profile, route, runs, titling, files, served, restored>>

DeleteConversation(s) ==
  /\ \E c \in Convs :
       /\ Owned(c) /\ ~conv[c].archived /\ \A r \in runs : r[2] # c
       /\ conv' = [conv EXCEPT ![c].archived = TRUE]
  /\ Begin(s, Idle)
  /\ UNCHANGED <<profile, route, runs, titling, files, served, restored>>

\* A chat run looks its agent and its conversation up.
StartChat(s) ==
  /\ config.profile \in Live
  /\ \E c \in Convs :
       /\ conv[c].source = "none" \/ Owned(c)
       /\ Begin(s, Asks("ensure", config.profile, c, None, conv[c]))
  /\ UNCHANGED <<rows, titling, files, served, restored>>

\* Conversations.Save writes the title, its source and the archive mark it read.
SavesRow(s) == conv' = [conv EXCEPT ![call[s].conv] =
                          [call[s].seen EXCEPT !.talked = conv[call[s].conv].talked]]

ensureConversation(s) ==
  /\ In(s, "ensure")
  /\ LET c == call[s].conv IN
       \/ call[s].seen.source # "none" /\ SavesRow(s) /\ GoesOn(s, "run")
       \/ /\ call[s].seen.source = "none" /\ conv[c].source = "none"
          /\ conv' = [conv EXCEPT ![c] = [NewRow EXCEPT !.agent = call[s].agent, !.source = "default"]]
          /\ GoesOn(s, "run")
       \/ UNCHANGED conv /\ Ends(s)
  /\ UNCHANGED <<profile, route, runs, titling, files, served, restored>>

\* Only the first message of a conversation that has no name asks for one.
conversationTitleEligible(r) == r.source = "default" /\ ~r.talked

CreateRun(s) ==
  /\ In(s, "run")
  /\ LET c == call[s].conv
         a == call[s].agent
     IN \/ /\ a \in Live
           /\ runs' = runs \cup {<<a, c>>}
           /\ conv' = [conv EXCEPT ![c].talked = TRUE]
           /\ Goes(s, [call[s] EXCEPT !.op = "talk", !.seen = conversationTitleEligible(conv[c])])
        \/ UNCHANGED <<runs, conv>> /\ Ends(s)
  /\ UNCHANGED <<profile, route, titling, files, served, restored>>

FinishRun(s) ==
  /\ In(s, "talk")
  /\ runs' = runs \ {<<call[s].agent, call[s].conv>>}
  /\ \/ GoesOn(s, IF call[s].seen THEN "touch untitled" ELSE "touch")
     \/ Ends(s)
  /\ UNCHANGED <<profile, route, conv, titling, files, served, restored>>

ReadForTouch(s) ==
  /\ \/ In(s, "touch") /\ Goes(s, [call[s] EXCEPT !.op = "save row", !.seen = conv[call[s].conv]])
     \/ /\ In(s, "touch untitled")
        /\ Goes(s, [call[s] EXCEPT !.op = "save row untitled", !.seen = conv[call[s].conv]])
  /\ UNCHANGED <<rows, titling, files, served, restored>>

touchConversation(s) ==
  /\ \/ In(s, "save row") /\ UNCHANGED titling
     \/ In(s, "save row untitled") /\ titling' = titling \cup {call[s].conv}
  /\ SavesRow(s)
  /\ Ends(s)
  /\ UNCHANGED <<profile, route, runs, files, served, restored>>

\* The worker's name lands on the placeholder only.
UpdateTitleIfDefault(c) ==
  /\ up /\ c \in titling /\ titling' = titling \ {c}
  /\ \/ conv[c].source = "default" /\ conv' = [conv EXCEPT ![c].source = "generated"]
     \/ UNCHANGED conv
  /\ UNCHANGED <<profile, route, runs, files, served, call, calls, up, quits, restored>>

-----------------------------------------------------------------------------
(* Quitting and starting again.                                            *)

Quit ==
  /\ up /\ quits < MaxQuits
  /\ up' = FALSE /\ quits' = quits + 1
  /\ call' = [s \in Slots |-> Idle] /\ titling' = {} /\ mu' = None
  /\ UNCHANGED <<rows, config, disk, keys, served, calls, restored>>

reconcileAgentRoster(c) ==
  IF Live = {} THEN [c EXCEPT !.profile = Nobody, !.configured = FALSE, !.completed = FALSE]
  ELSE Complete([c EXCEPT !.profile = IF @ \in Live THEN @ ELSE Eldest(Live), !.configured = TRUE])

NewBridge ==
  /\ ~up /\ up' = TRUE
  /\ LET c == reconcileAgentRoster(disk)
     IN Valid(c) /\ config' = c /\ disk' = c /\ served' = c.notices
  /\ UNCHANGED <<rows, titling, keys, mu, call, calls, quits, restored>>

-----------------------------------------------------------------------------
\* A fresh installation, or one whose first agent and first conversation are there.
Init ==
  /\ \E used \in BOOLEAN, p \in Providers :
       /\ used \/ p = Codex
       /\ profile = [a \in Agents |-> IF used /\ a = Eldest(Agents) THEN "live" ELSE "absent"]
       /\ config = IF used THEN [Fresh EXCEPT !.profile = Eldest(Agents), !.configured = TRUE,
                                             !.tested = TRUE, !.completed = TRUE,
                                             !.providers = {p}, !.enabled = p]
                   ELSE Fresh
       /\ keys = IF used THEN {p} \cap Keyed ELSE {}
  /\ route = [a \in Agents |-> [primary |-> None, fallback |-> None, budget |-> FALSE]]
  /\ conv = [c \in Convs |-> NewRow] /\ runs = {} /\ titling = {}
  /\ disk = config /\ served = config.notices /\ mu = None
  /\ call = [s \in Slots |-> Idle] /\ calls = 0 /\ up = TRUE /\ quits = 0 /\ restored = FALSE

RosterStep(s) ==
  StartCreate(s) \/ CreateAgent(s) \/ SetActiveAgent(s) \/ activateAgent(s) \/ SoftDelete(s)
  \/ ListLeft(s) \/ DeleteAgent(s) \/ StartRoute(s) \/ UpdateRoute(s)

ProviderStep(s) ==
  SaveProvider(s) \/ FinishSave(s) \/ SaveCodexProvider(s) \/ StartProbe(s) 
  \/ completeOnboarding(s) \/ ensureCodexProviderConfigured(s) \/ CodexLogout(s)
  \/ SetProviderModelFavorite(s)

SettingsStep(s) ==
  SaveAllowedDirectories(s) \/ addAllowedDirectory(s) \/ SetPluginDevMode(s)
  \/ SaveWebSearchSettings(s) \/ SaveProactivity(s) \/ ServeProactivity(s)
  \/ SetPersonaAutoEvolution(s) \/ AuditAutoEvolution(s)

ConversationStep(s) ==
  NewConversation(s) \/ Rename(s) \/ DeleteConversation(s) \/ StartChat(s) \/ ensureConversation(s)
  \/ CreateRun(s) \/ FinishRun(s) \/ ReadForTouch(s) \/ touchConversation(s)

Next ==
  \/ \E s \in Slots : RosterStep(s) \/ ProviderStep(s) \/ SettingsStep(s) \/ ConversationStep(s)
  \/ \E c \in Convs : UpdateTitleIfDefault(c)
  \/ Quit \/ NewBridge

Spec == Init /\ [][Next]_vars
=============================================================================
