-------------------------- MODULE WorkspaceProperties --------------------------
(***************************************************************************)
(* What must hold of the roster, the conversations and the configuration.  *)
(***************************************************************************)
EXTENDS Workspace

\* Every variable has values of its kind, and what the file may never say (an
\* active agent that is nobody, a setup complete in part) it does not say.
WorkspaceTypeOK ==
  /\ profile \in [Agents -> {"absent", "live", "deleted"}]
  /\ \A a \in Agents : {route[a].primary, route[a].fallback} \subseteq Providers \cup {None}
  /\ \A c \in Convs : conv[c].source \in {"none", "default", "generated", "user"}
  /\ runs \subseteq Agents \X Convs /\ titling \subseteq Convs /\ keys \subseteq Keyed
  /\ config.profile \in Agents \cup {Nobody} /\ config.enabled \in Providers \cup {None}
  /\ Valid(config) /\ Valid(disk) /\ (mu = None => disk = config)
  /\ \A s \in Slots : call[s].agent \in Agents \cup {Nobody}

\* An agent's primary and fallback routes name providers the configuration still
\* has: forms never remove one, and a route is looked up before it is stored
\* (validateAgentModelRoute).  Only the auto-evolution switch can break it, which
\* puts back the whole configuration it found when its audit fails.
RoutesHold ==
  restored \/ \A a \in Agents : {route[a].primary, route[a].fallback} \ {None} \subseteq config.providers

\* A provider of the configuration that signs in with a key has one in the
\* keyring, whatever fails or is cut off between the keyring and the file
\* (saveOpenAIProviderLocked, saveGoogleAIStudioProviderLocked).
ProvidersHaveKeys == config.providers \cap Keyed \subseteq keys

\* However the last session ended, between a row and the file or with two
\* deletions in each other's way, the next one starts with an agent that is
\* live, and with a setup that counts an agent exactly when there is one
\* (reconcileAgentRoster).
RestartHeals ==
  [][~up /\ up' => /\ config'.configured = (Live # {})
                   /\ Live # {} => config'.profile \in Live]_vars

\* Once the owner has named a conversation no worker and no chat takes the name
\* away (Rename, UpdateTitleIfDefault).
OwnerTitleStays ==
  [][\A c \in Convs : conv[c].source = "user" => conv'[c].source = "user"]_vars

\* A start finds the runs the last session left in the middle and ends them
\* (docs/ARCHITECTURE.md, crash recovery).
InterruptedRunsEnd == [][~up /\ up' => runs' = {}]_vars
=============================================================================
