----------------------------- MODULE PluginPackages -----------------------------
(***************************************************************************)
(* The packages of plugins (desktop/plugins_package.go, plugins_install.go,*)
(* plugins_consent.go, plugins_trust.go, plugins_lifecycle_authz.go,       *)
(* plugins/truststore.go, plugins/manifest.go, storage/sqlite/plugins.go): *)
(* a package is inspected where the owner keeps it, copied into the        *)
(* application's directory, verified again there and recorded in a row; it *)
(* is enabled with the capabilities the owner consents to, verified at     *)
(* every start against the publishers trusted then, and removed.  The      *)
(* directory, the row, the grants and the file of trusted publishers are   *)
(* written one after the other with no lock around them, and calls overlap.*)
(*                                                                         *)
(* What happens to the process of a started plugin is PluginSupervision.   *)
(***************************************************************************)
EXTENDS Naturals, FiniteSets, Functions

CONSTANTS
  Packages,     \* what a package directory may hold
  Broken,       \* those that no check lets pass
  PluginOf, Version, Signer,  \* of each package; no signer is None
  Declares,     \* capabilities a package's manifest asks for
  Broad,        \* capabilities without any restriction
  Keys,         \* publishers' keys
  Slots,        \* calls that may run at the same time
  None,
  MaxCalls, MaxFaults

Plugins == {PluginOf[p] : p \in Packages}
Versions == {Version[p] : p \in Packages}

ASSUME PackagesAssumption ==
  /\ DOMAIN PluginOf = Packages /\ DOMAIN Version = Packages /\ DOMAIN Declares = Packages
  /\ Signer \in [Packages -> Keys \cup {None}] /\ Broken \subseteq Packages
  /\ None \notin Keys \cup Packages \cup Slots
  /\ None \notin [version : Versions, package : Packages, enabled : BOOLEAN]   \* no row is not a row
  /\ MaxCalls \in Nat /\ MaxFaults \in Nat

VARIABLES
  source,    \* the package in the owner's directory
  disk,      \* the package in every directory of the application
  row,       \* the plugins table
  grants,    \* the permission grants of every plugin
  trust,     \* the file of trusted publishers
  devMode,
  running,   \* the package every plugin's process was started from
  work,      \* what every slot is doing
  calls, faults,
  revoked,   \* keys whose revocation has not been followed by another edit
  crossed,   \* plugins for which a consent met another change
  orphaned   \* directories that an overlapping install or an interruption left

settings == <<trust, devMode, revoked>>
installed == <<disk, row, orphaned>>
bounds == <<calls, faults>>
packageVars == <<source, installed, grants, settings, running, work, bounds, crossed>>

Idle == [kind |-> "idle", pc |-> "idle", plugin |-> None]

-----------------------------------------------------------------------------
(* Packages and trust.                                                     *)

\* A signature counts only when the manifest pins the executable.
VerifyPackage(p) ==
  CASE Signer[p] = None -> "unsigned" [] Signer[p] \in trust -> "verified" [] OTHER -> "unverified"

\* A manifest that pins the executable fits that executable only.
VerifyChecksum(manifest, content) == Signer[manifest] # None => content = manifest

Sound(p) == p # None /\ p \notin Broken

-----------------------------------------------------------------------------
(* Calls.                                                                  *)

Busy(i) == {s \in Slots : work[s].plugin = i}
Consents(i) == {s \in Slots : work[s].kind = "enable" /\ work[s].plugin = i}
Begin(s, c) == work[s] = Idle /\ calls < MaxCalls /\ calls' = calls + 1 /\ work' = [work EXCEPT ![s] = c]
Goes(s, c) == work' = [work EXCEPT ![s] = c] /\ UNCHANGED calls
At(s, kind, pc) == work[s].kind = kind /\ work[s].pc = pc
Fails(s) == faults < MaxFaults /\ faults' = faults + 1 /\ Goes(s, Idle)

\* A consent that overlaps another one, or the coming and going of the package.
Crosses(i, with) == crossed' = IF with # {} THEN crossed \cup {i} ELSE crossed

-----------------------------------------------------------------------------
(* Install.                                                                *)

\* The package is inspected where it is.
inspectPluginPackage(s) ==
  /\ IF Sound(source) /\ (VerifyPackage(source) = "verified" \/ devMode)
     THEN /\ Begin(s, [kind |-> "install", pc |-> "get", plugin |-> PluginOf[source], version |-> Version[source],
                       inspected |-> source, decision |-> VerifyPackage(source), content |-> None])
          /\ Crosses(PluginOf[source], Consents(PluginOf[source]))
     ELSE Begin(s, Idle) /\ UNCHANGED crossed
  /\ UNCHANGED <<source, installed, grants, settings, running, faults>>

InstallPlugin(s) ==
  /\ At(s, "install", "get")
  /\ IF row[work[s].plugin] # None THEN Goes(s, Idle) ELSE Goes(s, [work[s] EXCEPT !.pc = "copy"])
  /\ UNCHANGED <<source, installed, grants, settings, running, faults, crossed>>

Place(s) == <<work[s].plugin, work[s].version>>

\* The copy is of what the owner's directory holds by now.
copyPluginTree(s) ==
  /\ At(s, "install", "copy")
  /\ \/ /\ IF disk[Place(s)] # None THEN Goes(s, Idle)
           ELSE Goes(s, [work[s] EXCEPT !.pc = "place", !.content = source])
        /\ UNCHANGED faults
     \/ Fails(s)
  /\ UNCHANGED <<source, installed, grants, settings, running, crossed>>

\* A directory that is there by now is not replaced.
installPluginDirectory(s) ==
  /\ At(s, "install", "place")
  /\ IF disk[Place(s)] # None THEN UNCHANGED disk /\ Goes(s, Idle)
     ELSE disk' = [disk EXCEPT ![Place(s)] = work[s].content] /\ Goes(s, [work[s] EXCEPT !.pc = "verify"])
  /\ UNCHANGED <<source, row, orphaned, grants, settings, running, faults, crossed>>

\* The directory is renamed out of the way, then deleted.
removeOwnedPluginDirectory(s) ==
  /\ disk' = [disk EXCEPT ![Place(s)] = None]
  /\ orphaned' = orphaned \ {Place(s)}

\* What was copied must be what was inspected as far as trust goes.
verifyInstalled(s) ==
  /\ At(s, "install", "verify")
  /\ LET p == disk[Place(s)] IN
       IF /\ Sound(p) /\ VerifyPackage(p) = work[s].decision
          /\ VerifyPackage(p) # "unsigned" => Signer[p] = Signer[work[s].inspected]
       THEN Goes(s, [work[s] EXCEPT !.pc = "record", !.content = p]) /\ UNCHANGED <<disk, orphaned>>
       ELSE removeOwnedPluginDirectory(s) /\ Goes(s, Idle)
  /\ UNCHANGED <<source, row, grants, settings, running, faults, crossed>>

Left(i) == IF row[i] = None \/ disk[<<i, row[i].version>>] = None THEN {} ELSE {<<i, row[i].version>>}

\* What another install left, or put where this one had verified its own.
Overtaken(s) ==
  (Left(work[s].plugin) \ {Place(s)}) \cup (IF disk[Place(s)] \in {None, work[s].content} THEN {} ELSE {Place(s)})

\* Mutant: the row describes the package that was inspected.
RecordsInspected(s) ==
  /\ At(s, "install", "record")
  /\ \/ /\ row' = [row EXCEPT ![work[s].plugin] =
                     [version |-> work[s].version, package |-> work[s].inspected, enabled |-> FALSE]]
        /\ orphaned' = orphaned \cup Overtaken(s)
        /\ Goes(s, Idle) /\ UNCHANGED <<disk, faults>>
     \/ Fails(s) /\ removeOwnedPluginDirectory(s) /\ UNCHANGED row
  /\ UNCHANGED <<source, grants, settings, running, crossed>>

\* The row of a plugin that was installed in the meantime is replaced.
Upsert(s) ==
  /\ At(s, "install", "record")
  /\ \/ /\ row' = [row EXCEPT ![work[s].plugin] =
                     [version |-> work[s].version, package |-> work[s].content, enabled |-> FALSE]]
        /\ orphaned' = orphaned \cup Overtaken(s)
        /\ Goes(s, Idle) /\ UNCHANGED <<disk, faults>>
     \/ Fails(s) /\ removeOwnedPluginDirectory(s) /\ UNCHANGED row
  /\ UNCHANGED <<source, grants, settings, running, crossed>>

-----------------------------------------------------------------------------
(* Enabling and disabling.                                                 *)

\* Consents the code accepts: declared, and confirmed if they are unrestricted.
pluginConsentGrants(p, confirmed) ==
  {c \in SUBSET Declares[p] : c \cap Broad # {} => confirmed}

EnablePlugin(s) ==
  \E i \in Plugins :
    /\ row[i] # None
    /\ \E confirmed \in BOOLEAN : \E c \in pluginConsentGrants(row[i].package, confirmed) :
         Begin(s, [kind |-> "enable", pc |-> "previous", plugin |-> i, consents |-> c, previous |-> {}])
    /\ Crosses(i, {t \in Busy(i) : work[t].kind \in {"enable", "install", "uninstall"}})
    /\ UNCHANGED <<source, installed, grants, settings, running, faults>>

Grants(s) ==
  /\ At(s, "enable", "previous")
  /\ Goes(s, [work[s] EXCEPT !.pc = "grants", !.previous = grants[work[s].plugin]])
  /\ UNCHANGED <<source, installed, grants, settings, running, faults, crossed>>

ReplaceGrants(s) ==
  /\ At(s, "enable", "grants")
  /\ \/ /\ grants' = [grants EXCEPT ![work[s].plugin] = work[s].consents]
        /\ Goes(s, [work[s] EXCEPT !.pc = "enabled"]) /\ UNCHANGED faults
     \/ Fails(s) /\ UNCHANGED grants
  /\ UNCHANGED <<source, installed, settings, running, crossed>>

\* If the row cannot be enabled, the earlier grants come back.
SetEnabled(s) ==
  /\ At(s, "enable", "enabled")
  /\ LET i == work[s].plugin
         back == [grants EXCEPT ![i] = work[s].previous]
     IN \/ /\ row[i] # None
           /\ row' = [row EXCEPT ![i].enabled = TRUE]
           /\ Goes(s, Idle) /\ UNCHANGED <<grants, faults>>
        \/ /\ row[i] = None
           /\ grants' = back /\ Goes(s, Idle) /\ UNCHANGED <<row, faults>>
        \/ Fails(s) /\ grants' = back /\ UNCHANGED row
  /\ UNCHANGED <<source, disk, orphaned, settings, running, crossed>>

Removal == {"disable", "uninstall"}

\* Both begin by reading the row.
Starts(s) ==
  \E i \in Plugins, kind \in Removal :
    /\ row[i] # None
    /\ Begin(s, [kind |-> kind, pc |-> "stop", plugin |-> i, version |-> row[i].version])
    /\ Crosses(i, IF kind = "uninstall" THEN Consents(i) ELSE {})
    /\ UNCHANGED <<source, installed, grants, settings, running, faults>>

\* The row is read once more before the plugin is stopped.
StopPlugin(s) ==
  /\ work[s].kind \in Removal /\ work[s].pc = "stop"
  /\ IF row[work[s].plugin] = None THEN UNCHANGED running /\ Goes(s, Idle)
     ELSE /\ running' = [running EXCEPT ![work[s].plugin] = None]
          /\ Goes(s, [work[s] EXCEPT !.pc = "remove"])
  /\ UNCHANGED <<source, installed, grants, settings, faults, crossed>>

RevokeGrants(s) ==
  /\ At(s, "disable", "remove")
  /\ \/ /\ grants' = [grants EXCEPT ![work[s].plugin] = {}]
        /\ Goes(s, [work[s] EXCEPT !.pc = "row"]) /\ UNCHANGED faults
     \/ Fails(s) /\ UNCHANGED grants
  /\ UNCHANGED <<source, installed, settings, running, crossed>>

DisablePlugin(s) ==
  /\ At(s, "disable", "row")
  /\ \/ /\ row' = [row EXCEPT ![work[s].plugin] = IF @ = None THEN None ELSE [@ EXCEPT !.enabled = FALSE]]
        /\ Goes(s, Idle) /\ UNCHANGED faults
     \/ Fails(s) /\ UNCHANGED row
  /\ UNCHANGED <<source, disk, orphaned, grants, settings, running, crossed>>

UninstallPlugin(s) ==
  /\ At(s, "uninstall", "remove")
  /\ removeOwnedPluginDirectory(s)
  /\ Goes(s, [work[s] EXCEPT !.pc = "row"])
  /\ UNCHANGED <<source, row, grants, settings, running, faults, crossed>>

\* The grants stay: the next consent replaces them.
Delete(s) ==
  /\ At(s, "uninstall", "row")
  /\ \/ /\ row' = [row EXCEPT ![work[s].plugin] = None]
        /\ orphaned' = orphaned \cup Left(work[s].plugin)
        /\ Goes(s, Idle) /\ UNCHANGED faults
     \/ Fails(s) /\ UNCHANGED <<row, orphaned>>
  /\ UNCHANGED <<source, disk, grants, settings, running, crossed>>

-----------------------------------------------------------------------------
(* Start.                                                                  *)

StartPlugin(s) ==
  \E i \in Plugins :
    /\ row[i] # None
    /\ IF row[i].enabled
       THEN Begin(s, [kind |-> "start", pc |-> "verify", plugin |-> i, version |-> row[i].version,
                      package |-> row[i].package, shut |-> revoked, dev |-> FALSE, seen |-> None])
       ELSE Begin(s, Idle)
    /\ UNCHANGED <<source, installed, grants, settings, running, faults, crossed>>

\* The directory is verified again, with the publishers trusted now.
verifyInstalledPlugin(s) ==
  /\ At(s, "start", "verify")
  /\ LET p == disk[Place(s)] IN
       IF Sound(p) /\ (VerifyPackage(p) = "verified" \/ devMode)
       THEN Goes(s, [work[s] EXCEPT !.pc = "run", !.dev = devMode, !.shut = @ \cap revoked, !.seen = p])
       ELSE Goes(s, Idle)
  /\ UNCHANGED <<source, installed, grants, settings, running, faults, crossed>>

\* The supervisor checks the executable against the manifest in the row.
Run(s) ==
  /\ At(s, "start", "run")
  /\ LET p == disk[Place(s)] IN
       IF running[work[s].plugin] = None /\ p # None /\ VerifyChecksum(work[s].package, p)
       THEN running' = [running EXCEPT ![work[s].plugin] = p] /\ Goes(s, Idle)
       ELSE UNCHANGED running /\ Goes(s, Idle)
  /\ UNCHANGED <<source, installed, grants, settings, faults, crossed>>

-----------------------------------------------------------------------------
(* Trusted publishers.  Every call opens the store anew, so the store's    *)
(* lock is its own.                                                        *)

Edits == {s \in Slots : work[s].kind \in {"trust", "revoke"}}

TrustPluginPublisher(s) ==
  \E k \in Keys :
    /\ IF k \in trust THEN Begin(s, Idle)
       ELSE Begin(s, [kind |-> "trust", pc |-> "write", plugin |-> None, keys |-> trust \cup {k}])
    /\ revoked' = IF k \in trust THEN revoked ELSE {}
    /\ UNCHANGED <<source, installed, grants, trust, devMode, running, faults, crossed>>

RevokePluginPublisher(s) ==
  \E k \in Keys :
    /\ IF k \notin trust THEN Begin(s, Idle)
       ELSE Begin(s, [kind |-> "revoke", pc |-> "write", plugin |-> None, keys |-> trust \ {k}])
    /\ UNCHANGED <<source, installed, grants, settings, running, faults, crossed>>

\* The file is replaced as a whole by what was read and changed.
writeTrustStore(s) ==
  /\ s \in Edits
  /\ \/ /\ trust' = work[s].keys
        /\ revoked' = IF Edits = {s} THEN (revoked \cup trust) \ work[s].keys ELSE {}
        /\ Goes(s, Idle) /\ UNCHANGED faults
     \/ Fails(s) /\ UNCHANGED <<trust, revoked>>
  /\ UNCHANGED <<source, installed, grants, devMode, running, crossed>>

-----------------------------------------------------------------------------
(* The rest of the world.                                                  *)

SetPluginDevMode ==
  /\ calls < MaxCalls /\ calls' = calls + 1
  /\ devMode' = ~devMode
  /\ UNCHANGED <<source, installed, grants, trust, revoked, running, work, faults, crossed>>

\* The owner builds another package into the same directory.
Rebuild ==
  /\ calls < MaxCalls /\ calls' = calls + 1
  /\ \E p \in Packages \ {source} : source' = p
  /\ UNCHANGED <<installed, grants, settings, running, work, faults, crossed>>

\* Of an interrupted call, what it has written stays.
Crash ==
  /\ faults < MaxFaults /\ faults' = faults + 1
  /\ work' = [s \in Slots |-> Idle]
  /\ running' = [i \in Plugins |-> None]
  /\ orphaned' = orphaned \cup {Place(s) : s \in {t \in Slots : work[t].kind = "install" /\ work[t].pc \in {"verify", "record"}}}
  /\ revoked' = IF Edits = {} THEN revoked ELSE {}
  /\ UNCHANGED <<source, disk, row, grants, trust, devMode, calls, crossed>>

PackagesInit ==
  /\ source \in Packages \ Broken
  /\ disk = [d \in Plugins \X Versions |-> None] /\ row = [i \in Plugins |-> None]
  /\ grants = [i \in Plugins |-> {}] /\ trust = Keys /\ devMode = FALSE
  /\ running = [i \in Plugins |-> None] /\ work = [s \in Slots |-> Idle]
  /\ calls = 0 /\ faults = 0 /\ revoked = {} /\ crossed = {} /\ orphaned = {}

PackagesNext ==
  \/ \E s \in Slots :
       \/ inspectPluginPackage(s) \/ InstallPlugin(s) \/ copyPluginTree(s) \/ installPluginDirectory(s)
       \/ verifyInstalled(s) \/ Upsert(s)
       \/ EnablePlugin(s) \/ Grants(s) \/ ReplaceGrants(s) \/ SetEnabled(s)
       \/ Starts(s) \/ StopPlugin(s) \/ RevokeGrants(s) \/ DisablePlugin(s)
       \/ UninstallPlugin(s) \/ Delete(s)
       \/ StartPlugin(s) \/ verifyInstalledPlugin(s) \/ Run(s)
       \/ TrustPluginPublisher(s) \/ RevokePluginPublisher(s) \/ writeTrustStore(s)
  \/ SetPluginDevMode \/ Rebuild \/ Crash

PackagesSpec == PackagesInit /\ [][PackagesNext]_packageVars

-----------------------------------------------------------------------------
(* What the owner may rely on.                                             *)

Placing(i, v) ==
  \E s \in Busy(i) : work[s].kind = "install" /\ work[s].pc \in {"verify", "record"} /\ work[s].version = v

\* The row of a plugin describes the package its directory holds, whatever was
\* built into the owner's directory while it was installed, unless the directory
\* has been removed, or an install that began earlier is putting another one there
\* (InstallPlugin's second verification, Upsert).
RowsDescribeTheFiles ==
  \A i \in Plugins : row[i] # None =>
    \/ disk[<<i, row[i].version>>] \in {None, row[i].package}
    \/ Placing(i, row[i].version) \/ <<i, row[i].version>> \in orphaned

\* Every directory of a plugin belongs to a row, or to an install under way; only
\* an interruption, or an install that overlapped another one or a removal, leaves
\* one that nothing will remove (InstallPlugin, removeOwnedPluginDirectory).
NothingIsLeftBehind ==
  \A i \in Plugins, v \in Versions : disk[<<i, v>>] # None =>
    (row[i] # None /\ row[i].version = v) \/ <<i, v>> \in orphaned \/ Placing(i, v)

\* The grants of an enabled plugin are among those its manifest asks for, also when
\* it was installed again in another version and the old grants were still there,
\* and when a consent failed halfway; a consent that overlaps another one or a new
\* installation excepted (EnablePlugin, UninstallPlugin, pluginConsentGrants).
GrantsFitTheManifest ==
  \A i \in Plugins \ crossed : row[i] # None /\ row[i].enabled => grants[i] \subseteq Declares[row[i].package]

\* A package that was verified starts only if its publisher was trusted at some
\* moment of this start, or development mode was on: not after a revocation,
\* unless another edit of the store has overlapped or followed it
\* (verifyInstalledPlugin, TrustStore).  The supervisor does not verify it again:
\* what two installs and a removal have put there in the meantime is another thing.
RevokedDoNotStart ==
  [][ \A s \in Slots : At(s, "start", "run") /\ work'[s] = Idle /\ ~work[s].dev =>
        \A i \in Plugins : running'[i] \notin {None, running[i]} /\ running'[i] = work[s].seen
                           => Signer[running'[i]] \notin work[s].shut \cup {None} ]_packageVars

\* Rows, directories and grants agree, and a revoked publisher's package is not
\* started.
PackagesHold ==
  [](RowsDescribeTheFiles /\ NothingIsLeftBehind /\ GrantsFitTheManifest) /\ RevokedDoNotStart
=============================================================================
